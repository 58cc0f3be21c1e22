CONSTANTS
  p1 = p1
  p2 = p2
  b1 = b1
  b2 = b2
  Procs = {p1, p2}
  Bases = {b1, b2}
  Nil = Nil
  Rotating = {b1}
  MaxRunning = 2
  MaxCommands = 3
  MaxIssued = 3
SYMMETRY Terminals
SPECIFICATION Spec
INVARIANT SignedOutIsOver
CHECK_DEADLOCK FALSE
