CONSTANTS
  i1 = i1
  Images = {i1}
  Nil = Nil
  Restart = Restart
  MaxReplicas = 1
  MaxTime = 2
  MaxForeign = 2
  Asked <- EveryRequest
  Reports <- Ages
SPECIFICATION Spec
INVARIANTS
  OkSawItsRollout
  FinishedIsAccepted
CHECK_DEADLOCK FALSE
