CONSTANTS
  v1 = v1
  v2 = v2
  stable = stable
  w1 = w1
  Versions = {v1, v2}
  Latest = Latest
  Channels = {stable}
  Workloads = {w1}
  Nil = Nil
  MaxForeign = 1
  Portals = {"current", "older"}
  Updates <- EveryLine
SPECIFICATION Spec
INVARIANTS
  AppliesWhatWasDecided
  UpdateOkSawIt
  SettledIsAccepted
  ReportsItsOwnRun
  VerifiesTheUpdate
CHECK_DEADLOCK FALSE
