CONSTANTS
  ada = ada
  p1 = p1
  p2 = p2
  Unset = Unset
  NoPath = NoPath
  Me = Me
  Others = {ada}
  MaxOthers = 2
  Paths = {p1, p2}
  MaxTurns = 3
  s1 = s1
  a = a
  b = b
  Sources = {s1}
  Texts = {a, b}
  Untracked = Untracked
  Portals = {"reads", "ignores", "refuses"}
  Second = 2
  Margin = 1
  MaxTail = 2
  FirstTail = 1
  MaxLines = 3
  MaxTime = 5
  a1 = a1
  a2 = a2
  k1 = k1
  k2 = k2
  Addrs = {a1, a2}
  Keys = {k1, k2}
  Chart = Chart
  Nil = Nil
  MaxDeeds = 3
SYMMETRY Alike
SPECIFICATION CommandsSpec
INVARIANTS
  FollowTypeOK
  SaysWhatItDid
  GoneIsDefinitive
  AsksFirst
  MovesOnlyWhenTold
  AnswersTruly
  RemovesItsKind
PROPERTIES
  IsATranscript
CHECK_DEADLOCK FALSE
