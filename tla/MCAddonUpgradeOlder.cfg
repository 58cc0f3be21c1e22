CONSTANTS
  c1 = c1
  c2 = c2
  v1 = v1
  Charts = {c1, c2}
  Inputs = {v1}
  Nil = Nil
  MaxForeign = 1
  AnswersGeneration = FALSE
  Invocations <- MixedInvocations
SPECIFICATION FairSpec
INVARIANT ShownIsWritten
PROPERTY EndsOrAsks
CHECK_DEADLOCK FALSE
