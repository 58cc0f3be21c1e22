CONSTANTS
  c1 = c1
  c2 = c2
  v1 = v1
  Charts = {c1, c2}
  Inputs = {v1}
  Nil = Nil
  MaxForeign = 1
  AnswersGeneration = TRUE
  Invocations <- OneInvocation
SPECIFICATION Spec
INVARIANT InstallsOnlyWhatWasShown
CHECK_DEADLOCK FALSE
