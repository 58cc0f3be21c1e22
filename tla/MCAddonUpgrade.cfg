CONSTANTS
  c1 = c1
  c2 = c2
  v1 = v1
  Charts = {c1, c2}
  Inputs = {v1}
  Nil = Nil
  MaxForeign = 2
  AnswersGeneration = TRUE
  Invocations <- MixedInvocations
SPECIFICATION Spec
INVARIANTS
  TypeOK
  ShownIsWritten
  InstallsWhatWasShown
  EndsAsFound
PROPERTIES
  PutsBackOnlyTheUnmoved
  ReadyIsWhatWasInstalled
CHECK_DEADLOCK FALSE
