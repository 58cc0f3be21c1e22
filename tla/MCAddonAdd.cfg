CONSTANTS
  c1 = c1
  c2 = c2
  Charts = {c1, c2}
  Inputs = {}
  Nil = Nil
  MaxForeign = 2
  Additions <- TwoAdditions
SPECIFICATION Spec
INVARIANTS
  AddShowsItsOwnPlan
  AddInstallsWhatItShowed
  StaysPlanned
PROPERTY AddReadyIsWhatWasInstalled
CHECK_DEADLOCK FALSE
