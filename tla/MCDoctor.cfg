CONSTANTS
  Nil = Nil
  t1 = t1
  t2 = t2
  p1 = p1
  portal = portal
  app = app
  MaxHops = 1
  Titles = {t1, t2}
  Movies = {t1}
  People = {p1}
  Mounts = {app}
  Portal = portal
  MaxGone = 3
  MaxOdd = 1
  MaxChanges = 1
  HeaderSize = 120
  LineSize = 45
  FieldSize = 7
  Outsides <- MCOutsides
  Libraries <- MCLibraries
  DetailSizes <- MCDetailSizes
  Limits = {165, 900, 4096}
SPECIFICATION Spec
INVARIANTS
  TypeOK
  PasswordGoesOnce
  TokenIsItsOwn
  SoundPlatformPasses
  GreenIsSignedIn
  EveryCheckOnce
  ReportGivesUpInOrder
CHECK_DEADLOCK FALSE
