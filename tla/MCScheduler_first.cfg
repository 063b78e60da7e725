SPECIFICATION Spec
CONSTANTS
  NumTasks = 3
  Kind <- MCKind
  Interval <- MCInterval
  MEGA = 4
  Garbage = {0, 3}
  IdMod = 4
  WireMod = 2
  Leaps = {}
  MaxLeaps = 0
  MaxLag = 3
  MaxTime = 12
PROPERTIES ScheduledTaskRunsNextCheck
