SPECIFICATION Spec
CONSTANTS
  MaxTraces = 2
  Limit = 1
  DiskMayFail = FALSE
  MaxResets = 0
  MaxPrunes = 0
  MaxCrashes = 1
CHECK_DEADLOCK FALSE
INVARIANT RetainedIsCompleted
