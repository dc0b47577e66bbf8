SPECIFICATION Spec
CONSTANTS
  MaxTraces = 3
  Limit = 2
  DiskMayFail = TRUE
  MaxResets = 1
  MaxPrunes = 1
  MaxCrashes = 1
CHECK_DEADLOCK FALSE
INVARIANTS FolderBounded ResetDropsSaved PruneDropsOld ServedIsPersistedOrOld RestoredInOrder
