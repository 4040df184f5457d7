SPECIFICATION Spec
CONSTANTS
  UnitsPerBatch = 2
  UnitDuration = 1
  DayLength = 3
  NumMachines = 1
  MaxTime = 2
  MaxFailures = 0
  MaxRestarts = 0
  MaxWindow = 1
  MaxAttempts = 1
  MaxIngestRestarts = 1
INVARIANT UnitsBelongToBatch
CHECK_DEADLOCK FALSE
