SPECIFICATION FairSpec
CONSTANTS
  UnitsPerBatch = 2
  UnitDuration = 1
  DayLength = 3
  NumMachines = 1
  MaxTime = 2
  MaxFailures = 0
  MaxRestarts = 0
  MaxWindow = 1
  MaxAttempts = 2
  MaxIngestRestarts = 1
INVARIANTS
  TypeOK
  StoreFollowsNodes
  TornOnlyAtRotation
  UnitStartNotEarly
PROPERTIES
  RotationsArrive
CHECK_DEADLOCK FALSE
