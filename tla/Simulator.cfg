SPECIFICATION SimFairSpec
CONSTANTS
  UnitsPerBatch = 2
  UnitDuration = 1
  DayLength = 3
  NumMachines = 2
  MaxTime = 3
  MaxFailures = 1
  MaxRestarts = 1
INVARIANTS
  SimTypeOK
  FaultCodeMatches
  BatchArithmetic
  BatchesFull
  NodesAgreeAtRest
PROPERTIES
  EveryMachineTicks
