SPECIFICATION FairSpec
CONSTANTS
  NumMachines = 2
  InitialDelay = 1
  MaxDelay = 3
  MaxUpdates = 2
  MaxResends = 2
  MaxBreaks = 2
INVARIANTS
  TypeOK
  CardsCatchUp
  OneConnection
PROPERTY
  StaysConnected
CHECK_DEADLOCK FALSE
