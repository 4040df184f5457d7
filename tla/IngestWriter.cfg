SPECIFICATION FairSpec
CONSTANTS
  e1 = e1
  e2 = e2
  NoTime = NoTime
  Equipment = {e1, e2}
  NumMetrics = 2
  MaxSize = 2
  MaxAge = 1
  OverflowLimit = 3
  MaxTime = 2
  MaxSamples = 5
  MaxCrashes = 1
INVARIANTS
  TypeOK
  BufferIsNewest
  Accounted
  OldestMatchesHead
  DbKeepsFirst
PROPERTIES
  ImplementsLog
  EverySettled
