SPECIFICATION Spec
CONSTANTS
  HalfMinute = 1
  Minute = 2
  FiveMinutes = 2
  Hour = 4
  Day = 6
  Week = 8
  Month = 12
  MaxRange = 12
  MaxStall = 3
  MaxOutage = 2
  MaxSamples = 2
  MaxTime = 18
INVARIANTS
  TypeOK
  AggregatesComplete
  AnswersOffByOneBucket
PROPERTIES
  AggregatesOutliveRaw
CHECK_DEADLOCK FALSE
