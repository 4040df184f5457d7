SPECIFICATION Spec
CONSTANTS
  MaxUpdates = 2
  MaxUnits = 2
  MaxCrashes = 1
  MaxResends = 0
  TTL = 2
  NoTtl = NoTtl
INVARIANT ServesLatest
CHECK_DEADLOCK FALSE
