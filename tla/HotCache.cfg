SPECIFICATION FairSpec
CONSTANTS
  MaxUpdates = 3
  MaxUnits = 2
  MaxCrashes = 1
  MaxResends = 1
  TTL = 2
  NoTtl = NoTtl
INVARIANTS
  TypeOK
  TtlExplained
  FreshIfSerial
  UnitStartShown
PROPERTIES
  ForgottenWhenSilent
CHECK_DEADLOCK FALSE
