SPECIFICATION FairSpec
CONSTANTS
  Equipment = {e1}
  All = All
  QueueMax = 2
  MaxRequests = 3
  MaxPushed = 4
INVARIANTS
  TypeOK
  InOrder
  NewestKept
  DropsCounted
  SubscriptionsFollow
PROPERTY
  SessionEnds
CHECK_DEADLOCK FALSE
