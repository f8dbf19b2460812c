SPECIFICATION FairSpec
CONSTANTS
  MaxClock = 2
  MaxSets = 2
INVARIANTS
  TypeOK
  ExpiredIsDue
  TimeoutCloses
PROPERTIES
  IdleExpiryHarmless
  BlockedGetsOut
CHECK_DEADLOCK FALSE
