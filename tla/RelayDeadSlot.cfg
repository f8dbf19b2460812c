SPECIFICATION FairSpec
CONSTANTS
  h1 = h1
  h2 = h2
  h3 = h3
  Conns <- TwoDials
  NoConn = NoConn
  RoleOf <- MCRoleOf
  Endings <- DeletedOnly
  TTLs <- MCTTLs
  MaxClock = 1
  MaxBytes = 0
PROPERTIES
  DeadSlotFreed
