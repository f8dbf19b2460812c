SPECIFICATION FairSpec
CONSTANTS
  h1 = h1
  h2 = h2
  h3 = h3
  Conns <- TwoDials
  NoConn = NoConn
  RoleOf <- MCRoleOf
  Endings <- ExpiredOnly
  TTLs <- MCTTLs
  MaxClock = 2
  MaxBytes = 0
PROPERTIES
  EndDrains
  FirstWaitBounded
  HeldMessageMoves
