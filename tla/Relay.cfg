SPECIFICATION Spec
CONSTANTS
  h1 = h1
  h2 = h2
  h3 = h3
  Conns <- ThreeDials
  NoConn = NoConn
  RoleOf <- MCRoleOf
  Endings = {}
  TTLs <- MCTTLs
  MaxClock = 1
  MaxBytes = 0
SYMMETRY Redials
INVARIANTS
  TypeOK
  NoLostWakeup
  SoleWriter
  PrefixNotClean
PROPERTIES
  UsesSession
CHECK_DEADLOCK FALSE
