SPECIFICATION FairSpec
CONSTANTS
  Conns = {}
  NoConn = NoConn
  MaxSessions = 2
  MaxDeletes = 2
  TTL = 2
  Asks = {0, 1, 3}
  Singles = {TRUE}
  Retentions = {0, 1}
  MaxClock = 4
INVARIANTS
  TypeOK
  LiveIsReachable
  ExpiredIsLate
PROPERTIES
  StaysReadable
  EndsAndLeaves
CHECK_DEADLOCK FALSE
