SPECIFICATION Spec
CONSTANTS
  c1 = c1
  c2 = c2
  own = own
  other = other
  Callers <- MCCallers
  Tokens <- MCTokens
  Empty = Empty
  NoToken = NoToken
  Absent = Absent
  Hosts <- MCHosts
  Allowed <- MCAllowed
  NoHost = NoHost
  Half = 32
  Second = 12
  TTL = 22
  PeerWait = 16
  NoAsk = NoAsk
  Asks <- MCAsks
  Requests <- MCRequests
  MaxSessions = 1
SYMMETRY MCSymmetry
INVARIANTS
  TypeOK
  WithinLimits
  AsAsked
  OnlyEntitled
  EndedStaysEnded
CHECK_DEADLOCK FALSE
