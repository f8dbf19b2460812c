SPECIFICATION FairSpec
CONSTANTS
  Pairings <- MCPairings
  MaxSaid <- OneEach
INVARIANTS
  TypeOK
  EndDelivers
PROPERTIES
  TunnelEnds
CHECK_DEADLOCK FALSE
