SPECIFICATION Spec
CONSTANTS
  c1 = c1
  c2 = c2
  c3 = c3
  Conns <- MCConns
  NoConn = NoConn
  TTLs <- MCTTLs
  MaxClock = 4
  MaxBytes = 1
SYMMETRY Interchangeable
INVARIANTS
  TypeOK
  SlotOwner
  PhaseMatchesSlots
  SingleLeaveEnds
  Timeline
PROPERTIES
  EndIsFinal
  KeepsPromise
