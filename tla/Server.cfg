SPECIFICATION FairSpec
CONSTANTS
  a = a
  b = b
  c = c
  Dials <- MCDials
INVARIANTS
  TypeOK
  ExitCoversAll
PROPERTIES
  AddsBeforeWait
  ExitFollows
CHECK_DEADLOCK FALSE
