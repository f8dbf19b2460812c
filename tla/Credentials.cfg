SPECIFICATION Spec
CONSTANTS
  s1 = s1
  s2 = s2
  c1 = c1
  c2 = c2
  c3 = c3
  NoToken = NoToken
  NoCall = NoCall
  Sources <- TwoSources
  Calls <- ThreeCalls
  SourceOf <- MCSourceOf
  MaxGrants = 2
  MaxUses = 3
SYMMETRY SameProcess
INVARIANTS
  TypeOK
  SpendsOnce
  FileKeepsUp
