SPECIFICATION Spec
CONSTANTS
  s1 = s1
  s2 = s2
  c1 = c1
  c2 = c2
  c3 = c3
  NoToken = NoToken
  NoCall = NoCall
  Sources <- OneSource
  Calls <- OneCall
  SourceOf <- MCSourceOf
  MaxGrants = 2
  MaxUses = 2
PROPERTIES
  RetryAfterLogin
