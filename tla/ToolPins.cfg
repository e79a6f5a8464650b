CONSTANTS
  s1 = s1
  s2 = s2
  a = a
  b = b
  c = c
  Proc = {p1}
  Server = {s1, s2}
  Tool = {a, b, c}
  Version = {v1, v2}
  Owner <- TwoServers
  None = None
  DbOutcomes = {TRUE, FALSE}
  MaxChanges = 1
  MaxOutages = 1
  MaxStarts = 2
SPECIFICATION FairSpec
CHECK_DEADLOCK FALSE
INVARIANTS
  FreeIsAccepted
PROPERTIES
  TrustMovesByAccept
  EveryUpstreamJoins
