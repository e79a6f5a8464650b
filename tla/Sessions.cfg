CONSTANTS
  sh = sh
  h1 = h1
  h2 = h2
  k1 = k1
  NoSid = NoSid
  NoUser = NoUser
  NoKey = NoKey
  NoOne = NoOne
  Sid = {s1, s2}
  Client = {sh, h1, h2}
  Shuttle = {sh}
  Key = {k1, k2}
  Cred <- MCCred
  Postures <- MCPostures
  MaxRestarts = 1
SPECIFICATION FairSpec
INVARIANTS
  ServedAsItself
  ClosedStaysClosed
PROPERTY
  WithdrawnKeyIsShutOut
