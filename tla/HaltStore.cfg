CONSTANTS
  g1 = g1
  g2 = g2
  all = all
  agent = agent
  Proc = {p1, p2}
  Thread = {t1, t2}
  Stop = {h1}
  Target = {all}
  Grant = {g1}
  Covered <- OneCovered
  MaxNow = 2
  DbOutcomes = {TRUE, FALSE}
  MaxCrashes = 1
  NoGrant = NoGrant
SPECIFICATION Spec
SYMMETRY Symmetric
INVARIANTS
  StopReachesEveryProcess
  GrantsNotLost
PROPERTIES
  KnownOnceSettled
