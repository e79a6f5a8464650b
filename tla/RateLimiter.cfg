CONSTANTS
  strict = strict
  loose = loose
  NoAgent = NoAgent
  Agent = {a1, a2}
  Policy = {strict, loose}
  Params = {p1}
  Thread = {t1, t2}
  Limits <- OneReload
  LoopWindow = 1
  Minute = 2
  Idle = 3
  LoopMax = 1
  RecentMax = 3
  MaxAgents = 1
  MaxNow = 5
  MaxRuns = 5
SPECIFICATION Spec
SYMMETRY Symmetric
CHECK_DEADLOCK FALSE
INVARIANTS
  RateHeld
  BudgetHeld
  LoopBroken
