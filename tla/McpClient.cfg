CONSTANTS
  Connect = connect
  Call = {c1}
  Loop = {l1, l2}
  Reader = {r1, r2}
  Transport = {1, 2}
  Kinds = {"stdio", "sse", "streamable"}
  MaxFaults = 2
  MaxStrays = 1
  Refusals = TRUE
  Closes = {0, 1}
SPECIFICATION CallSpec
CHECK_DEADLOCK FALSE
INVARIANTS
  ReconnectsAreCounted
PROPERTIES
  EveryCallEnds
