CONSTANTS
  Proc = {mesh}
  Id = {i1, i2}
  Call = {c1}
  Timeouts = {1}
  MaxNow = 3
  DbOutcomes = {TRUE}
  Handler = {h1, h2}
  Paths = {"mcp"}
  Supervisor = FALSE
  Scopes = {}
  MaxCrashes = 0
  NoId = NoId
SPECIFICATION ToolSpec
SYMMETRY Symmetric
INVARIANTS
  PendingPerCaller
PROPERTIES
  ImplementsLedger
