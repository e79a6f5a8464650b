CONSTANTS
  Proc = {mesh}
  Id = {i1}
  Call = {c1}
  Timeouts = {1, 2}
  MaxNow = 2
  DbOutcomes = {TRUE, FALSE}
  Handler = {h1}
  Paths = {"http", "mcp"}
  Supervisor = TRUE
  Scopes = {"agent", "session"}
  MaxCrashes = 1
  NoId = NoId
SPECIFICATION FairToolSpec
INVARIANTS
  RunsAreAccounted
  HaltAnswersWaiting
  ChannelCarriesDecision
  PendingIsTimed
  RowNotAhead
PROPERTIES
  DecisionFinal
  RowDecisionFinal
  EveryApprovalIsDecided
  EveryCallIsAnswered
