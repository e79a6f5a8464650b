CONSTANTS
  Spans = 4
  QueueSize = 2
  BatchSize = 2
  MaxAttempts = 3
SPECIFICATION FairExporterSpec
CHECK_DEADLOCK FALSE
INVARIANTS
  EverySpanIsCounted
PROPERTIES
  QueueIsDrained
