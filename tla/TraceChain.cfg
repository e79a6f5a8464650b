CONSTANTS
  TraceId = {t1, t2}
  Key = {nokey, k1}
  MaxEntries = 2
  LinesPerFile = 3
  WriteOutcomes = {"written", "lost", "partial", "killed"}
  RotateOutcomes = {"rotated", "notRenamed", "notReopened"}
  Sizes = {"short", "long", "huge"}
  MaxWrites = 5
  MaxRestarts = 1
SPECIFICATION Spec
SYMMETRY Symmetric
CHECK_DEADLOCK FALSE
INVARIANTS
  ChainVerifies
  LossIsDetected
  RestartKeepsTheEntries
  
