CONSTANTS
  r = r
  w = w
  Subject = {r, w}
  Reads = {r}
  Caller = {c1, c2}
  Resolver <- Both
  Memory = TRUE
  Thresholds = {1, 2}
  Choices <- Few
  MaxPuts = 2
  MaxByHand = 1
  Old <- Olds
  MaxAsks = 2
  MaxForgets = 1
SPECIFICATION Spec
CHECK_DEADLOCK FALSE
SYMMETRY Symmetric
INVARIANT
  SettingsSurviveRestart
PROPERTIES
  GroundedInHumans
  RefusalBlocks
