CONSTANTS
  Memory = FALSE
  Thresholds = {1, 2}
  Choices <- Settings
  MaxPuts = 2
  MaxByHand = 1
SPECIFICATION SettingsSpec
CHECK_DEADLOCK FALSE
INVARIANT
  ChangesAreAccepted
