\* One gesture, the reset, that fails.
SPECIFICATION Spec
CONSTANTS
  MaxHeight = 1
  MaxGestures = 1
  MaxResizes = 0
  MaxFaults = 1
PROPERTY StoredHeightPinsNothing
CHECK_DEADLOCK FALSE
