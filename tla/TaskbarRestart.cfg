SPECIFICATION Spec
CONSTANTS
  DoubleClickTime = 2
  Margin = 2
  MaxDelay = 1
  MaxPresses = 4
  MaxStarts = 2
  MaxRestarts = 1
CHECK_DEADLOCK FALSE
PROPERTIES IconReturns
