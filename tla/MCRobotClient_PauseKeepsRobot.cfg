SPECIFICATION Spec
CONSTANTS
  MaxOrders = 1
  MaxStarts = 1
INVARIANT PauseKeepsRobot
CHECK_DEADLOCK FALSE
