SPECIFICATION FairSpec
CONSTANTS
  MaxOrders = 2
  MaxStarts = 1
INVARIANTS
  RobotTypeOK
  ServoOrdersOut
  StopIsFinal
PROPERTY QueueDrains
CHECK_DEADLOCK FALSE
