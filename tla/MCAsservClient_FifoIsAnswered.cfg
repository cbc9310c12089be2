SPECIFICATION MovesSpec
CONSTANTS
  MaxOrders = 7
  MaxCollisions = 3
  MaxStarts = 0
INVARIANT FifoIsAnswered
CHECK_DEADLOCK FALSE
