SPECIFICATION FairSpec
CONSTANTS
  MaxOrders = 3
  MaxCollisions = 2
  MaxStarts = 1
INVARIANTS
  ClientTypeOK
  PathFinishedMeansArrived
  CallbacksAreAwaited
PROPERTIES
  OnlyBypassesAddOrders
  FifoKeepsGoing
CHECK_DEADLOCK FALSE
