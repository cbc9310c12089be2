CONSTANTS
  MaxGoals = 2
  GoalTypes = {"POS", "ANG", "PWM", "SPD"}
  NO_GOAL = "NO_GOAL"
  GoalData <- MCBackData
  Ids <- MCIds
  MaxOrders = 2
  BlockPeriod = 2
SPECIFICATION FairSpec
INVARIANTS
  BoardTypeOK
  ReportedInOrder
PROPERTIES
  OnlyHeadReported
  IgnoredSensorsNeverStop
  BlockedGoalEnds
CHECK_DEADLOCK FALSE
