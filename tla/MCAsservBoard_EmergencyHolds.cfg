CONSTANTS
  MaxGoals = 2
  GoalTypes = {"POS", "ANG", "PWM", "SPD"}
  NO_GOAL = "NO_GOAL"
  GoalData <- MCData
  Ids <- MCIds
  MaxOrders = 2
  BlockPeriod = 2
SPECIFICATION Spec
PROPERTY EmergencyHolds
CHECK_DEADLOCK FALSE
