CONSTANTS
  MaxGoals = 3
  GoalTypes = {"POS", "PWM"}
  NO_GOAL = "NO_GOAL"
  GoalData = {"d"}
  Ids <- MCIds
SPECIFICATION FifoSpec
INVARIANT
  FifoWindow
PROPERTY
  IsAQueue
