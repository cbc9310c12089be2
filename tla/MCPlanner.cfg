SPECIFICATION Spec
CONSTANTS
  pr = pr
  gr = gr
  take1 = take1
  take2 = take2
  drop = drop
  throw = throw
  Robots = {pr, gr}
  Actions = {take1, take2, drop, throw}
  NoAction = none
  owner <- MCOwner
  dependency <- MCDependency
  MaxSearches = 2
  MaxPauses = 1
INVARIANTS
  PlannerTypeOK
  NoActionTwice
  DependenciesAreDone
  CandidatesAreTodo
  ActionWillBeReported
  LoopStaysAlive
PROPERTIES
  PausedBeginsNothing
  UsesPathfinding
CHECK_DEADLOCK FALSE
