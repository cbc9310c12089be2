SPECIFICATION Spec
CONSTANTS
  pr = pr
  gr = gr
  take1 = take1
  take2 = take2
  drop = drop
  throw = throw
  Robots = {pr, gr}
  Actions = {take1, take2, drop, throw}
  NoAction = none
  owner <- MCOwner
  dependency <- MCIndependent
  MaxSearches = 2
  MaxPauses = 0
CHECK_DEADLOCK FALSE
INVARIANT NoActionIsLost
