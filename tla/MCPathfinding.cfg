SPECIFICATION FairSpec
CONSTANTS
  Query = {pr, gr}
  NoQuery = none
  MaxQueries = 6
INVARIANTS
  PathfindingTypeOK
  AnswersGoToTheirQuery
  PendingWillBeServed
PROPERTY PendingIsSent
CHECK_DEADLOCK FALSE
