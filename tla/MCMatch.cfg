SPECIFICATION FairSpec
CONSTANTS
  CheckPeriod = 1
  SilenceTimeout = 2
  GrDelay = 4
  MatchLength = 8
  FunnyDelay = 1
  GrStopDelay = 2
  StopDelay = 3
  EarlyGrStopDelay = 1
  ExitDelay = 2
INVARIANTS
  MatchTypeOK
  LossPauses
  PauseWillBeLifted
  ExitLeavesNoRobot
  FunnyBeforeStop
PROPERTIES
  OnlyAMatchResumes
  EveryMatchEnds
CHECK_DEADLOCK FALSE
