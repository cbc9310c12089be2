SPECIFICATION FairSpec
CONSTANTS
  MaxPrograms = 2
  MaxLost = 3
  MaxStrays = 3
INVARIANTS
  HokuyoTypeOK
  OneProgram
  MixedFramesAreFew
  NoProgramIsWaiting
PROPERTY FramesKeepComing
CHECK_DEADLOCK FALSE
