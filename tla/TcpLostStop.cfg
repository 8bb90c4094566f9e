SPECIFICATION FairSpec
CONSTANTS
  MaxElements = 2
  LastId = 1
  MaxFed = 2
  Threads <- PoolThreads
  StageOf <- PoolStageOf
  MaxCloses = 1
  MaxFailures = 0
  QuietAccept = FALSE
PROPERTIES StopEnds
CHECK_DEADLOCK FALSE
