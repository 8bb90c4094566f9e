SPECIFICATION FairSpec
CONSTANTS
  MaxElements = 2
  LastId = 1
  MaxFed = 3
  Threads <- PoolThreads
  StageOf <- PoolStageOf
  MaxCloses = 1
  MaxFailures = 1
  QuietAccept = TRUE
INVARIANTS CommandsOnOpenDevice
PROPERTIES StopEnds FailureReleases FedIsSent
CHECK_DEADLOCK FALSE
