SPECIFICATION Spec
CONSTANTS
  MaxElements = 2
  LastId = 1
  MaxFed = 3
  Threads <- PoolThreads
  StageOf <- PoolStageOf
  MaxCloses = 2
  MaxFailures = 1
  QuietAccept = FALSE
INVARIANTS ClosedIsLast OnePlace
PROPERTIES FeederKeepsPool SentInOrder
CHECK_DEADLOCK FALSE
