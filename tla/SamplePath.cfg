SPECIFICATION PathSpec
CONSTANTS
  MaxOutLen = 3
  MaxBytes = 8
  MaxTotal = 14
  N = 4
  MaxDisturbances = 8
INVARIANTS RestWaits GarbageBounded
PROPERTIES NextBytes Recovers
CHECK_DEADLOCK FALSE
