SPECIFICATION FairSpec
CONSTANTS
  Cap = 2
  MaxSubmits = 2
  Requests <- AllRequests
  Races = {}
INVARIANTS NoUrbLeft DataKept CompletedIsTrue
PROPERTIES TransferEnds
CHECK_DEADLOCK FALSE
