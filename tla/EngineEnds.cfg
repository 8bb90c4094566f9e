SPECIFICATION FairSpec
CONSTANTS
  N = 2
  MaxDrain = 2
  MaxFaults = 2
  Plans <- EndPlans
INVARIANTS QuietStops FreedQuiet NoWildAccess StreamAlive
PROPERTIES CancelEnds RetuneEnds FailureEnds
