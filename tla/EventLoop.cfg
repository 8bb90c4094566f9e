SPECIFICATION FairSpec
CONSTANTS
  Streams = {s1}
  Timeout <- Timeouts
  SlowSubmits = FALSE
  Kernels = {TRUE, FALSE}
INVARIANTS NoSleeper FreedIsGone
PROPERTIES CallsEnd GoneEnds
