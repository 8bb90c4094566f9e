SPECIFICATION FairSpec
CONSTANTS
  d1 = d1
  d2 = d2
  None = None
  Main = Main
  Devices <- TwoDevices
  Overlaps <- AnyTime
  EarlyAnswer = FALSE
INVARIANTS HeardOnce RestIsRest ToggleTrue
PROPERTIES AnswerHeard
