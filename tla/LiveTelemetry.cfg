CONSTANTS
  MaxLen = 2
  Lens <- Lengths
  MaxTick = 3
  MaxRuns = 2
  Lag = 1
  Slow = TRUE
SPECIFICATION FairSpec
INVARIANTS
  SampleIsUsable
PROPERTIES
  ImplementsLatestSample
  CatchesUp
CHECK_DEADLOCK FALSE
