SPECIFICATION FairRoad
CONSTANTS
  lf = lf
  Tires = {lf}
  MaxFuel = 2
  Tolerance = 1
  FlashCount = 3
  MaxTimers = 2
  Reliable = TRUE
  Settled = TRUE
INVARIANTS
  LabelIsCurrent
PROPERTIES
  AutoApplies
  FlashingEnds
  AppliedMeansSent
