SPECIFICATION Spec
CONSTANTS
  Q = 2
  Burns = {8, 10}
  Tank = 60
  Races <- MCRaces
  MaxTime = 7
  Practice = 1
  MaxLaps = 3
  Histories <- MCHistories
  Factors <- MCFactors
  Splashes = {13}
INVARIANTS
  PlanSuffices
  EstimatesConservative
PROPERTIES
  PitNowIsLast
  StopIsEnough
CHECK_DEADLOCK FALSE
