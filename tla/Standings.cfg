SPECIFICATION StandingsSpec
CONSTANTS
  gt3 = gt3
  lmp = lmp
  Cars = {0, 1, 2}
  Me = 2
  ClassOf <- MCClassOf
  Starts <- MCStarts
  Q = 2
  MaxDist = 2
  MaxNum = 2
  MaxMoves = 1
INVARIANTS
  ParsesItem
  ShowsNeighbours
