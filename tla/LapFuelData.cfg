SPECIFICATION Spec
CONSTANTS
  t1 = t1
  t2 = t2
  c1 = c1
  NoName = NoName
  Tracks = {t1, t2}
  Cars = {c1}
  DataCountMin = 1
  Counts = {1, 2}
  MaxLevel = 2
  MaxLaps = 4
  KnownMaxFuel = TRUE
  CloseRaces = FALSE
SYMMETRY MCSymmetry
INVARIANTS
  FilesOwned
  ListsOwned
  DurableAtTop
  ListsBounded
PROPERTIES
  ImplementsLapHistory
