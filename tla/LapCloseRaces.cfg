SPECIFICATION Spec
CONSTANTS
  t1 = t1
  t2 = t2
  c1 = c1
  NoName = NoName
  Tracks = {t1, t2}
  Cars = {c1}
  DataCountMin = 2
  Counts = {2, 3}
  MaxLevel = 2
  MaxLaps = 4
  KnownMaxFuel = FALSE
  CloseRaces = TRUE
SYMMETRY MCSymmetry
INVARIANTS
  FilesOwned
