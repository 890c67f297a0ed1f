SPECIFICATION FairSpec
CONSTANTS
  Procs = {p1, p2}
  Cars <- MCCars
  UserFiles <- MCUserFiles
  Words <- MCWords
  FalseWords <- MCFalseWords
  atoi <- MCatoi
  atof <- MCatof
  sixDigits <- MCsixDigits
  ValidPorts <- MCValidPorts
  Pieces = {0, 5}
  MaxEdits = 1
  Together = FALSE
  EarlyClose = FALSE
INVARIANTS
  OneServer
PROPERTIES
  SettingsKept
  Stops
