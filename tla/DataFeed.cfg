SPECIFICATION Spec
CONSTANTS
  fuel = fuel
  ers = ers
  off = off
  on = on
  c1 = c1
  c2 = c2
  NoConn = NoConn
  Vars <- MCVars
  Values <- MCValues
  Conns <- MCConns
  FrameVars <- MCFrameVars
  MaxSession = 2
  MaxInFlight = 2
  OneConnection = TRUE
SYMMETRY MCSymmetry
INVARIANTS
  ViewIsSnapshot
  FirstMessageFull
  NoLostReset
  NoLostUpdate
PROPERTIES
  ImplementsFullFeed
