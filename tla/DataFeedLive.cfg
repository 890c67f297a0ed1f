SPECIFICATION FairSpec
CONSTANTS
  fuel = fuel
  ers = ers
  off = off
  on = on
  c1 = c1
  c2 = c2
  NoConn = NoConn
  Vars <- MCFuelOnly
  Values <- MCValues
  Conns <- MCConns
  FrameVars <- MCFuelFrames
  MaxSession = 1
  MaxInFlight = 1
  OneConnection = TRUE
PROPERTIES
  Served
  Converges
