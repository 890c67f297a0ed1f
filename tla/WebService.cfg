SPECIFICATION FairSpec
CONSTANTS
  Conns = {"c1", "c2"}
  Slow = {"c1"}
  Room = 2
  Chunks = 2
  Awaiting = 1
  Scripts <- MCScripts
  MaxUpdates = 2
INVARIANTS
  ConnectionsAgree
  Delivered
  FileWhole
PROPERTIES
  Negotiates
  Refreshed
CHECK_DEADLOCK FALSE
