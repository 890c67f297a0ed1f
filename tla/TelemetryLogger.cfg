CONSTANTS
  Order <- Variables
  time = time
  lap = lap
  live = live
  speed = speed
  Time = time
  Lap = lap
  Polled = {time, lap, speed}
  LiveOnly = {live, speed}
  bufCount = 2
  bufLength = 4
  Ticks <- SamplesOf
  MaxFiles = 1
  Change = 2
  Arrays = {lap}
  CtrlCAtRest = TRUE
SPECIFICATION Spec
INVARIANTS
  FilesReadable
  LogIsSubsequence
PROPERTIES
  OfThisTick
CHECK_DEADLOCK FALSE
