SPECIFICATION Spec
CONSTANTS
  Code <- LongModeBuild
  RealModeBuilds = {}
  TICK = 2
  USEC = 3
  MaxTime = 2
  MaxKeys = 1
  EarlyKeys = TRUE
PROPERTIES
  KeysHandled
CHECK_DEADLOCK FALSE
