SPECIFICATION Spec
CONSTANTS
  Code <- AllBuilds
  RealModeBuilds = {"rm16"}
  TICK = 2
  USEC = 3
  MaxTime = 6
  MaxKeys = 3
  EarlyKeys = FALSE
INVARIANTS
  IInv
  InterruptsReachTheirISR
  HandlersNotInterrupted
  ServiceEnds
  BytesInOrder
  ConsoleNotShared
PROPERTIES
  SleepOneTickShort
  BeepEnds
  KeysHandled
CHECK_DEADLOCK FALSE
