SPECIFICATION Spec
CONSTANTS
  Keys <- ArrowKeys
  BufSize = 2
  MaxEvents = 3
INVARIANTS
  PrefixEnds
CHECK_DEADLOCK FALSE
