SPECIFICATION Spec
CONSTANTS
  Keys <- SwitchKeys
  BufSize = 2
  MaxEvents = 5
INVARIANTS
  ModifiersFollowKeys
  TextArrives
CHECK_DEADLOCK FALSE
