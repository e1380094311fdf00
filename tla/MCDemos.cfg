SPECIFICATION Spec
CONSTANTS
  Builds <- AllBuilds
  Key <- Keys
  Typed <- MCTyped
  FifoSize = 2
  IntBits = 16
  LongBits = 20
  IntValues <- MCIntValues
  LongValues <- MCLongValues
  Entries <- MCEntries
  MaxModes = 5
  Rows = 1
  Lengths <- MCLengths
  Times <- MCTimes
  Formats <- AllFormats
  MaxUpdates = 1
INVARIANTS
  IInv
  SentAsSetUp
  NumbersPrinted
  TimeWasShown
PROPERTIES
  StreamSpec
  KeysAnswered
CHECK_DEADLOCK FALSE
