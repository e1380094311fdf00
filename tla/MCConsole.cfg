SPECIFICATION Spec
CONSTANTS
  TEXT_COLS = 3
  TEXT_ROWS = 3
  Printable <- MCPrintable
  Strings <- MCStrings
  MaxPage = 10
INVARIANTS
  IInv
  StaysOnScreen
  DisplayShowsPage
CHECK_DEADLOCK FALSE
