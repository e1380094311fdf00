SPECIFICATION DrawingSpec
CONSTANTS
  MaxCoord = 8
  WIDTH = 7
  HEIGHT = 5
  XRES = 8
  YRES = 6
  WINDOW = 57
  High = 4
  Low = 2
INVARIANTS
  NearLine
  EndsAtTarget
  StoresInVideoMemory
PROPERTY
  LineEnds
