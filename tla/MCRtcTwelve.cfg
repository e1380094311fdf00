SPECIFICATION RtcSpec
CONSTANTS
  Lengths <- MCLengths
  Times <- MCTwelve
  Formats <- TwelveHourFormats
  MaxUpdates = 0
INVARIANTS
  TwelveOClock
