SPECIFICATION Spec
CONSTANTS
  HDR = 2
  SizeMod = 65536
  NALLOC = 3
  HeapStart = 6
  MaxBreak = 15
  Requests <- MCRequests
INVARIANTS
  FreeListOrdered
  HeapTiled
  Coalesced
  PayloadFits
  IInv
PROPERTIES
  GrowOnlyWhenExhausted
  GrowsOnce
  CallReturns
  AbsSpec
