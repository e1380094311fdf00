SPECIFICATION Spec
CONSTANTS
    EntriesPerTable = 5
    Tables = 2
    PML4T = 1
    PT = 5
    FBPT = 7
    ApicPT = 9
    ApicFrame = 60
    FrameBuffer = 70
    PowerOn <- MCPowerOn
    Homes <- MCHomes
    StackWords = 2
INVARIANT KeyboardCallAligned
CHECK_DEADLOCK FALSE
