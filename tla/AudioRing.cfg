SPECIFICATION FairSpec
CONSTANTS
    RingFrames = 4
    CursorMod = 8
    Chunk = 2
    HighFrames = 2
    MaxBurst = 3
    FrameMod = 3
    MaxForced = 2
INVARIANTS RingSafe DropNeedsPauses
PROPERTIES ImplementsFifo ThrottleEnds
CHECK_DEADLOCK TRUE
