SPECIFICATION FairSpec
CONSTANTS
    Windows = {w1, w2}
    NoWindow = NoWindow
    Images = 2
    MaxSurfaces = 4
INVARIANTS  ChainInv
PROPERTIES FramesReachSurface
