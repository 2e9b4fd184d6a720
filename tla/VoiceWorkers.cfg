SPECIFICATION FairSpec
CONSTANTS
    NumWorkers = 2
    Plain = {p}
    Sub = {s1, s2}
    Mp = {m}
    MaxQueue = 4
INVARIANTS VoiceInv FrameComplete 
 
CHECK_DEADLOCK FALSE
