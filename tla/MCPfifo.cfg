SPECIFICATION PfifoFairSpec
CONSTANTS
    Program <- MCProgram
    Start <- MCStart
    Puts <- MCPuts
    Stream <- MCStream
    Walk <- MCWalk
    Stops <- MCStops
    Modulo = 2
    MaxToggles = 2
INVARIANTS FifoInv 
PROPERTIES BoundInContext ChannelGoesOn
