SPECIFICATION FairSpec
CONSTANTS
    Stall = 2
    Relog = 4
    IdleDelay = 2
    MaxTime = 7
    MaxStops = 1
INVARIANTS  StallIsLogged
 
