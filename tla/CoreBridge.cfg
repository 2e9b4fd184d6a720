SPECIFICATION FairSpec
CONSTANTS
    UI = ui
    NoOwner = nobody
    Stoppers = {s1, s2}
    MaxLaunches = 3
INVARIANTS BridgeInv DiesOnlyInFirstStart RequestIsOurs
PROPERTIES CallsReturn StopEndsCore
CHECK_DEADLOCK FALSE
