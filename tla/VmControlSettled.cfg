SPECIFICATION VmFairSpec
CONSTANTS
    MainLoop = mainloop
    UI = ui
    Starters = {ui}
    MaxPauses = 2
    SettledUser = TRUE
    GuestResets = FALSE
    UserQuits = TRUE
INVARIANTS SettledInv
PROPERTIES MainLoopServes RequestsTakeEffect
CHECK_DEADLOCK FALSE
