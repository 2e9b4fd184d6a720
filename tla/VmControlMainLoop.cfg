SPECIFICATION VmFairSpec
CONSTANTS
    MainLoop = mainloop
    UI = ui
    Starters = {ui}
    MaxPauses = 1
    SettledUser = FALSE
    GuestResets = FALSE
    UserQuits = FALSE
PROPERTIES MainLoopServes
CHECK_DEADLOCK FALSE
