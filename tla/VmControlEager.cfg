SPECIFICATION VmSpec
CONSTANTS
    MainLoop = mainloop
    UI = ui
    Starters = {ui}
    MaxPauses = 2
    SettledUser = FALSE
    GuestResets = TRUE
    UserQuits = TRUE
INVARIANTS VmInv
 
CHECK_DEADLOCK FALSE
