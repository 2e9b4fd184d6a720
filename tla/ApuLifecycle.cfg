SPECIFICATION FairSpec
CONSTANTS
    MainLoop = mainloop
    Starters = {}
INVARIANTS   NoLostWakeup
  
