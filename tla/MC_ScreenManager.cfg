\* One client thread, clients remove only the virtual screens they made.
CONSTANTS
    cb1 = cb1
    s1 = s1
    t1 = t1
    t2 = t2
    Outputs <- MC_Outputs
    Mipi <- MC_Mipi
    Callbacks <- MC_Callbacks
    Surfaces <- MC_Surfaces
    Clients <- MC_OneClient
    MaxVirtualScreens = 2
    MaxHotplugs = 3
SPECIFICATION FairSpec
INVARIANT TypeOK CallbacksToldEveryScreen RecycledIdsUnused
PROPERTY ScreensFollowHardware
