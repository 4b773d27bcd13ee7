\* What registered callbacks are told about a batch of hot-plug events.
CONSTANTS
    cb1 = cb1
    s1 = s1
    t1 = t1
    t2 = t2
    Outputs <- MC_Outputs
    Mipi <- MC_Mipi
    Callbacks <- MC_Callbacks
    Surfaces <- MC_Surfaces
    Clients <- MC_OneClient
    MaxVirtualScreens = 2
    MaxHotplugs = 3
SPECIFICATION Spec
INVARIANT CallbacksToldOnlyScreens
