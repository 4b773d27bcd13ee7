CONSTANTS
    w1 = w1
    w2 = w2
    nullTarget = nullTarget
    cb1 = cb1
    cold = cold
    warm = warm
    Targets <- MC_Targets
    NullTarget = nullTarget
    Callbacks <- MC_Callbacks
    AppTypes <- MC_AppTypes
    MaxCalls = 3

SPECIFICATION FairSpec

PROPERTY ChannelRefinement
INVARIANT OnlyNullTargetsRejected

CHECK_DEADLOCK FALSE
