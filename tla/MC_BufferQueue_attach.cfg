\* AttachBuffer on a full queue with free buffers to delete: does the call return?
CONSTANTS
    p1 = p1
    c1 = c1
    cfgA = cfgA
    cfgB = cfgB
    Producers <- MC_Producers
    Consumers <- MC_Consumers
    Configs <- MC_Configs
    ExtBuffers <- MC_ExtBuffers
    AttachConfig = AttachConfig
    NoConfig = NoConfig
    NoThread = NoThread
    ListenerKinds <- MC_ListenerKinds
    MaxSeq = 2
    MaxQueueSize = 2
    DefaultQueueSize = 1
    IsShared = FALSE
    DetachHeldByProducer = FALSE
    AttachToFullQueue = TRUE
SPECIFICATION FairSpec
PROPERTY EveryCallReturns
CHECK_DEADLOCK FALSE
