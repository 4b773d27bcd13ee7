\* Non-shared queue, clients that detach only what they hold and attach only
\* where there is room: the queue's own safety and life-cycle properties.
CONSTANTS
    p1 = p1
    c1 = c1
    cfgA = cfgA
    cfgB = cfgB
    Producers <- MC_Producers
    Consumers <- MC_Consumers
    Configs <- MC_Configs
    ExtBuffers <- MC_ExtBuffers
    AttachConfig = AttachConfig
    NoConfig = NoConfig
    NoThread = NoThread
    ListenerKinds <- MC_ListenerKinds
    MaxSeq = 2
    MaxQueueSize = 2
    DefaultQueueSize = 2
    IsShared = FALSE
    DetachHeldByProducer = FALSE
    AttachToFullQueue = FALSE
SPECIFICATION Spec
INVARIANT TypeOK
INVARIANT FreeDirtyListsConsistent
INVARIANT ExclusiveOwnership
INVARIANT DeletingOnlyDropped
PROPERTY LifecycleRefinement
