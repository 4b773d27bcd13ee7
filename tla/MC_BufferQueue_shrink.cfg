\* Shrinking the queue with SetQueueSize: does the cache shrink to the new size?
CONSTANTS
    p1 = p1
    c1 = c1
    cfgA = cfgA
    cfgB = cfgB
    Producers <- MC_Producers
    Consumers <- MC_Consumers
    Configs <- MC_Configs
    ExtBuffers <- MC_ExtBuffers
    AttachConfig = AttachConfig
    NoConfig = NoConfig
    NoThread = NoThread
    ListenerKinds <- MC_ListenerKinds
    MaxSeq = 3
    MaxQueueSize = 3
    DefaultQueueSize = 3
    IsShared = FALSE
    DetachHeldByProducer = FALSE
    AttachToFullQueue = FALSE
SPECIFICATION Spec
INVARIANT QueueSizeRespected
