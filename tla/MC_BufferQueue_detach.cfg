\* A consumer detaching a buffer the producer is flushing.
CONSTANTS
    p1 = p1
    c1 = c1
    cfgA = cfgA
    cfgB = cfgB
    Producers <- MC_Producers
    Consumers <- MC_Consumers
    Configs <- MC_Configs
    ExtBuffers <- MC_ExtBuffers
    AttachConfig = AttachConfig
    NoConfig = NoConfig
    NoThread = NoThread
    ListenerKinds <- MC_ListenerKinds
    MaxSeq = 3
    MaxQueueSize = 2
    DefaultQueueSize = 2
    IsShared = FALSE
    DetachHeldByProducer = TRUE
    AttachToFullQueue = FALSE
SPECIFICATION Spec
INVARIANT NoNullBuffer
