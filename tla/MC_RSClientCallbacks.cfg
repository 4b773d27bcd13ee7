\* Two surface nodes and two capture callbacks, under the calls this tree
\* makes (no UnregisterBufferAvailableListener, no empty buffer callback).
CONSTANTS
    n1 = n1
    n2 = n2
    c1 = c1
    c2 = c2
    b1 = b1
    s1 = s1
    s2 = s2
    null = null
    Nodes <- MC_Nodes
    CaptureCallbacks <- MC_CaptureCallbacks
    BufferCallbacks <- MC_BufferCallbacks
    ScreenCallbacks <- MC_ScreenCallbacks
    Nullptr = null
    MaxCaptures = 3
    MaxBuffers = 2
    MaxScreenCalls = 2
SPECIFICATION Spec
INVARIANT TypeOK CaptureAnsweredToCaller
CHECK_DEADLOCK FALSE
