\* The client makes a bounded number of calls, so the model stops when
\* they are used up: deadlock is not a fault here.
CONSTANTS
    n1 = n1
    n2 = n2
    pa = pa
    fb = fb
    Nodes <- MC_Nodes
    Properties <- MC_Properties
    FallbackNode = fb
    MaxOpens = 2
    MaxDepth = 3
    MaxAnimations = 3
SPECIFICATION Spec
INVARIANT TypeOK InnermostParamDefined GroupStacksAligned ReturnedOnce
CHECK_DEADLOCK FALSE
