----------------------- MODULE MC_WindowAnimationIPC -----------------------
EXTENDS WindowAnimationIPC

CONSTANTS w1, w2, nullTarget, cb1, cold, warm

MC_Targets == {w1, w2}
MC_Callbacks == {cb1}
MC_AppTypes == {cold, warm}
=============================================================================
