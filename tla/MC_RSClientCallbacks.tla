----------------------- MODULE MC_RSClientCallbacks -----------------------
EXTENDS RSClientCallbacks

CONSTANTS n1, n2, c1, c2, b1, s1, s2, null

MC_Nodes == {n1, n2}
MC_CaptureCallbacks == {c1, c2}
MC_BufferCallbacks == {b1}
MC_ScreenCallbacks == {s1, s2}
=============================================================================
