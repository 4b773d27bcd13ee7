--------------------------- MODULE MC_BufferQueue ---------------------------
(* Model-checking instance of BufferQueue: one producer IPC thread, one    *)
(* consumer thread, two request configs, three allocatable sequences and   *)
(* one external buffer, queue sizes 1..2.                                  *)
EXTENDS BufferQueue, TLC

CONSTANTS p1, c1, cfgA, cfgB

MC_Producers == {p1}
MC_Consumers == {c1}
MC_Configs   == {cfgA, cfgB}
MC_ExtBuffers == {4}
\* Both listener slots behave alike (any set slot is "a listener"; Unregister
\* clears both), so one slot is enough here.
MC_ListenerKinds == {"listener"}
=============================================================================
