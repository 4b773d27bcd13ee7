--------------------------- MODULE MC_ScreenManager ---------------------------
(* Two outputs, one of them MIPI, one callback object per registration,    *)
(* one producer surface, two virtual screen ids.                           *)
EXTENDS ScreenManager, TLC

CONSTANTS cb1, s1, t1, t2

MC_Outputs == {0, 1}

MC_Mipi == {0}

MC_Callbacks == {cb1}

MC_Surfaces == {s1}

MC_OneClient == {t1}

MC_TwoClients == {t1, t2}
=============================================================================
