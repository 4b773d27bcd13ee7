------------------------- MODULE MC_VSyncDistributor -------------------------
(* Two connections, rates 1 and 2 (vsyncCount modulo 2), every outcome of  *)
(* SendData.                                                               *)
EXTENDS VSyncDistributor, TLC

CONSTANTS k1, k2

MC_Conns == {k1, k2}

MC_Rates == {1, 2}

MC_PostResults == {"Ok", "Closed", "EAGAIN", "Other"}
=============================================================================
