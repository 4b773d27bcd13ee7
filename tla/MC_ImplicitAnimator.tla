------------------------ MODULE MC_ImplicitAnimator ------------------------
(* Two nodes and one property, so that keyframes of one node and of two  *)
(* nodes, and a node destroyed with a keyframe animation pending, occur. *)
EXTENDS ImplicitAnimator

CONSTANTS n1, n2, pa, fb

MC_Nodes == {n1, n2}
MC_Properties == {pa}
=============================================================================
