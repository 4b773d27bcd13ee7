--------------------------- MODULE MC_DrawCmdList ---------------------------
(* One class of each kind: a shape with a payload, a state op without     *)
(* one, an op with no Marshalling and no unmarshalling function, and an   *)
(* op that keeps OpItem's type.                                           *)
EXTENDS RSPropertiesPainter

MC_Classes == {"RectOpItem", "SaveOpItem", "BitmapLatticeOpItem", "ShadowRecOpItem"}
=============================================================================
