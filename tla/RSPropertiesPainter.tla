------------------------- MODULE RSPropertiesPainter -------------------------
(***************************************************************************)
(* RSPropertiesPainter::DrawFrame (render_service_base/src/property/       *)
(* rs_properties_painter.cpp) plays a node's DrawCmdList back into the    *)
(* node's frame: GetGravityMatrix gives the matrix that fits the list,     *)
(* cmds->GetWidth() x cmds->GetHeight(), into the frame rect as the frame  *)
(* gravity asks, and the canvas is concatenated with it when it returns    *)
(* true.  The list drawn is the one the render service rebuilt from the    *)
(* client's Parcel (DrawCmdList's received).                               *)
(*                                                                         *)
(* The float arithmetic is kept as exact fractions: on the small sizes     *)
(* used here every float result but the aspect scales is exact.  A matrix *)
(* is one affine map x |-> a * x + b per axis, as SkMatrix is for the     *)
(* scale and translate calls made here.                                    *)
(***************************************************************************)
EXTENDS DrawCmdList

CONSTANTS
    FrameDims       \* widths and heights of a node's frame rect

-----------------------------------------------------------------------------
(* Fractions [num, den], den > 0.                                          *)
Frac(n, d) == [num |-> n, den |-> d]
FAdd(p, q) == Frac(p.num * q.den + q.num * p.den, p.den * q.den)
FSub(p, q) == Frac(p.num * q.den - q.num * p.den, p.den * q.den)
FMul(p, q) == Frac(p.num * q.num, p.den * q.den)
FDiv(p, q) == IF q.num > 0 THEN Frac(p.num * q.den, p.den * q.num)
                           ELSE Frac(-p.num * q.den, p.den * (-q.num))
FEq(p, q) == p.num * q.den = q.num * p.den
FLeq(p, q) == p.num * q.den <= q.num * p.den
FMin(p, q) == IF FLeq(p, q) THEN p ELSE q
FMax(p, q) == IF FLeq(p, q) THEN q ELSE p
N(n) == Frac(n, 1)

\* The Gravity values GetGravityMatrix switches on.
Gravities == {"CENTER", "TOP", "BOTTOM", "LEFT", "RIGHT", "TOP_LEFT", "TOP_RIGHT",
              "BOTTOM_LEFT", "BOTTOM_RIGHT", "RESIZE", "RESIZE_ASPECT",
              "RESIZE_ASPECT_FILL"}

Identity == [x |-> [a |-> N(1), b |-> N(0)], y |-> [a |-> N(1), b |-> N(0)]]

-----------------------------------------------------------------------------
(* SkMatrix::preTranslate and preScale: M' = M * T and M' = M * S, so a  *)
(* translate made after a scale is in scaled units.                        *)
PreTranslate(m, tx, ty) ==
    [x |-> [m.x EXCEPT !.b = FAdd(FMul(m.x.a, tx), @)],
     y |-> [m.y EXCEPT !.b = FAdd(FMul(m.y.a, ty), @)]]
PreScale(m, sx, sy) ==
    [x |-> [m.x EXCEPT !.a = FMul(@, sx)], y |-> [m.y EXCEPT !.a = FMul(@, sy)]]

Half(v) == FDiv(v, N(2))

AspectMatrix_translateFirst(rw, rh, w, h, scale) ==
    PreScale(PreTranslate(Identity, Half(FSub(N(rw), N(w))), Half(FSub(N(rh), N(h)))),
             scale, scale)
\* RESIZE_ASPECT and RESIZE_ASPECT_FILL: preScale(scale, scale), then
\* preTranslate of the centring offset measured in scaled units.
AspectMatrix(rw, rh, w, h, scale) ==
    PreTranslate(PreScale(Identity, scale, scale),
                 Half(FSub(FDiv(N(rw), scale), N(w))),
                 Half(FSub(FDiv(N(rh), scale), N(h))))

\* GetGravityMatrix(gravity, rect, w, h, mat): [ok, mat], ok being what it
\* returns; mat starts from mat.reset().
GetGravityMatrix(gravity, rw, rh, w, h) ==
    LET dw == FSub(N(rw), N(w))
        dh == FSub(N(rh), N(h))
        Translate(tx, ty) == [ok |-> TRUE, mat |-> PreTranslate(Identity, tx, ty)]
        sx == FDiv(N(rw), N(w))
        sy == FDiv(N(rh), N(h))
    IN  IF w = rw /\ h = rh THEN [ok |-> FALSE, mat |-> Identity]
        ELSE CASE gravity = "CENTER" -> Translate(Half(dw), Half(dh))
               [] gravity = "TOP" -> Translate(Half(dw), N(0))
               [] gravity = "BOTTOM" -> Translate(Half(dw), dh)
               [] gravity = "LEFT" -> Translate(N(0), Half(dh))
               [] gravity = "RIGHT" -> Translate(dw, Half(dh))
               [] gravity = "TOP_LEFT" -> [ok |-> FALSE, mat |-> Identity]
               [] gravity = "TOP_RIGHT" -> Translate(dw, N(0))
               [] gravity = "BOTTOM_LEFT" -> Translate(N(0), dh)
               [] gravity = "BOTTOM_RIGHT" -> Translate(dw, dh)
               [] gravity = "RESIZE" -> [ok |-> TRUE, mat |-> PreScale(Identity, sx, sy)]
               [] gravity = "RESIZE_ASPECT" ->
                    [ok |-> TRUE, mat |-> AspectMatrix(rw, rh, w, h, FMin(sx, sy))]
               [] gravity = "RESIZE_ASPECT_FILL" ->
                    [ok |-> TRUE, mat |-> AspectMatrix(rw, rh, w, h, FMax(sx, sy))]

\* DrawFrame: the box [left, top, right, bottom] the list's w x h content
\* covers in the frame, through the matrix if GetGravityMatrix returned
\* true and untransformed otherwise.
DrawFrame(gravity, rw, rh, w, h) ==
    LET g == GetGravityMatrix(gravity, rw, rh, w, h)
        m == IF g.ok THEN g.mat ELSE Identity
    IN  <<m.x.b, m.y.b, FAdd(FMul(m.x.a, N(w)), m.x.b), FAdd(FMul(m.y.a, N(h)), m.y.b)>>

-----------------------------------------------------------------------------
(* What a gravity asks for, written from its name: how the content is     *)
(* sized (as is, stretched to the frame, the largest uniform scale that    *)
(* fits, the smallest that covers) and where it is aligned on each axis.   *)
SizeMode(g) ==
    CASE g = "RESIZE" -> "stretch" [] g = "RESIZE_ASPECT" -> "fit"
      [] g = "RESIZE_ASPECT_FILL" -> "cover" [] OTHER -> "none"
HAlign(g) ==
    IF g \in {"LEFT", "TOP_LEFT", "BOTTOM_LEFT", "RESIZE"} THEN 0
    ELSE IF g \in {"RIGHT", "TOP_RIGHT", "BOTTOM_RIGHT"} THEN 2 ELSE 1
VAlign(g) ==
    IF g \in {"TOP", "TOP_LEFT", "TOP_RIGHT", "RESIZE"} THEN 0
    ELSE IF g \in {"BOTTOM", "BOTTOM_LEFT", "BOTTOM_RIGHT"} THEN 2 ELSE 1

ExpectedBox(g, rw, rh, w, h) ==
    LET fit == FMin(Frac(rw, w), Frac(rh, h))
        cover == FMax(Frac(rw, w), Frac(rh, h))
        size == CASE SizeMode(g) = "none" -> <<N(w), N(h)>>
                  [] SizeMode(g) = "stretch" -> <<N(rw), N(rh)>>
                  [] SizeMode(g) = "fit" -> <<FMul(fit, N(w)), FMul(fit, N(h))>>
                  [] SizeMode(g) = "cover" -> <<FMul(cover, N(w)), FMul(cover, N(h))>>
        \* alignment 0, 1, 2: start, centre, end of the free space
        left == FMul(Frac(HAlign(g), 2), FSub(N(rw), size[1]))
        top == FMul(Frac(VAlign(g), 2), FSub(N(rh), size[2]))
    IN  <<left, top, FAdd(left, size[1]), FAdd(top, size[2])>>

BoxEq(p, q) == \A i \in 1..4 : FEq(p[i], q[i])

\* The list sizes GetGravityMatrix divides by without a check.
PositiveDims == {d \in Dims : d > 0}

\* Each list size w x h paired with whether every gravity places it in
\* every frame as asked: a constant, computed once for all states.
PlacementChecked ==
    {<<wh, \A g \in Gravities, rw, rh \in FrameDims :
              BoxEq(DrawFrame(g, rw, rh, wh[1], wh[2]), ExpectedBox(g, rw, rh, wh[1], wh[2]))>> :
        wh \in PositiveDims \X PositiveDims}

\* The render service draws the list it rebuilt from the client's Parcel:
\* whatever size the client gave it, DrawFrame puts the content where the
\* frame gravity says (centred, at an edge or corner, stretched, fitted or
\* covering), GetGravityMatrix's translations being in the right units
\* after its scales.  Lists of width or height 0 are left out: for them
\* RESIZE divides by zero.
FrameFollowsGravity ==
    received \notin {NONE, NULL} /\ received.width > 0 /\ received.height > 0
        => <<<<received.width, received.height>>, TRUE>> \in PlacementChecked
=============================================================================
