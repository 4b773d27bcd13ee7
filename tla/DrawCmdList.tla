---------------------------- MODULE DrawCmdList ----------------------------
(***************************************************************************)
(* DrawCmdList (render_service_base/src/pipeline/rs_draw_cmd_list.cpp) is  *)
(* the list of drawing ops a client records and sends to the render        *)
(* service in a Parcel.  Marshalling writes width, height and the op count *)
(* and then, per op, its RSOpType and the op's own Marshalling; the        *)
(* receiving side's Unmarshalling reads them back through                  *)
(* opUnmarshallingFuncLUT and rebuilds the list with AddOp.                *)
(*                                                                         *)
(* The op classes are those of pipeline/rs_draw_cmd.h, each with the type  *)
(* GetType() returns and whether it overrides Marshalling.  What an op's   *)
(* Marshalling writes (rects, paints, images) is one data item naming the  *)
(* class and a value; its static Unmarshalling, in rs_draw_cmd.cpp, which  *)
(* is not in this tree, is taken to read back what it wrote.  A Parcel is  *)
(* a sequence of items with a capacity; a read of the wrong kind of item   *)
(* (a misaligned read) is taken to fail.                                   *)
(***************************************************************************)
EXTENDS Integers, Sequences, SequencesExt

CONSTANTS
    Classes,        \* the op classes a client records (a subset of DOMAIN OpClass)
    Values,         \* the contents an op with a payload can carry
    Dims,           \* widths and heights of a list
    MaxOps,         \* bound on the ops recorded
    ParcelCapacity  \* items a Parcel can take before a write fails

NULL == [nullptr |-> TRUE]   \* Unmarshalling returned nullptr
NONE == [none |-> TRUE]      \* no value: not read, not yet done

-----------------------------------------------------------------------------
(* The op classes of rs_draw_cmd.h: the RSOpType their GetType() returns   *)
(* and whether they override OpItem::Marshalling (the base writes nothing  *)
(* and returns true).                                                      *)
Op(type, marshals) == [type |-> type, marshals |-> marshals]

\* Shape ops drawn with a paint.
ShapeOps ==
    ("RectOpItem" :> Op("RECT_OPITEM", TRUE)) @@
    ("RoundRectOpItem" :> Op("ROUND_RECT_OPITEM", TRUE)) @@
    ("ImageWithParmOpItem" :> Op("IMAGE_WITH_PARM_OPITEM", TRUE)) @@
    ("DRRectOpItem" :> Op("DRRECT_OPITEM", TRUE)) @@
    ("OvalOpItem" :> Op("OVAL_OPITEM", TRUE)) @@
    ("RegionOpItem" :> Op("REGION_OPITEM", TRUE)) @@
    ("ArcOpItem" :> Op("ARC_OPITEM", TRUE))

\* Canvas state ops: save, restore, flush, matrix, clips, translate.
CanvasStateOps ==
    ("SaveOpItem" :> Op("SAVE_OPITEM", FALSE)) @@
    ("RestoreOpItem" :> Op("RESTORE_OPITEM", FALSE)) @@
    ("FlushOpItem" :> Op("FLUSH_OPITEM", FALSE)) @@
    ("MatrixOpItem" :> Op("MATRIX_OPITEM", TRUE)) @@
    ("ClipRectOpItem" :> Op("CLIP_RECT_OPITEM", TRUE)) @@
    ("ClipRRectOpItem" :> Op("CLIP_RRECT_OPITEM", TRUE)) @@
    ("ClipRegionOpItem" :> Op("CLIP_REGION_OPITEM", TRUE)) @@
    ("TranslateOpItem" :> Op("TRANSLATE_OPITEM", TRUE))

\* Text and image ops; BitmapLatticeOpItem has no Marshalling yet.
ImageOps ==
    ("TextBlobOpItem" :> Op("TEXTBLOB_OPITEM", TRUE)) @@
    ("BitmapOpItem" :> Op("BITMAP_OPITEM", TRUE)) @@
    ("BitmapRectOpItem" :> Op("BITMAP_RECT_OPITEM", TRUE)) @@
    ("BitmapLatticeOpItem" :> Op("BITMAP_LATTICE_OPITEM", FALSE)) @@
    ("BitmapNineOpItem" :> Op("BITMAP_NINE_OPITEM", TRUE))

\* Paths, paints, layers, drawables, pictures, points and vertices.
PathAndLayerOps ==
    ("AdaptiveRRectOpItem" :> Op("ADAPTIVE_RRECT_OPITEM", TRUE)) @@
    ("ClipAdaptiveRRectOpItem" :> Op("CLIP_ADAPTIVE_RRECT_OPITEM", TRUE)) @@
    ("PathOpItem" :> Op("PATH_OPITEM", TRUE)) @@
    ("ClipPathOpItem" :> Op("CLIP_PATH_OPITEM", TRUE)) @@
    ("PaintOpItem" :> Op("PAINT_OPITEM", TRUE)) @@
    ("ConcatOpItem" :> Op("CONCAT_OPITEM", TRUE)) @@
    ("SaveLayerOpItem" :> Op("SAVE_LAYER_OPITEM", TRUE)) @@
    ("DrawableOpItem" :> Op("DRAWABLE_OPITEM", TRUE)) @@
    ("PictureOpItem" :> Op("PICTURE_OPITEM", TRUE)) @@
    ("PointsOpItem" :> Op("POINTS_OPITEM", TRUE)) @@
    ("VerticesOpItem" :> Op("VERTICES_OPITEM", TRUE))

\* Shadow and alpha ops; ShadowRecOpItem keeps OpItem's GetType().
AlphaOps ==
    ("ShadowRecOpItem" :> Op("OPITEM", FALSE)) @@
    ("MultiplyAlphaOpItem" :> Op("MULTIPLY_ALPHA_OPITEM", TRUE)) @@
    ("SaveAlphaOpItem" :> Op("SAVE_ALPHA_OPITEM", FALSE)) @@
    ("RestoreAlphaOpItem" :> Op("RESTORE_ALPHA_OPITEM", FALSE))

OpClass == ShapeOps @@ CanvasStateOps @@ ImageOps @@ PathAndLayerOps @@ AlphaOps

\* The classes that declare a static Unmarshalling(Parcel&) in rs_draw_cmd.h.
DeclaresUnmarshalling ==
    DOMAIN OpClass \ {"BitmapLatticeOpItem", "ShadowRecOpItem"}


\* The classes opUnmarshallingFuncLUT lists, each under its GetType().
LUTClasses ==
    {"RectOpItem", "RoundRectOpItem", "ImageWithParmOpItem", "DRRectOpItem",
     "OvalOpItem", "RegionOpItem", "ArcOpItem", "SaveOpItem", "RestoreOpItem",
     "FlushOpItem", "MatrixOpItem", "ClipRectOpItem", "ClipRRectOpItem",
     "ClipRegionOpItem", "TranslateOpItem", "TextBlobOpItem", "BitmapOpItem",
     "BitmapRectOpItem", "BitmapNineOpItem", "AdaptiveRRectOpItem",
     "ClipAdaptiveRRectOpItem", "PathOpItem", "ClipPathOpItem", "PaintOpItem",
     "ConcatOpItem", "SaveLayerOpItem", "DrawableOpItem", "PictureOpItem",
     "PointsOpItem", "VerticesOpItem", "MultiplyAlphaOpItem", "SaveAlphaOpItem",
     "RestoreAlphaOpItem"}

opUnmarshallingFuncLUT_noRect ==
    [t \in {OpClass[c].type : c \in LUTClasses \ {"RectOpItem"}} |->
        CHOOSE c \in LUTClasses : OpClass[c].type = t]

opUnmarshallingFuncLUT ==
    [t \in {OpClass[c].type : c \in LUTClasses} |->
        CHOOSE c \in LUTClasses : OpClass[c].type = t]

\* An op of the list: its class and, if it marshals a payload, its content.
Ops == {[cls |-> c, val |-> v] : c \in {c \in Classes : OpClass[c].marshals}, v \in Values}
       \cup {[cls |-> c, val |-> 0] : c \in {c \in Classes : ~OpClass[c].marshals}}

-----------------------------------------------------------------------------
(* Parcel items.                                                           *)
IntItem(n) == [tag |-> "int", val |-> n]
TypeItem(t) == [tag |-> "type", val |-> t]
DataItem(op) == [tag |-> "data", val |-> op]

Write_noCapacityCheck(p, item) == [ok |-> TRUE, p |-> Append(p, item)]

\* RSMarshallingHelper::Marshalling: WriteUnpadBuffer, which fails and
\* writes nothing when the Parcel is full.
Write(p, item) ==
    IF Len(p) < ParcelCapacity THEN [ok |-> TRUE, p |-> Append(p, item)]
    ELSE [ok |-> FALSE, p |-> p]

\* RSMarshallingHelper::Unmarshalling: ReadUnpadBuffer of the next item;
\* [ok |-> FALSE] when there is none, or it is not of the kind expected.
Read(p, pos, tag) ==
    IF pos <= Len(p) /\ p[pos].tag = tag
    THEN [ok |-> TRUE, val |-> p[pos].val, pos |-> pos + 1]
    ELSE [ok |-> FALSE, val |-> NONE, pos |-> pos]

\* DrawCmdList::Marshalling: success &= every write; the op loop returns
\* as soon as success is false after an op.  An op whose class does not
\* override Marshalling writes only its type.
Marshalling(width, height, ops) ==
    LET w1 == Write(<<>>, IntItem(width))
        w2 == Write(w1.p, IntItem(height))
        w3 == Write(w2.p, IntItem(Len(ops)))
        RECURSIVE Loop(_, _, _)
        Loop(i, ok, p) ==
            IF i > Len(ops) THEN [ok |-> ok, p |-> p]
            ELSE LET t == Write(p, TypeItem(OpClass[ops[i].cls].type))
                     d == IF OpClass[ops[i].cls].marshals
                          THEN Write(t.p, DataItem(ops[i]))
                          ELSE [ok |-> TRUE, p |-> t.p]
                 IN  IF ok /\ t.ok /\ d.ok THEN Loop(i + 1, TRUE, d.p)
                     ELSE [ok |-> FALSE, p |-> d.p]
    IN  Loop(1, w1.ok /\ w2.ok /\ w3.ok, w3.p)

\* The static Unmarshalling of an op class: one data item of its own class
\* if the class marshals a payload, nothing otherwise.
OpUnmarshalling(c, p, pos) ==
    IF OpClass[c].marshals
    THEN LET r == Read(p, pos, "data")
         IN  IF r.ok /\ r.val.cls = c THEN [ok |-> TRUE, op |-> r.val, pos |-> r.pos]
             ELSE [ok |-> FALSE, op |-> NONE, pos |-> pos]
    ELSE [ok |-> TRUE, op |-> [cls |-> c, val |-> 0], pos |-> pos]

\* DrawCmdList::Unmarshalling: width, height and size, then size ops; a
\* type without an unmarshalling function is skipped, any failed read
\* returns nullptr.
Unmarshalling(p) ==
    LET w == Read(p, 1, "int")
        h == Read(p, w.pos, "int")
        n == Read(p, h.pos, "int")
        RECURSIVE Loop(_, _, _)
        Loop(i, pos, acc) ==
            IF i >= n.val THEN [width |-> w.val, height |-> h.val, ops |-> acc]
            ELSE LET t == Read(p, pos, "type")
                 IN  IF ~t.ok THEN NULL
                     ELSE IF t.val \notin DOMAIN opUnmarshallingFuncLUT
                          THEN Loop(i + 1, t.pos, acc)
                          ELSE LET o == OpUnmarshalling(opUnmarshallingFuncLUT[t.val], p, t.pos)
                               IN  IF o.ok THEN Loop(i + 1, o.pos, Append(acc, o.op)) ELSE NULL
    IN  IF w.ok /\ h.ok /\ n.ok THEN Loop(0, n.pos, <<>>) ELSE NULL


-----------------------------------------------------------------------------
VARIABLES
    width, height,  \* width_ and height_, fixed by the constructor
    ops,            \* ops_
    parcel,         \* the Parcel the last Marshalling wrote
    marshalled,     \* what it returned (FALSE before the first)
    sent,           \* ops_ when it ran
    received        \* what Unmarshalling of that Parcel returned, or NONE

vars == <<width, height, ops, parcel, marshalled, sent, received>>

\* DrawCmdList(int w, int h): an empty list.
Init ==
    /\ width \in Dims /\ height \in Dims
    /\ ops = <<>>
    /\ parcel = <<>> /\ marshalled = FALSE /\ sent = <<>> /\ received = NONE

\* DrawCmdList::AddOp (under the recursive mutex_).
AddOp(op) ==
    /\ Len(ops) < MaxOps
    /\ ops' = Append(ops, op)
    /\ UNCHANGED <<width, height, parcel, marshalled, sent, received>>

\* DrawCmdList::ClearOp.
ClearOp ==
    /\ ops # <<>>
    /\ ops' = <<>>
    /\ UNCHANGED <<width, height, parcel, marshalled, sent, received>>

\* The list is written into a fresh Parcel.
MarshalList ==
    LET r == Marshalling(width, height, ops)
    IN  /\ parcel' = r.p
        /\ marshalled' = r.ok
        /\ sent' = ops
        /\ received' = NONE
        /\ UNCHANGED <<width, height, ops>>

\* The render service reads a Parcel that was written successfully.
UnmarshalList ==
    /\ marshalled = TRUE /\ received = NONE
    /\ received' = Unmarshalling(parcel)
    /\ UNCHANGED <<width, height, ops, parcel, marshalled, sent>>

Next ==
    \/ \E op \in Ops : AddOp(op)
    \/ ClearOp
    \/ MarshalList
    \/ UnmarshalList

Spec == Init /\ [][Next]_vars

-----------------------------------------------------------------------------
TypeOK ==
    /\ width \in Dims /\ height \in Dims
    /\ ops \in Seq(Ops) /\ Len(ops) <= MaxOps
    /\ Len(parcel) <= ParcelCapacity
    /\ marshalled \in BOOLEAN

\* What the receiver can rebuild of a list: its size, and the ops whose
\* class declares an Unmarshalling, in order.
Rebuilt(w, h, l) ==
    [width |-> w, height |-> h,
     ops |-> SelectSeq(l, LAMBDA op : op.cls \in DeclaresUnmarshalling)]

\* Marshalling and Unmarshalling agree on the layout of every op: a list
\* whose Marshalling succeeded is read back whole, never as nullptr and
\* never misaligned, with every op that has an unmarshalling function in
\* its place and only the ops without one (BitmapLatticeOpItem,
\* ShadowRecOpItem) left out.
RoundTrip ==
    received # NONE => received = Rebuilt(width, height, sent)

=============================================================================
