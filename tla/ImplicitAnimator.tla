-------------------------- MODULE ImplicitAnimator --------------------------
(***************************************************************************)
(* RSImplicitAnimator (render_service_client/core/animation/              *)
(* rs_implicit_animator.cpp) turns property changes made between           *)
(* OpenImplicitAnimation and CloseImplicitAnimation into animations.       *)
(*                                                                         *)
(* It keeps four stacks: globalImplicitParams_ (one entry per open group), *)
(* implicitAnimations_ and keyframeAnimations_ (the animations of each     *)
(* group), and implicitAnimationParams_ (the innermost kind of animation:  *)
(* CURVE for a group, KEYFRAME, PATH or TRANSITION for a block begun       *)
(* inside it).  It runs on the UI thread only: the model is the sequence   *)
(* of calls a client makes, in any order, misnested ones included.        *)
(*                                                                         *)
(* Timing protocols, curves, fractions and property values are left out;  *)
(* an animation is a record of its kind, target node and property, the     *)
(* group that created it, whether the node was given it (AddAnimation) and *)
(* how many Close calls returned it.                                       *)
(***************************************************************************)
EXTENDS Integers, Sequences, SequencesExt

CONSTANTS
    Nodes,          \* RSNodes a client animates
    Properties,     \* RSAnimatableProperty values
    FallbackNode,   \* RSNodeMap::GetAnimationFallbackNode()
    MaxOpens,       \* bound on OpenImplicitAnimation calls
    MaxDepth,       \* bound on the depth of implicitAnimationParams_
    MaxAnimations   \* bound on the animations created

INVALID == "INVALID"    \* RSAnimatableProperty::INVALID

ASSUME FallbackNode \notin Nodes /\ INVALID \notin Properties

BlockKinds == {"KEYFRAME", "PATH", "TRANSITION"}
ParamKinds == {"CURVE"} \cup BlockKinds

Animation == [kind : ParamKinds, node : Nodes \cup {FallbackNode},
              prop : Properties \cup {INVALID}, grp : 1..MaxOpens,
              started : BOOLEAN, returned : Nat]

VARIABLES
    globalImplicitParams,       \* stack of [finish, grp]: finishCallback != nullptr
    implicitAnimationParams,    \* stack of [kind, grp]: the param and the group it was made in
    implicitAnimations,         \* stack of sequences of animation ids
    keyframeAnimations,         \* stack of maps <<node, property>> -> animation id
    anim,                       \* the animations created, by id
    opened,                     \* OpenImplicitAnimation calls so far
    alive                       \* nodes RSNodeMap still returns

vars == <<globalImplicitParams, implicitAnimationParams, implicitAnimations,
          keyframeAnimations, anim, opened, alive>>

Top(s) == s[Len(s)]
Pop(s) == SubSeq(s, 1, Len(s) - 1)
SetTop(s, x) == [s EXCEPT ![Len(s)] = x]

\* the group whose timing protocol and curve a new param copies
CurrentGroup == Top(globalImplicitParams).grp

-----------------------------------------------------------------------------
(* CreateImplicitAnimation(target, property, start, end) on a state       *)
(* st = [ia |-> implicitAnimations_, kf |-> keyframeAnimations_,          *)
(* an |-> anim]: the animation the innermost param makes, if any.  A      *)
(* TRANSITION param makes none ("unknow type").                           *)
CreateImplicitAnimation_appendsExisting(st, node, prop) ==
    LET kind == Top(implicitAnimationParams).kind
        id == Len(st.an) + 1
        key == <<node, prop>>
        new(started) == [kind |-> kind, node |-> node, prop |-> prop,
                         grp |-> CurrentGroup, started |-> started, returned |-> 0]
    IN  IF globalImplicitParams = <<>> THEN st
        ELSE CASE kind \in {"CURVE", "PATH"} ->
                    [st EXCEPT !.an = Append(@, new(TRUE)),
                               !.ia = SetTop(@, Append(Top(@), id))]
               [] kind = "KEYFRAME" /\ key \notin DOMAIN Top(st.kf) ->
                    [st EXCEPT !.an = Append(@, new(FALSE)),
                               !.ia = SetTop(@, Append(Top(@), id)),
                               !.kf = SetTop(@, Top(@) @@ (key :> id))]
               [] kind = "KEYFRAME" ->
                    [st EXCEPT !.ia = SetTop(@, Append(Top(@), Top(st.kf)[key]))]
               [] OTHER -> st

CreateImplicitAnimation(st, node, prop) ==
    LET kind == Top(implicitAnimationParams).kind
        id == Len(st.an) + 1
        key == <<node, prop>>
        new(started) == [kind |-> kind, node |-> node, prop |-> prop,
                         grp |-> CurrentGroup, started |-> started, returned |-> 0]
    IN  IF globalImplicitParams = <<>> THEN st
        ELSE CASE kind \in {"CURVE", "PATH"} ->
                    [st EXCEPT !.an = Append(@, new(TRUE)),
                               !.ia = SetTop(@, Append(Top(@), id))]
               [] kind = "KEYFRAME" /\ key \notin DOMAIN Top(st.kf) ->
                    [st EXCEPT !.an = Append(@, new(FALSE)),
                               !.ia = SetTop(@, Append(Top(@), id)),
                               !.kf = SetTop(@, Top(@) @@ (key :> id))]
               [] OTHER -> st     \* AddKeyframe to the existing one, or no animation

\* CreateEmptyAnimation: an animation of INVALID on the fallback node, or
\* nothing when RSNodeMap has no fallback node (it logs and returns).
\* RSNodeMap is not in this tree, so hasFallback is a free choice.
CreateEmptyAnimation(st, hasFallback) ==
    IF hasFallback THEN CreateImplicitAnimation(st, FallbackNode, INVALID) ELSE st

Init ==
    /\ globalImplicitParams = <<>>
    /\ implicitAnimationParams = <<>>
    /\ implicitAnimations = <<>>
    /\ keyframeAnimations = <<>>
    /\ anim = <<>>
    /\ opened = 0
    /\ alive = Nodes

\* PushImplicitParam of a param made from the top group.
PushImplicitParam(kind) ==
    implicitAnimationParams' = Append(implicitAnimationParams,
                                      [kind |-> kind, grp |-> CurrentGroup'])

OpenImplicitAnimation_noKeyframePush(finish) ==
    /\ opened < MaxOpens /\ Len(implicitAnimationParams) < MaxDepth
    /\ globalImplicitParams' = Append(globalImplicitParams,
                                      [finish |-> finish, grp |-> opened + 1])
    /\ implicitAnimations' = Append(implicitAnimations, <<>>)
    /\ UNCHANGED keyframeAnimations
    /\ PushImplicitParam("CURVE")
    /\ opened' = opened + 1
    /\ UNCHANGED <<anim, alive>>

\* OpenImplicitAnimation pushes a group on the three stacks, then
\* BeginImplicitCurveAnimation pushes its CURVE param.
OpenImplicitAnimation(finish) ==
    /\ opened < MaxOpens /\ Len(implicitAnimationParams) < MaxDepth
    /\ globalImplicitParams' = Append(globalImplicitParams,
                                      [finish |-> finish, grp |-> opened + 1])
    /\ implicitAnimations' = Append(implicitAnimations, <<>>)
    /\ keyframeAnimations' = Append(keyframeAnimations, <<>>)
    /\ PushImplicitParam("CURVE")
    /\ opened' = opened + 1
    /\ UNCHANGED <<anim, alive>>

\* EndImplicitCurveAnimation, EndImplicitKeyFrameAnimation,
\* EndImplicitPathAnimation, EndImplicitTransition: PopImplicitParam only
\* if the innermost param is of that kind, else log and return.
EndImplicitParam_noTypeCheck(params, kind) ==
    IF params # <<>> THEN Pop(params) ELSE params

EndImplicitParam(params, kind) ==
    IF params # <<>> /\ Top(params).kind = kind THEN Pop(params) ELSE params


\* CloseImplicitAnimation, with an open group (else it logs and returns).
\* A group that created nothing and has no finish callback is popped at
\* once; one with a callback first gets CreateEmptyAnimation.  The keyframe
\* animations of the group are then added to their targets that RSNodeMap
\* still returns, every animation of the group is returned (and given the
\* callback), the three stacks are popped and EndImplicitCurveAnimation runs.
CloseImplicitAnimation ==
    /\ globalImplicitParams # <<>>
    /\ \E hasFallback \in BOOLEAN :
       LET st0 == [ia |-> implicitAnimations, kf |-> keyframeAnimations, an |-> anim]
           st == IF Top(implicitAnimations) = <<>> /\ Top(globalImplicitParams).finish
                 THEN CreateEmptyAnimation(st0, hasFallback) ELSE st0
           times(a) == Len(SelectSeq(Top(st.ia), LAMBDA x : x = a))
           kf == Top(st.kf)
           added == {kf[k] : k \in {k \in DOMAIN kf : k[1] \in alive \cup {FallbackNode}}}
       IN  /\ Len(st.an) <= MaxAnimations
           /\ anim' = [a \in DOMAIN st.an |->
                         [st.an[a] EXCEPT !.started = @ \/ a \in added,
                                          !.returned = @ + times(a)]]
    /\ globalImplicitParams' = Pop(globalImplicitParams)
    /\ implicitAnimations' = Pop(implicitAnimations)
    /\ keyframeAnimations' = Pop(keyframeAnimations)
    /\ implicitAnimationParams' = EndImplicitParam(implicitAnimationParams, "CURVE")
    /\ UNCHANGED <<opened, alive>>

\* BeginImplicitKeyFrameAnimation, BeginImplicitPathAnimation and
\* BeginImplicitTransition: with an open group, push a param made from it.
BeginImplicitParam(kind) ==
    /\ globalImplicitParams # <<>>
    /\ Len(implicitAnimationParams) < MaxDepth
    /\ UNCHANGED <<globalImplicitParams, implicitAnimations, keyframeAnimations,
                   anim, opened, alive>>
    /\ PushImplicitParam(kind)

\* The End call of a block kind whose check passes (a failing one only logs).
EndImplicitBlock(kind) ==
    /\ implicitAnimationParams' = EndImplicitParam(implicitAnimationParams, kind)
    /\ implicitAnimationParams' # implicitAnimationParams
    /\ UNCHANGED <<globalImplicitParams, implicitAnimations, keyframeAnimations,
                   anim, opened, alive>>

\* An RSNode property setter, while NeedImplicitAnimation() holds, calls
\* CreateImplicitAnimation on the node, which the caller holds alive.
SetProperty(node, prop) ==
    /\ implicitAnimationParams # <<>>
    /\ node \in alive
    /\ LET st == CreateImplicitAnimation(
                     [ia |-> implicitAnimations, kf |-> keyframeAnimations, an |-> anim],
                     node, prop)
       IN  /\ Len(st.an) <= MaxAnimations
           /\ anim' = st.an
           /\ implicitAnimations' = st.ia
           /\ keyframeAnimations' = st.kf
    /\ UNCHANGED <<globalImplicitParams, implicitAnimationParams, opened, alive>>

CreateImplicitTransition_offByOne(node) ==
    /\ globalImplicitParams # <<>>
    /\ node \in alive
    /\ Top(implicitAnimationParams).kind = "TRANSITION"
    /\ Len(anim) < MaxAnimations
    /\ anim' = Append(anim, [kind |-> "TRANSITION", node |-> node, prop |-> INVALID,
                             grp |-> CurrentGroup, started |-> TRUE, returned |-> 0])
    /\ implicitAnimations' = SetTop(implicitAnimations,
                                    Append(Top(implicitAnimations), Len(anim)))
    /\ UNCHANGED <<globalImplicitParams, implicitAnimationParams, keyframeAnimations,
                   opened, alive>>

\* CreateImplicitTransition: under a TRANSITION param the node is given a
\* transition, which joins the top group; under any other param, nothing.
CreateImplicitTransition(node) ==
    /\ globalImplicitParams # <<>>
    /\ node \in alive
    /\ Top(implicitAnimationParams).kind = "TRANSITION"
    /\ Len(anim) < MaxAnimations
    /\ anim' = Append(anim, [kind |-> "TRANSITION", node |-> node, prop |-> INVALID,
                             grp |-> CurrentGroup, started |-> TRUE, returned |-> 0])
    /\ implicitAnimations' = SetTop(implicitAnimations,
                                    Append(Top(implicitAnimations), Len(anim) + 1))
    /\ UNCHANGED <<globalImplicitParams, implicitAnimationParams, keyframeAnimations,
                   opened, alive>>

\* A node is destroyed: RSNodeMap no longer returns it.
DestroyNode(node) ==
    /\ node \in alive
    /\ alive' = alive \ {node}
    /\ UNCHANGED <<globalImplicitParams, implicitAnimationParams, implicitAnimations,
                   keyframeAnimations, anim, opened>>

Next ==
    \/ \E finish \in BOOLEAN : OpenImplicitAnimation(finish)
    \/ CloseImplicitAnimation
    \/ \E kind \in ParamKinds \ {"CURVE"} : BeginImplicitParam(kind) \/ EndImplicitBlock(kind)
    \/ \E node \in Nodes, prop \in Properties : SetProperty(node, prop)
    \/ \E node \in Nodes : CreateImplicitTransition(node) \/ DestroyNode(node)

Spec == Init /\ [][Next]_vars

-----------------------------------------------------------------------------
TypeOK ==
    /\ globalImplicitParams \in Seq([finish : BOOLEAN, grp : 1..MaxOpens])
    /\ implicitAnimationParams \in Seq([kind : ParamKinds, grp : 1..MaxOpens])
    /\ anim \in Seq(Animation)
    /\ \A i \in DOMAIN implicitAnimations : ToSet(implicitAnimations[i]) \subseteq DOMAIN anim
    /\ opened \in 0..MaxOpens
    /\ alive \subseteq Nodes

\* implicitAnimationParams_.top() is read by CreateImplicitAnimation and
\* CreateImplicitTransition whenever a group is open: however the Begin,
\* End and Close calls are interleaved or misnested, a group never stays
\* open with the param stack empty, because Close pops a param only if it
\* is a CURVE and the End calls only their own kind.
InnermostParamDefined ==
    globalImplicitParams # <<>> => implicitAnimationParams # <<>>

\* The three stacks Open pushes and Close pops stay in step: at every
\* depth the animations listed (implicitAnimations_) and keyed
\* (keyframeAnimations_) are those of that depth's group, and none of them
\* has been returned by a Close yet.
GroupStacksAligned ==
    /\ Len(implicitAnimations) = Len(globalImplicitParams)
    /\ Len(keyframeAnimations) = Len(globalImplicitParams)
    /\ \A i \in DOMAIN globalImplicitParams :
          \A a \in ToSet(implicitAnimations[i]) \cup Range(keyframeAnimations[i]) :
              anim[a].grp = globalImplicitParams[i].grp /\ anim[a].returned = 0

\* Every animation CreateImplicitAnimation or CreateImplicitTransition
\* makes is handed back by exactly one Close at most, and once in it: a
\* keyframe animation is listed in its group once however many keyframes
\* are added to it, so its finish callback is not set or run twice.
ReturnedOnce ==
    \A a \in DOMAIN anim : anim[a].returned <= 1

=============================================================================
