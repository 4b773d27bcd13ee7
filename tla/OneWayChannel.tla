---------------------------- MODULE OneWayChannel ----------------------------
(***************************************************************************)
(* What a one-way interface promises its caller: every call made may be   *)
(* lost, the calls the receiver does not accept never reach it, and those  *)
(* that reach it do so once each, in the order they were made, and as they *)
(* were made; under FairSpec every call on its way is acted on.  The window animation proxy and stub (WindowAnimationIPC)    *)
(* are shown to implement it.                                              *)
(***************************************************************************)
EXTENDS Sequences

CONSTANTS
    Msgs,       \* the calls a caller can make
    Valid       \* the calls the receiver accepts

VARIABLES
    sent,       \* the calls made, in order
    chan,       \* the calls on their way that will be accepted
    got         \* the calls the receiver has acted on, in order

vars == <<sent, chan, got>>

Init == sent = <<>> /\ chan = <<>> /\ got = <<>>

\* A call is made; it joins the channel only if it is acceptable, and even
\* then it may be lost.
Send(m) ==
    /\ sent' = Append(sent, m)
    /\ \/ m \in Valid /\ chan' = Append(chan, m)
       \/ chan' = chan
    /\ UNCHANGED got

\* The receiver acts on the oldest call on the channel.
Deliver ==
    /\ chan # <<>>
    /\ got' = Append(got, Head(chan))
    /\ chan' = Tail(chan)
    /\ UNCHANGED sent

Next == (\E m \in Msgs : Send(m)) \/ Deliver

Spec == Init /\ [][Next]_vars

\* A receiver that keeps running acts on every call that reaches it.
FairSpec == Spec /\ WF_vars(Deliver)
=============================================================================
