------------------------- MODULE WindowAnimationIPC -------------------------
(***************************************************************************)
(* The window animation controller interface (rosen/modules/animation/     *)
(* window_animation): RSWindowAnimationProxy, in the window manager, turns *)
(* each call into a MessageParcel and sends it TF_ASYNC; RSWindowAnimation-*)
(* Stub, on a binder thread of the animating process, checks the token,    *)
(* finds the handler in stubFuncMap_, reads the arguments back and calls   *)
(* the controller's On* method.                                            *)
(*                                                                         *)
(* A Parcel is a sequence of items.  As in OHOS Parcel, WriteParcelable of *)
(* a null target writes a null marker that ReadParcelable returns as       *)
(* nullptr; a read of the wrong kind of item is taken to fail.  One-way    *)
(* requests to one binder object are delivered in the order sent.  A       *)
(* request can be lost before it is queued: a failed write, a null        *)
(* Remote() or an error from SendRequest, all of which the proxy only     *)
(* logs.                                                                   *)
(***************************************************************************)
EXTENDS Integers, Sequences, SequencesExt

CONSTANTS
    Targets,        \* RSWindowAnimationTarget objects
    NullTarget,     \* a null sptr<RSWindowAnimationTarget>
    Callbacks,      \* RSIWindowAnimationFinishedCallback objects
    AppTypes,       \* StartingAppType values
    MaxCalls        \* bound on the calls the window manager makes

ASSUME NullTarget \notin Targets

\* RSIWindowAnimationController's request codes.
Codes == {"ON_START_APP", "ON_APP_TRANSITION", "ON_MINIMIZE_WINDOW",
          "ON_CLOSE_WINDOW", "ON_SCREEN_UNLOCK"}

NoArg == "none"     \* an argument the call does not have

\* A call and its arguments.
Call(code, type, from, to, cb) ==
    [code |-> code, type |-> type, from |-> from, to |-> to, cb |-> cb]

AnyTarget == Targets \cup {NullTarget}

\* The calls the window manager can make, with a non-null callback (the
\* proxy dereferences it with AsObject()).
Calls ==
    {Call("ON_START_APP", t, w, NoArg, c) : t \in AppTypes, w \in AnyTarget, c \in Callbacks}
    \cup {Call("ON_APP_TRANSITION", NoArg, f, w, c) : f, w \in AnyTarget, c \in Callbacks}
    \cup {Call(k, NoArg, w, NoArg, c) : k \in {"ON_MINIMIZE_WINDOW", "ON_CLOSE_WINDOW"},
                                        w \in AnyTarget, c \in Callbacks}
    \cup {Call("ON_SCREEN_UNLOCK", NoArg, NoArg, NoArg, c) : c \in Callbacks}

-----------------------------------------------------------------------------
(* Parcel items.                                                           *)
Token == [tag |-> "token", val |-> "RSIWindowAnimationController"]
Int32(v) == [tag |-> "int32", val |-> v]
Parcelable(w) == [tag |-> "parcelable", val |-> w]
RemoteObject(c) == [tag |-> "remote", val |-> c]

\* WriteTargetAndCallback: the target, then the callback's remote object.
WriteTargetAndCallback(w, c) == <<Parcelable(w), RemoteObject(c)>>

\* What each proxy method writes after WriteInterfaceToken.
OnStartApp(call) == <<Token, Int32(call.type)>> \o WriteTargetAndCallback(call.from, call.cb)
OnAppTransition(call) ==
    <<Token, Parcelable(call.from), Parcelable(call.to), RemoteObject(call.cb)>>
OnMinimizeWindow(call) == <<Token>> \o WriteTargetAndCallback(call.from, call.cb)
OnCloseWindow(call) == <<Token>> \o WriteTargetAndCallback(call.from, call.cb)
OnScreenUnlock(call) == <<Token, RemoteObject(call.cb)>>

ProxyParcel(call) ==
    CASE call.code = "ON_START_APP" -> OnStartApp(call)
      [] call.code = "ON_APP_TRANSITION" -> OnAppTransition(call)
      [] call.code = "ON_MINIMIZE_WINDOW" -> OnMinimizeWindow(call)
      [] call.code = "ON_CLOSE_WINDOW" -> OnCloseWindow(call)
      [] call.code = "ON_SCREEN_UNLOCK" -> OnScreenUnlock(call)

-----------------------------------------------------------------------------
(* The stub side.  ReadAt(p, i, tag) is the i-th item when it has the     *)
(* kind the read expects; otherwise the read yields Nullptr (ReadParcelable*)
(* and ReadRemoteObject return nullptr, ReadInt32 an unusable value).      *)
Nullptr == "nullptr"

ReadAt(p, i, tag) == IF i <= Len(p) /\ p[i].tag = tag THEN p[i].val ELSE Nullptr

ERR_NONE == "ERR_NONE"
ERR_INVALID_DATA == "ERR_INVALID_DATA"
ERR_INVALID_STATE == "ERR_INVALID_STATE"
ERR_UNKNOWN_TRANSACTION == "ERR_UNKNOWN_TRANSACTION"

Result(err, call) == [err |-> err, call |-> call]

\* A handler reads after the token (item 1).  iface_cast of a null remote
\* object is null; each null argument ends the handler with ERR_INVALID_DATA.
StartApp_noType(p) ==
    LET target == ReadAt(p, 2, "parcelable")
        cb == ReadAt(p, 3, "remote")
    IN  IF target = Nullptr \/ target = NullTarget \/ cb = Nullptr
        THEN Result(ERR_INVALID_DATA, NoArg)
        ELSE Result(ERR_NONE, Call("ON_START_APP", ReadAt(p, 2, "int32"), target, NoArg, cb))
StartApp(p) ==
    LET type == ReadAt(p, 2, "int32")
        target == ReadAt(p, 3, "parcelable")
        cb == ReadAt(p, 4, "remote")
    IN  IF target = Nullptr \/ target = NullTarget \/ cb = Nullptr
        THEN Result(ERR_INVALID_DATA, NoArg)
        ELSE Result(ERR_NONE, Call("ON_START_APP", type, target, NoArg, cb))

AppTransition(p) ==
    LET from == ReadAt(p, 2, "parcelable")
        to == ReadAt(p, 3, "parcelable")
        cb == ReadAt(p, 4, "remote")
    IN  IF from \in {Nullptr, NullTarget} \/ to \in {Nullptr, NullTarget} \/ cb = Nullptr
        THEN Result(ERR_INVALID_DATA, NoArg)
        ELSE Result(ERR_NONE, Call("ON_APP_TRANSITION", NoArg, from, to, cb))

\* MinimizeWindow and CloseWindow read the same arguments and differ in the
\* controller method they call.
TargetAndCallback(code, p) ==
    LET target == ReadAt(p, 2, "parcelable")
        cb == ReadAt(p, 3, "remote")
    IN  IF target \in {Nullptr, NullTarget} \/ cb = Nullptr
        THEN Result(ERR_INVALID_DATA, NoArg)
        ELSE Result(ERR_NONE, Call(code, NoArg, target, NoArg, cb))
MinimizeWindow(p) == TargetAndCallback("ON_MINIMIZE_WINDOW", p)
CloseWindow(p) == TargetAndCallback("ON_CLOSE_WINDOW", p)

ScreenUnlock(p) ==
    LET cb == ReadAt(p, 2, "remote")
    IN  IF cb = Nullptr
        THEN Result(ERR_INVALID_DATA, NoArg)
        ELSE Result(ERR_NONE, Call("ON_SCREEN_UNLOCK", NoArg, NoArg, NoArg, cb))

\* stubFuncMap_: request code -> handler.
stubFuncMap_miswired ==
    [c \in Codes |-> IF c = "ON_MINIMIZE_WINDOW" THEN "CloseWindow"
                     ELSE CASE c = "ON_START_APP" -> "StartApp"
                            [] c = "ON_APP_TRANSITION" -> "AppTransition"
                            [] c = "ON_CLOSE_WINDOW" -> "CloseWindow"
                            [] c = "ON_SCREEN_UNLOCK" -> "ScreenUnlock"]
stubFuncMap_ ==
    ("ON_START_APP" :> "StartApp") @@ ("ON_APP_TRANSITION" :> "AppTransition")
    @@ ("ON_MINIMIZE_WINDOW" :> "MinimizeWindow") @@ ("ON_CLOSE_WINDOW" :> "CloseWindow")
    @@ ("ON_SCREEN_UNLOCK" :> "ScreenUnlock")

Handle(f, p) ==
    CASE f = "StartApp" -> StartApp(p)
      [] f = "AppTransition" -> AppTransition(p)
      [] f = "MinimizeWindow" -> MinimizeWindow(p)
      [] f = "CloseWindow" -> CloseWindow(p)
      [] f = "ScreenUnlock" -> ScreenUnlock(p)

OnRemoteRequest(code, p) ==
    CASE ReadAt(p, 1, "token") # Token.val -> Result(ERR_INVALID_STATE, NoArg)
      [] code \notin DOMAIN stubFuncMap_ -> Result(ERR_UNKNOWN_TRANSACTION, NoArg)
      [] OTHER -> Handle(stubFuncMap_[code], p)

-----------------------------------------------------------------------------
VARIABLES
    called,     \* history: the calls the window manager made on the proxy
    queue,      \* one-way requests in the binder driver: [id, code, data]
    delivered,  \* the controller's On* calls: [id, call]
    rejected    \* ids of requests the stub answered with an error

vars == <<called, queue, delivered, rejected>>

Init ==
    /\ called = <<>>
    /\ queue = <<>>
    /\ delivered = <<>>
    /\ rejected = {}

\* A proxy method (OnStartApp ... OnScreenUnlock): it writes the parcel and
\* sends it TF_ASYNC, or the request is lost (a failed write, a null
\* Remote(), an error from SendRequest) and the method returns all the same.
ProxyCall(call) ==
    /\ Len(called) < MaxCalls
    /\ called' = Append(called, call)
    /\ \/ queue' = Append(queue, [id |-> Len(called) + 1, code |-> call.code,
                                  data |-> ProxyParcel(call)])
       \/ UNCHANGED queue
    /\ UNCHANGED <<delivered, rejected>>

\* The stub's binder thread takes the oldest request and runs OnRemoteRequest.
StubReceive ==
    /\ queue # <<>>
    /\ LET m == Head(queue)
           r == OnRemoteRequest(m.code, m.data)
       IN  /\ queue' = Tail(queue)
           /\ IF r.err = ERR_NONE
              THEN /\ delivered' = Append(delivered, [id |-> m.id, call |-> r.call])
                   /\ UNCHANGED rejected
              ELSE /\ rejected' = rejected \cup {m.id}
                   /\ UNCHANGED delivered
    /\ UNCHANGED called

Next ==
    \/ \E call \in Calls : ProxyCall(call)
    \/ StubReceive

Spec == Init /\ [][Next]_vars

\* The animating process keeps a binder thread serving the stub, and the
\* driver hands one-way requests to one object to it one after the other:
\* a queued request is eventually taken.  The window manager is never
\* obliged to call.
FairSpec == Spec /\ WF_vars(StubReceive)

-----------------------------------------------------------------------------
TypeOK ==
    /\ called \in Seq(Calls)
    /\ \A i \in 1..Len(queue) : queue[i].id \in 1..Len(called) /\ queue[i].code \in Codes
    /\ \A i \in 1..Len(delivered) : delivered[i].id \in 1..Len(called)
    /\ rejected \subseteq 1..Len(called)

\* The calls that reach the controller: those without a null target.
Acceptable == {c \in Calls : NullTarget \notin {c.from, c.to}}

\* The queued requests the stub will accept, as the calls they were made for.
AcceptedInQueue ==
    LET acc == SelectSeq(queue, LAMBDA m : OnRemoteRequest(m.code, m.data).err = ERR_NONE)
    IN  [i \in 1..Len(acc) |-> called[acc[i].id]]

Channel == INSTANCE OneWayChannel
               WITH Msgs <- Calls, Valid <- Acceptable, sent <- called,
                    chan <- AcceptedInQueue,
                    got <- [i \in 1..Len(delivered) |-> delivered[i].call]

\* The proxy and stub together are a one-way channel (OneWayChannel): the
\* controller's On* calls are the window manager's calls with the same
\* method and arguments, each once and in the order they were made, and
\* only calls without a null target reach it; what the channel may do
\* besides is lose a call.  And every call that was not lost reaches the
\* controller in the end.  The proxy's write order, the stub's read order
\* and stubFuncMap_ must agree for this.
ChannelRefinement == Channel!FairSpec

\* The stub rejects a request the proxy wrote only when the window manager
\* passed a null window target: every ERR_INVALID_DATA path of the handlers
\* other than that one is unreachable from RSWindowAnimationProxy.
OnlyNullTargetsRejected ==
    \A id \in rejected : NullTarget \in {called[id].from, called[id].to}

=============================================================================
