------------------------- MODULE RSClientCallbacks -------------------------
(***************************************************************************)
(* The callback bookkeeping of RSRenderServiceClient                       *)
(* (render_service_base/src/platform/ohos/rs_render_service_client.cpp)    *)
(* and its user RSSurfaceNode::SetBufferAvailableCallback                  *)
(* (render_service_client/core/ui/rs_surface_node.cpp).                    *)
(*                                                                         *)
(*  - Surface capture: TakeSurfaceCapture stores the user callback in      *)
(*    surfaceCaptureCbMap_ under the node id and asks the service; the     *)
(*    service answers on a binder thread through the director, and         *)
(*    TriggerSurfaceCaptureCallback takes the callback out and calls it.   *)
(*  - Buffer available: a surface node keeps callback_ and registers, once *)
(*    per node, a listener whose lambda calls the node's current callback_.*)
(*  - Screen change: SetScreenChangeCallback registers a new stub.         *)
(*                                                                         *)
(* The render service is not in this tree: what it does with a request is  *)
(* a nondeterministic choice, and GetRenderService() may return nullptr.   *)
(***************************************************************************)
EXTENDS Integers, Sequences, Functions, TLC

CONSTANTS
    Nodes,              \* NodeIds of surface nodes
    CaptureCallbacks,   \* SurfaceCaptureCallback objects
    BufferCallbacks,    \* BufferAvailableCallback functions (non-empty)
    ScreenCallbacks,    \* ScreenChangeCallback functions
    Nullptr,            \* a null shared_ptr / an empty std::function
    MaxCaptures,        \* bound on accepted TakeSurfaceCapture calls
    MaxBuffers,         \* bound on buffer-available notifications
    MaxScreenCalls      \* bound on SetScreenChangeCallback calls and events

ASSUME Nullptr \notin CaptureCallbacks \cup BufferCallbacks \cup ScreenCallbacks

VARIABLES
    surfaceCaptureCbMap,    \* node -> the capture callback waiting for it
    captures,               \* history: accepted captures [node, cb]
    servicePending,         \* ids of captures the service has not handled
    answered,               \* ids of captures the service answered
    captureDelivered,       \* OnSurfaceCapture calls: [req, cb]
    callback_,              \* per surface node: RSSurfaceNode::callback_
    alive,                  \* surface nodes a weak_ptr still locks
    bufferAvailableCbUIMap_,\* nodes with a listener in the client's map
    listeners,              \* per node: listeners the service holds
    notifications,          \* buffer-available notifications so far
    bufferDelivered,        \* user buffer callbacks called: [node, cb]
    crashed,                \* an empty std::function was called
    screenChangeCb_,        \* the client's current screen-change stub
    screenStubs,            \* the stubs the service holds, in order
    screenTold              \* user screen callbacks called

captureVars == <<surfaceCaptureCbMap, captures, servicePending, answered, captureDelivered>>
bufferVars == <<callback_, alive, bufferAvailableCbUIMap_, listeners, notifications,
                bufferDelivered, crashed>>
screenVars == <<screenChangeCb_, screenStubs, screenTold>>
vars == <<captureVars, bufferVars, screenVars>>

Init ==
    /\ surfaceCaptureCbMap = <<>>
    /\ captures = <<>>
    /\ servicePending = {}
    /\ answered = {}
    /\ captureDelivered = <<>>
    /\ callback_ = [n \in Nodes |-> Nullptr]
    /\ alive = Nodes
    /\ bufferAvailableCbUIMap_ = {}
    /\ listeners = [n \in Nodes |-> 0]
    /\ notifications = 0
    /\ bufferDelivered = <<>>
    /\ crashed = FALSE
    /\ screenChangeCb_ = Nullptr
    /\ screenStubs = <<>>
    /\ screenTold = <<>>

-----------------------------------------------------------------------------
(* Surface capture.                                                        *)

\* TakeSurfaceCapture: reject a null callback and a node with a capture
\* outstanding; otherwise emplace the callback under mutex_ and send the
\* request to the service.
TakeSurfaceCapture_noNullCheck(id, callback) ==
    /\ Len(captures) < MaxCaptures
    /\ id \notin DOMAIN surfaceCaptureCbMap
    /\ surfaceCaptureCbMap' = surfaceCaptureCbMap @@ (id :> callback)
    /\ captures' = Append(captures, [node |-> id, cb |-> callback])
    /\ servicePending' = servicePending \cup {Len(captures) + 1}
    /\ UNCHANGED <<answered, captureDelivered, bufferVars, screenVars>>
TakeSurfaceCapture_noCountCheck(id, callback) ==
    /\ Len(captures) < MaxCaptures
    /\ callback # Nullptr
    /\ surfaceCaptureCbMap' = surfaceCaptureCbMap @@ (id :> callback)
    /\ captures' = Append(captures, [node |-> id, cb |-> callback])
    /\ servicePending' = servicePending \cup {Len(captures) + 1}
    /\ UNCHANGED <<answered, captureDelivered, bufferVars, screenVars>>
TakeSurfaceCapture(id, callback) ==
    /\ Len(captures) < MaxCaptures
    /\ callback # Nullptr
    /\ id \notin DOMAIN surfaceCaptureCbMap
    /\ surfaceCaptureCbMap' = surfaceCaptureCbMap @@ (id :> callback)
    /\ captures' = Append(captures, [node |-> id, cb |-> callback])
    /\ servicePending' = servicePending \cup {Len(captures) + 1}
    /\ UNCHANGED <<answered, captureDelivered, bufferVars, screenVars>>

\* The service answers capture r through the director, whose
\* OnSurfaceCapture runs TriggerSurfaceCaptureCallback(id, pixelmap): find
\* and erase the callback under mutex_, then call it (or log if none).
TriggerSurfaceCaptureCallback(r) ==
    LET id == captures[r].node
    IN  /\ r \in servicePending
        /\ servicePending' = servicePending \ {r}
        /\ answered' = answered \cup {r}
        /\ IF id \in DOMAIN surfaceCaptureCbMap
           THEN /\ captureDelivered' = Append(captureDelivered,
                                              [req |-> r, cb |-> surfaceCaptureCbMap[id]])
                /\ surfaceCaptureCbMap' = [x \in DOMAIN surfaceCaptureCbMap \ {id} |->
                                              surfaceCaptureCbMap[x]]
           ELSE UNCHANGED <<surfaceCaptureCbMap, captureDelivered>>
        /\ UNCHANGED <<captures, bufferVars, screenVars>>

\* The service handles capture r without calling back.
ServiceDropsCapture(r) ==
    /\ r \in servicePending
    /\ servicePending' = servicePending \ {r}
    /\ UNCHANGED <<surfaceCaptureCbMap, captures, answered, captureDelivered,
                   bufferVars, screenVars>>

-----------------------------------------------------------------------------
(* Buffer-available listeners.                                             *)

\* RegisterBufferAvailableListener(id, lambda, isFromRenderThread = false):
\* nothing if the UI map has the node; otherwise register a new
\* CustomBufferAvailableCallback with the service and emplace it.
RegisterBufferAvailableListener(id) ==
    IF id \in bufferAvailableCbUIMap_
    THEN UNCHANGED <<listeners, bufferAvailableCbUIMap_>>
    ELSE /\ listeners' = [listeners EXCEPT ![id] = @ + 1]
         /\ bufferAvailableCbUIMap_' = bufferAvailableCbUIMap_ \cup {id}

\* RSSurfaceNode::SetBufferAvailableCallback: store callback_ under the
\* node's mutex_, then register, unless GetRenderService() is nullptr.
SetBufferAvailableCallback(id, callback) ==
    /\ id \in alive
    /\ callback_' = [callback_ EXCEPT ![id] = callback]
    /\ \/ RegisterBufferAvailableListener(id)
       \/ UNCHANGED <<listeners, bufferAvailableCbUIMap_>>
    /\ UNCHANGED <<alive, notifications, bufferDelivered, crashed, captureVars, screenVars>>

\* UnregisterBufferAvailableListener erases the node from the client's maps;
\* the service is not told.
UnregisterBufferAvailableListener(id) ==
    /\ bufferAvailableCbUIMap_' = bufferAvailableCbUIMap_ \ {id}
    /\ UNCHANGED <<callback_, alive, listeners, notifications, bufferDelivered, crashed,
                   captureVars, screenVars>>

\* A buffer of node id becomes available and the service calls each of its
\* listeners: OnBufferAvailable runs the lambda, which locks the node's
\* weak_ptr and calls a copy of callback_ (an empty one throws).
OnBufferAvailable(id) ==
    /\ listeners[id] > 0
    /\ notifications < MaxBuffers
    /\ ~crashed
    /\ notifications' = notifications + 1
    /\ IF id \in alive
       THEN /\ bufferDelivered' = bufferDelivered \o
                   [i \in 1..listeners[id] |-> [node |-> id, cb |-> callback_[id]]]
            /\ crashed' = (callback_[id] = Nullptr)
       ELSE UNCHANGED <<bufferDelivered, crashed>>
    /\ UNCHANGED <<callback_, alive, bufferAvailableCbUIMap_, listeners, captureVars, screenVars>>

\* ~RSSurfaceNode: the node goes; its listener stays registered.
DestroyNode(id) ==
    /\ id \in alive
    /\ alive' = alive \ {id}
    /\ UNCHANGED <<callback_, bufferAvailableCbUIMap_, listeners, notifications,
                   bufferDelivered, crashed, captureVars, screenVars>>

-----------------------------------------------------------------------------
(* Screen-change callback.                                                 *)

\* SetScreenChangeCallback: replace screenChangeCb_ by a new stub and
\* register it with the service.
SetScreenChangeCallback(callback) ==
    /\ Len(screenStubs) + Len(screenTold) < MaxScreenCalls
    /\ screenChangeCb_' = callback
    /\ screenStubs' = Append(screenStubs, callback)
    /\ UNCHANGED <<screenTold, captureVars, bufferVars>>

\* A screen event: the service calls every stub it holds.
OnScreenChanged ==
    /\ screenStubs # <<>>
    /\ Len(screenStubs) + Len(screenTold) < MaxScreenCalls
    /\ screenTold' = screenTold \o screenStubs
    /\ UNCHANGED <<screenChangeCb_, screenStubs, captureVars, bufferVars>>

-----------------------------------------------------------------------------
\* The calls this tree makes: surface nodes set non-empty callbacks, and
\* nothing calls UnregisterBufferAvailableListener.
Next ==
    \/ \E id \in Nodes, cb \in CaptureCallbacks \cup {Nullptr} : TakeSurfaceCapture(id, cb)
    \/ \E r \in servicePending : TriggerSurfaceCaptureCallback(r) \/ ServiceDropsCapture(r)
    \/ \E id \in Nodes :
        \/ \E cb \in BufferCallbacks : SetBufferAvailableCallback(id, cb)
        \/ OnBufferAvailable(id)
        \/ DestroyNode(id)
    \/ \E cb \in ScreenCallbacks : SetScreenChangeCallback(cb)
    \/ OnScreenChanged

\* Every call the public API allows: also UnregisterBufferAvailableListener
\* and an empty BufferAvailableCallback.
NextPublicApi ==
    \/ Next
    \/ \E id \in Nodes :
        \/ UnregisterBufferAvailableListener(id)
        \/ SetBufferAvailableCallback(id, Nullptr)

Spec == Init /\ [][Next]_vars
SpecPublicApi == Init /\ [][NextPublicApi]_vars

-----------------------------------------------------------------------------
TypeOK ==
    /\ surfaceCaptureCbMap \in [DOMAIN surfaceCaptureCbMap -> CaptureCallbacks]
    /\ DOMAIN surfaceCaptureCbMap \subseteq Nodes
    /\ captures \in Seq([node : Nodes, cb : CaptureCallbacks])
    /\ servicePending \cup answered \subseteq 1..Len(captures)
    /\ callback_ \in [Nodes -> BufferCallbacks \cup {Nullptr}]
    /\ alive \subseteq Nodes /\ bufferAvailableCbUIMap_ \subseteq Nodes
    /\ listeners \in [Nodes -> Nat]
    /\ screenStubs \in Seq(ScreenCallbacks)

\* Surface capture: once the service has answered an accepted capture, that
\* capture's own callback has been called exactly once with the answer, even
\* with several captures of one node and answers racing new requests on the
\* binder thread (surfaceCaptureCbMap_ is keyed by node id only).
CaptureAnsweredToCaller ==
    \A r \in answered :
        \E i \in 1..Len(captureDelivered) :
            /\ captureDelivered[i].req = r
            /\ captureDelivered[i].cb = captures[r].cb
            /\ \A j \in 1..Len(captureDelivered) : captureDelivered[j].req = r => j = i

\* Buffer available: however often SetBufferAvailableCallback is called on
\* a node, the service holds at most one listener for it, so each available
\* buffer runs the node's callback once.  Only UnregisterBufferAvailableListener
\* can break it, which no code in this tree calls: under SpecPublicApi TLC
\* finds it violated (Set, Unregister, Set).
ListenerRegisteredOnce ==
    \A id \in Nodes : listeners[id] <= 1

\* Buffer available: the surface node's lambda never calls an empty
\* callback_ (std::function::operator() on an empty function throws
\* std::bad_function_call, which nothing catches on the binder thread).
NoEmptyCallbackCalled == ~crashed

=============================================================================
