--------------------------- MODULE ScreenManager ---------------------------
(***************************************************************************)
(* RSScreenManager (render_service/core/screen_manager/rs_screen_manager.cpp)*)
(* keeps the registry of physical and virtual screens.                     *)
(*                                                                         *)
(*  - HDI threads queue hot-plug events (OnHotPlugEvent); the main thread  *)
(*    applies a whole batch under mutex_ (ProcessScreenHotPlugEvents) and  *)
(*    reports it to the registered screen-change callbacks.                *)
(*  - Binder threads of clients create and remove virtual screens, set     *)
(*    mirrors and register callbacks, each under mutex_, and set a virtual *)
(*    screen's surface WITHOUT the mutex (SetVirtualScreenSurface).        *)
(*                                                                         *)
(* A ScreenId is 64 bits.  It is kept as the pair <<high, low>> of its two *)
(* 32-bit halves, each read as a signed int32: a physical screen is        *)
(* <<0, output id>>, the n-th virtual screen is (n << 32) | 0xffffffff,    *)
(* i.e. <<n, -1>>, and INVALID_SCREEN_ID is all ones, <<-1, -1>>.           *)
(***************************************************************************)
EXTENDS Integers, Sequences, SequencesExt, FiniteSets

CONSTANTS
    Outputs,            \* ids of the HDI outputs (small naturals)
    Mipi,               \* the outputs whose interface type is DISP_INTF_MIPI
    Callbacks,          \* remote screen-change callback objects
    Surfaces,           \* producer surfaces (by unique id)
    Clients,            \* binder threads of clients
    MaxVirtualScreens,  \* bound on maxVirtualScreenNum_
    MaxHotplugs         \* bound on the hot-plug events the HDI delivers

ASSUME Mipi \subseteq Outputs /\ MaxVirtualScreens \in Nat /\ MaxHotplugs \in Nat

NoSurface == "nullptr"

PhysicalId(o) == <<0, o>>                       \* ToScreenId(output->GetScreenId())
VirtualId(n) == <<n, -1>>                       \* (maxVirtualScreenNum_ << 32) | 0xffffffff
INVALID_SCREEN_ID == <<-1, -1>>

PhysicalIds == {PhysicalId(o) : o \in Outputs}
VirtualIds == {VirtualId(n) : n \in 0..(MaxVirtualScreens - 1)}
ScreenIds == PhysicalIds \cup VirtualIds

\* An RSScreen, reduced to what the manager reads of it.
Screen == [virtual : BOOLEAN, mirror : ScreenIds \cup {INVALID_SCREEN_ID},
           surface : Surfaces \cup {NoSurface}]
HotPlugEvent == [output : Outputs, connected : BOOLEAN]

VARIABLES
    screens,                    \* screens_ : ScreenId -> RSScreen
    defaultScreenId,            \* defaultScreenId_
    pendingHotPlugEvents,       \* pendingHotPlugEvents_
    mipiCheckInFirstHotPlugEvent, \* mipiCheckInFirstHotPlugEvent_
    screenChangeCallbacks,      \* screenChangeCallbacks_
    maxVirtualScreenNum,        \* maxVirtualScreenNum_
    freeVirtualScreenIds,       \* freeVirtualScreenIds_ (a std::queue)
    told,                       \* per callback: the ids it was last told are CONNECTED
    plugged,                    \* per output: connected at the HDI
    hotplugs,                   \* hot-plug events delivered so far
    cpc,                        \* per client thread: Idle or inside SetVirtualScreenSurface
    carg                        \* per client thread: the arguments of that call

vars == <<screens, defaultScreenId, pendingHotPlugEvents, mipiCheckInFirstHotPlugEvent,
          screenChangeCallbacks, maxVirtualScreenNum, freeVirtualScreenIds, told,
          plugged, hotplugs, cpc, carg>>

-----------------------------------------------------------------------------
(* Helpers on a registry scr : ScreenId -> Screen.                         *)

Erase(scr, id) == [x \in DOMAIN scr \ {id} |-> scr[x]]
Put(scr, id, s) == [x \in DOMAIN scr \cup {id} |-> IF x = id THEN s ELSE scr[x]]
PhysicalScreens(scr) == {x \in DOMAIN scr : ~scr[x].virtual}

\* cb->OnScreenChanged(id, event) for every registered callback: the
\* remote side learns the event.
Tell(tld, id, connected) ==
    [cb \in Callbacks |->
        IF cb \in ToSet(screenChangeCallbacks)
        THEN IF connected THEN tld[cb] \cup {id} ELSE tld[cb] \ {id}
        ELSE tld[cb]]

\* HandleDefaultScreenDisConnectedLocked: the first physical screen, else
\* the first screen, else INVALID_SCREEN_ID.  "First" is the iteration
\* order of an unordered_map, so every candidate is possible.
HandleDefaultScreenDisConnectedLocked(scr) ==
    IF PhysicalScreens(scr) # {} THEN PhysicalScreens(scr)
    ELSE IF DOMAIN scr # {} THEN DOMAIN scr
    ELSE {INVALID_SCREEN_ID}

\* The state one event of a batch works on: the registry, the default id,
\* the MIPI flag, the callbacks' knowledge and connectedIds_.
ProcessScreenConnectedLocked(r, o) ==
    LET id == PhysicalId(o)
        tld == IF id \in DOMAIN r.scr THEN Tell(r.tld, id, FALSE) ELSE r.tld
        scr == Put(r.scr, id, [virtual |-> FALSE, mirror |-> INVALID_SCREEN_ID,
                               surface |-> NoSurface])
    IN  {[scr |-> scr, tld |-> tld,
          def |-> IF o \in Mipi
                  THEN IF ~r.mipi THEN id ELSE r.def
                  ELSE IF r.def = INVALID_SCREEN_ID THEN id ELSE r.def,
          mipi |-> r.mipi \/ o \in Mipi,
          ids |-> Append(r.ids, id)]}

ProcessScreenDisConnectedLocked_noErase(r, o) ==
    LET id == PhysicalId(o)
        tld == IF id \in DOMAIN r.scr THEN Tell(r.tld, id, FALSE) ELSE r.tld
        defs == IF id = r.def THEN HandleDefaultScreenDisConnectedLocked(r.scr)
                ELSE {r.def}
    IN  {[r EXCEPT !.tld = tld, !.def = d] : d \in defs}
ProcessScreenDisConnectedLocked(r, o) ==
    LET id == PhysicalId(o)
        scr == Erase(r.scr, id)
        tld == IF id \in DOMAIN r.scr THEN Tell(r.tld, id, FALSE) ELSE r.tld
        defs == IF id = r.def THEN HandleDefaultScreenDisConnectedLocked(scr)
                ELSE {r.def}
    IN  {[r EXCEPT !.scr = scr, !.tld = tld, !.def = d] : d \in defs}

\* The loop over pendingHotPlugEvents_, from every possible state rs.
RECURSIVE ApplyHotPlugEvents(_, _)
ApplyHotPlugEvents(rs, evs) ==
    IF evs = <<>> THEN rs
    ELSE ApplyHotPlugEvents(
            UNION {IF Head(evs).connected
                   THEN ProcessScreenConnectedLocked(r, Head(evs).output)
                   ELSE ProcessScreenDisConnectedLocked(r, Head(evs).output) : r \in rs},
            Tail(evs))

-----------------------------------------------------------------------------
Init ==
    /\ screens = [x \in {} |-> FALSE]
    /\ defaultScreenId = INVALID_SCREEN_ID
    /\ pendingHotPlugEvents = <<>>
    /\ mipiCheckInFirstHotPlugEvent = FALSE
    /\ screenChangeCallbacks = <<>>
    /\ maxVirtualScreenNum = 0
    /\ freeVirtualScreenIds = <<>>
    /\ told = [cb \in Callbacks |-> {}]
    /\ plugged = [o \in Outputs |-> FALSE]
    /\ hotplugs = 0
    /\ cpc = [t \in Clients |-> "Idle"]
    /\ carg = [t \in Clients |-> [id |-> INVALID_SCREEN_ID, surface |-> NoSurface]]

\* OnHotPlug / OnHotPlugEvent on an HDI thread: the HDI reports an output
\* as plugged or unplugged, alternately; the event is queued under mutex_
\* and the main thread is asked for a frame.
OnHotPlugEvent(o) ==
    /\ hotplugs < MaxHotplugs
    /\ plugged' = [plugged EXCEPT ![o] = ~@]
    /\ pendingHotPlugEvents' =
           Append(pendingHotPlugEvents, [output |-> o, connected |-> ~plugged[o]])
    /\ hotplugs' = hotplugs + 1
    /\ UNCHANGED <<screens, defaultScreenId, mipiCheckInFirstHotPlugEvent,
                   screenChangeCallbacks, maxVirtualScreenNum, freeVirtualScreenIds,
                   told, cpc, carg>>

\* ProcessScreenHotPlugEvents on the main thread, all under mutex_: apply
\* the batch, then report CONNECTED for every id in connectedIds_.
ProcessScreenHotPlugEvents ==
    LET r0 == [scr |-> screens, tld |-> told, def |-> defaultScreenId,
               mipi |-> mipiCheckInFirstHotPlugEvent, ids |-> <<>>]
    IN  \E r \in ApplyHotPlugEvents({r0}, pendingHotPlugEvents) :
          /\ screens' = r.scr
          /\ defaultScreenId' = r.def
          /\ told' = [cb \in Callbacks |->
                        IF cb \in ToSet(screenChangeCallbacks)
                        THEN r.tld[cb] \cup ToSet(r.ids) ELSE r.tld[cb]]
          /\ mipiCheckInFirstHotPlugEvent' = TRUE
          /\ pendingHotPlugEvents' = <<>>
          /\ UNCHANGED <<screenChangeCallbacks, maxVirtualScreenNum,
                         freeVirtualScreenIds, plugged, hotplugs, cpc, carg>>

-----------------------------------------------------------------------------
(* Calls of client binder threads.  All but SetVirtualScreenSurface hold   *)
(* mutex_ for their whole body and are one step each.                      *)

Idle(t) == cpc[t] = "Idle"

\* The ids a client passes to RemoveVirtualScreen: those of the virtual
\* screens created so far, live or already removed.
RemovableIds == {VirtualId(n) : n \in 0..(maxVirtualScreenNum - 1)}

\* Whether a virtual screen other than `except` already uses surface s.
SurfaceInUse(scr, s, except) ==
    \E x \in DOMAIN scr : scr[x].virtual /\ x # except /\ scr[x].surface = s

\* Mutant: a pre-increment of the counter.
GenerateVirtualScreenIdLocked_preIncrement ==
    IF freeVirtualScreenIds # <<>> THEN Head(freeVirtualScreenIds)
    ELSE VirtualId(maxVirtualScreenNum + 1)

\* GenerateVirtualScreenIdLocked: the oldest recycled id, else a new one.
GenerateVirtualScreenIdLocked ==
    IF freeVirtualScreenIds # <<>> THEN Head(freeVirtualScreenIds)
    ELSE VirtualId(maxVirtualScreenNum)

GeneratedIdsAfter ==
    IF freeVirtualScreenIds # <<>>
    THEN <<Tail(freeVirtualScreenIds), maxVirtualScreenNum>>
    ELSE <<freeVirtualScreenIds, maxVirtualScreenNum + 1>>

CreateVirtualScreen(t, surface, mirrorId) ==
    /\ Idle(t)
    /\ freeVirtualScreenIds = <<>> => maxVirtualScreenNum < MaxVirtualScreens
    /\ IF surface # NoSurface /\ SurfaceInUse(screens, surface, INVALID_SCREEN_ID)
       THEN UNCHANGED <<screens, freeVirtualScreenIds, maxVirtualScreenNum>>
       ELSE /\ screens' = Put(screens, GenerateVirtualScreenIdLocked,
                              [virtual |-> TRUE, mirror |-> mirrorId, surface |-> surface])
            /\ freeVirtualScreenIds' = GeneratedIdsAfter[1]
            /\ maxVirtualScreenNum' = GeneratedIdsAfter[2]
    /\ UNCHANGED <<defaultScreenId, pendingHotPlugEvents, mipiCheckInFirstHotPlugEvent,
                   screenChangeCallbacks, told, plugged, hotplugs, cpc, carg>>

\* The "Update other screens' mirrorId" loop of RemoveVirtualScreenLocked.
\* Its structured binding `auto &[id, screen]` shadows the parameter id, so
\* each screen's mirror is compared with that screen's OWN id.
ResetMirrors(scr, id) ==
    [x \in DOMAIN scr |->
        IF scr[x].mirror = x THEN [scr[x] EXCEPT !.mirror = INVALID_SCREEN_ID]
        ELSE scr[x]]

\* Mutant: no screens_.count(id) == 0 early return.
RemoveVirtualScreenLocked_noCountCheck(id) ==
    /\ screens' = ResetMirrors(Erase(screens, id), id)
    /\ freeVirtualScreenIds' = Append(freeVirtualScreenIds, id)

RemoveVirtualScreenLocked(id) ==
    /\ id \in DOMAIN screens
    /\ screens' = ResetMirrors(Erase(screens, id), id)
    /\ freeVirtualScreenIds' = Append(freeVirtualScreenIds, id)

RemoveVirtualScreen(t, id) ==
    /\ Idle(t)
    /\ \/ RemoveVirtualScreenLocked(id)
       \/ /\ id \notin DOMAIN screens
          /\ UNCHANGED <<screens, freeVirtualScreenIds>>
    /\ UNCHANGED <<defaultScreenId, pendingHotPlugEvents, mipiCheckInFirstHotPlugEvent,
                   screenChangeCallbacks, maxVirtualScreenNum, told, plugged, hotplugs,
                   cpc, carg>>

SetScreenMirror(t, id, toMirror) ==
    /\ Idle(t)
    /\ id \in DOMAIN screens
    /\ screens' = [screens EXCEPT ![id].mirror = toMirror]
    /\ UNCHANGED <<defaultScreenId, pendingHotPlugEvents, mipiCheckInFirstHotPlugEvent,
                   screenChangeCallbacks, maxVirtualScreenNum, freeVirtualScreenIds,
                   told, plugged, hotplugs, cpc, carg>>

SetDefaultScreenId(t, id) ==
    /\ Idle(t)
    /\ defaultScreenId' = id
    /\ UNCHANGED <<screens, pendingHotPlugEvents, mipiCheckInFirstHotPlugEvent,
                   screenChangeCallbacks, maxVirtualScreenNum, freeVirtualScreenIds,
                   told, plugged, hotplugs, cpc, carg>>

\* Mutant: the callback is registered without the replay of connected screens.
AddScreenChangeCallback_noReplay(t, cb) ==
    /\ Idle(t)
    /\ cb \notin ToSet(screenChangeCallbacks)
    /\ told' = [told EXCEPT ![cb] = {}]
    /\ screenChangeCallbacks' = Append(screenChangeCallbacks, cb)
    /\ UNCHANGED <<screens, defaultScreenId, pendingHotPlugEvents,
                   mipiCheckInFirstHotPlugEvent, maxVirtualScreenNum,
                   freeVirtualScreenIds, plugged, hotplugs, cpc, carg>>

\* AddScreenChangeCallback: report every physical screen as CONNECTED to
\* the new callback, then register it.  A callback is a fresh stub object,
\* so it knows nothing before.
AddScreenChangeCallback(t, cb) ==
    /\ Idle(t)
    /\ cb \notin ToSet(screenChangeCallbacks)
    /\ told' = [told EXCEPT ![cb] = PhysicalScreens(screens)]
    /\ screenChangeCallbacks' = Append(screenChangeCallbacks, cb)
    /\ UNCHANGED <<screens, defaultScreenId, pendingHotPlugEvents,
                   mipiCheckInFirstHotPlugEvent, maxVirtualScreenNum,
                   freeVirtualScreenIds, plugged, hotplugs, cpc, carg>>

RemoveScreenChangeCallback(t, cb) ==
    /\ Idle(t)
    /\ screenChangeCallbacks' = SelectSeq(screenChangeCallbacks, LAMBDA c : c # cb)
    /\ UNCHANGED <<screens, defaultScreenId, pendingHotPlugEvents,
                   mipiCheckInFirstHotPlugEvent, maxVirtualScreenNum,
                   freeVirtualScreenIds, told, plugged, hotplugs, cpc, carg>>

\* SetVirtualScreenSurface takes no lock.  Its uniqueness scan and its
\* screens_.at(id)->SetProducerSurface are two steps that other threads'
\* calls may come between.
SetVirtualScreenSurface(t, id, surface) ==
    /\ Idle(t)
    /\ ~SurfaceInUse(screens, surface, id)
    /\ cpc' = [cpc EXCEPT ![t] = "SetProducerSurface"]
    /\ carg' = [carg EXCEPT ![t] = [id |-> id, surface |-> surface]]
    /\ UNCHANGED <<screens, defaultScreenId, pendingHotPlugEvents,
                   mipiCheckInFirstHotPlugEvent, screenChangeCallbacks,
                   maxVirtualScreenNum, freeVirtualScreenIds, told, plugged, hotplugs>>

\* screens_.at(id) throws std::out_of_range when the screen has gone; the
\* exception is not caught and ends the thread's call for good.
SetProducerSurface(t) ==
    /\ cpc[t] = "SetProducerSurface"
    /\ IF carg[t].id \in DOMAIN screens
       THEN /\ screens' = [screens EXCEPT ![carg[t].id].surface = carg[t].surface]
            /\ cpc' = [cpc EXCEPT ![t] = "Idle"]
            /\ carg' = [carg EXCEPT ![t] = [id |-> INVALID_SCREEN_ID, surface |-> NoSurface]]
       ELSE /\ cpc' = [cpc EXCEPT ![t] = "Thrown"]
            /\ UNCHANGED <<screens, carg>>
    /\ UNCHANGED <<defaultScreenId, pendingHotPlugEvents, mipiCheckInFirstHotPlugEvent,
                   screenChangeCallbacks, maxVirtualScreenNum, freeVirtualScreenIds,
                   told, plugged, hotplugs>>

-----------------------------------------------------------------------------
Next ==
    \/ \E o \in Outputs : OnHotPlugEvent(o)
    \/ ProcessScreenHotPlugEvents
    \/ \E t \in Clients :
          \/ \E s \in Surfaces \cup {NoSurface}, m \in DOMAIN screens \cup {INVALID_SCREEN_ID} :
                CreateVirtualScreen(t, s, m)
          \/ \E id \in RemovableIds : RemoveVirtualScreen(t, id)
          \/ \E id \in DOMAIN screens, m \in DOMAIN screens \cup {INVALID_SCREEN_ID} :
                SetScreenMirror(t, id, m)
          \/ \E id \in DOMAIN screens : SetDefaultScreenId(t, id)
          \/ \E cb \in Callbacks : AddScreenChangeCallback(t, cb)
          \/ \E cb \in Callbacks : RemoveScreenChangeCallback(t, cb)
          \/ \E id \in DOMAIN screens, s \in Surfaces :
                screens[id].virtual /\ SetVirtualScreenSurface(t, id, s)
          \/ SetProducerSurface(t)

Spec == Init /\ [][Next]_vars

\* OnHotPlugEvent ends with RSMainThread::RequestNextVSync(), and the main
\* thread calls ProcessScreenHotPlugEvents on the frame that follows: a
\* queued batch is applied unless the main thread stops.
Fairness == WF_vars(ProcessScreenHotPlugEvents)

FairSpec == Spec /\ Fairness

-----------------------------------------------------------------------------
TypeOK ==
    /\ DOMAIN screens \subseteq ScreenIds
    /\ \A x \in DOMAIN screens : screens[x] \in Screen
    /\ defaultScreenId \in ScreenIds \cup {INVALID_SCREEN_ID}
    /\ pendingHotPlugEvents \in Seq(HotPlugEvent)
    /\ mipiCheckInFirstHotPlugEvent \in BOOLEAN
    /\ screenChangeCallbacks \in Seq(Callbacks)
    /\ maxVirtualScreenNum \in 0..MaxVirtualScreens
    /\ freeVirtualScreenIds \in Seq(ScreenIds)
    /\ told \in [Callbacks -> SUBSET ScreenIds]
    /\ plugged \in [Outputs -> BOOLEAN]
    /\ hotplugs \in 0..MaxHotplugs
    /\ cpc \in [Clients -> {"Idle", "SetProducerSurface", "Thrown"}]
    /\ carg \in [Clients -> [id : ScreenIds \cup {INVALID_SCREEN_ID},
                             surface : Surfaces \cup {NoSurface}]]

\* Every physical screen in screens_ has been reported CONNECTED to every
\* registered callback: by AddScreenChangeCallback's replay for screens
\* that came before the callback, by ProcessScreenHotPlugEvents' final
\* loop over connectedIds_ for the others.
CallbacksToldEveryScreen ==
    \A cb \in ToSet(screenChangeCallbacks) : PhysicalScreens(screens) \subseteq told[cb]

\* Conversely, a registered callback believes connected only screens that
\* are in screens_ (what a client of SetScreenChangeCallback relies on).
CallbacksToldOnlyScreens ==
    \A cb \in ToSet(screenChangeCallbacks) : told[cb] \subseteq PhysicalScreens(screens)

\* The recycled ids of freeVirtualScreenIds_ are distinct and none is the
\* id of a live screen, so GenerateVirtualScreenIdLocked never hands out
\* an id in use.
RecycledIdsUnused ==
    /\ IsInjective(freeVirtualScreenIds)
    /\ \A i \in DOMAIN freeVirtualScreenIds : freeVirtualScreenIds[i] \notin DOMAIN screens

\* No surface is the producer surface of two virtual screens, the rule
\* CreateVirtualScreen and SetVirtualScreenSurface check before using one.
\* It needs two binder threads to fail (SetVirtualScreenSurface scans and
\* stores without mutex_), so sm_main, with one, does not check it; with
\* Clients <- MC_TwoClients TLC finds it violated.
SurfaceUnique ==
    \A x, y \in DOMAIN screens :
        /\ x # y /\ screens[x].virtual /\ screens[y].virtual
        /\ screens[x].surface # NoSurface
        => screens[x].surface # screens[y].surface

\* No screen mirrors a virtual screen that has been removed: the loop of
\* RemoveVirtualScreenLocked ("Update other screens' mirrorId") resets them.
NoDanglingMirror ==
    \A x \in DOMAIN screens :
        screens[x].mirror \in VirtualIds => screens[x].mirror \in DOMAIN screens

\* Once the HDI stops reporting hot-plug events, screens_ comes to hold
\* exactly the outputs that are plugged, as physical screens, and keeps
\* them: every queued batch is applied, in the order its events came,
\* with every unplug erasing its screen, whatever the clients do meanwhile.
ScreensFollowHardware ==
    <>[](PhysicalScreens(screens) = {PhysicalId(o) : o \in {x \in Outputs : plugged[x]}})
=============================================================================
