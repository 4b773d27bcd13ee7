--------------------------- MODULE VSyncDistributor ---------------------------
(***************************************************************************)
(* The VSyncDistributor of rosen/modules/composer/vsync/src/               *)
(* vsync_distributor.cpp: one distributor thread (ThreadMain) fans vsync   *)
(* events out to connections; clients call RequestNextVSync, SetVSyncRate, *)
(* SetHighPriorityVSyncRate, AddConnection and RemoveConnection; the       *)
(* hardware controller calls OnVSyncEvent; the destructor stops the thread.*)
(*                                                                         *)
(* Every region under mutex_ is one step.  The thread's loop is split      *)
(* where the code leaves the lock: the unlocked read of                    *)
(* vsyncThreadRunning_ (Loop), the locked collect (Collect), the waits on  *)
(* con_ (Wait, SoftWait) and the unlocked posts (Send).  A notify_all     *)
(* wakes a thread waiting on con_ in the same step as the notifier.        *)
(* Timestamps are abstracted to "an event is pending" (timestamp > 0) and  *)
(* vsyncCount to its value modulo CountMod, a multiple of every rate, so   *)
(* vsyncCount % rate is kept exactly.                                      *)
(***************************************************************************)
EXTENDS Integers, Sequences, SequencesExt

CONSTANTS
    Conns,            \* VSyncConnection objects
    Rates,            \* positive rates clients pass to SetVSyncRate / SetHighPriorityVSyncRate
    CountMod,         \* vsyncCount is kept modulo CountMod
    HasController,    \* controller_ != nullptr
    PostResults,      \* outcomes of LocalSocketPair::SendData the model allows
    TickWhilePending, \* the controller may call OnVSyncEvent before the last event was taken
    ReAddConnections  \* a client may add a connection again after it was removed

ASSUME /\ Rates \subseteq Nat \ {0}
       /\ CountMod \in Nat \ {0} /\ \A r \in Rates : CountMod % r = 0
       /\ PostResults \subseteq {"Ok", "Closed", "EAGAIN", "Other"}

VARIABLES
    connections,   \* connections_
    rate,          \* rate_ of each connection
    hpRate,        \* highPriorityRate_
    hpState,       \* highPriorityState_
    evTs,          \* event_.timestamp > 0
    evCount,       \* event_.vsyncCount % CountMod
    vsyncEnabled,  \* vsyncEnabled_
    running,       \* vsyncThreadRunning_
    tpc,           \* where the distributor thread is
    sendList,      \* ThreadMain's local conns still to post
    dpc,           \* the destructor: Alive, Notify, Joining, Gone
    added          \* client side: connections ever added

vars == <<connections, rate, hpRate, hpState, evTs, evCount, vsyncEnabled,
          running, tpc, sendList, dpc, added>>

-----------------------------------------------------------------------------
Connected(c) == c \in ToSet(connections)

(* CollectConnections (lines 224-251).  The effective rate is the high     *)
(* priority rate when it is set, else rate_.  A connection is taken as a   *)
(* one-shot (and rate_ reset to -1) when its effective rate is 0, or when  *)
(* a high priority rate is due while rate_ is 0; periodically when it is   *)
(* due and rate_ > 0.                                                      *)
EffectiveRate(c) == IF hpState[c] THEN hpRate[c] ELSE rate[c]

Due(c) == EffectiveRate(c) > 0 /\ evCount % EffectiveRate(c) = 0

OneShot(c) == EffectiveRate(c) = 0 \/ (Due(c) /\ rate[c] = 0)

Periodic(c) == Due(c) /\ rate[c] > 0

Wants(c) == OneShot(c) \/ Periodic(c)

(* Mutant: the SetVSyncRate branch forgets waitForVSync = true. *)
WaitForVSync_oneShotOnly == \E i \in DOMAIN connections : OneShot(connections[i])

WaitForVSync == \E i \in DOMAIN connections : Wants(connections[i])

(* EnableVSync (lines 199-206): only with a controller. *)
EnableVSync == vsyncEnabled' = (vsyncEnabled \/ HasController)

(* con_.notify_all(): a thread waiting on con_ returns from the wait.  A  *)
(* wait_for woken this way reports cv_status::timeout when its 16 ms are   *)
(* up by the time it has the lock back (SoftWoken, then SoftWake or        *)
(* SoftVSync): timing is not modelled, so either outcome may follow.       *)
Notify == tpc' = CASE tpc = "Wait" -> "Loop"
                   [] tpc = "SoftWait" -> "SoftWoken"
                   [] OTHER -> tpc

Init ==
    /\ connections = <<>>
    /\ rate = [c \in Conns |-> -1]
    /\ hpRate = [c \in Conns |-> 0]
    /\ hpState = [c \in Conns |-> FALSE]
    /\ evTs = FALSE
    /\ evCount = 0
    /\ vsyncEnabled = FALSE
    /\ running = TRUE
    /\ tpc = "Loop"
    /\ sendList = <<>>
    /\ dpc = "Alive"
    /\ added = {}

-----------------------------------------------------------------------------
(***************************************************************************)
(* The distributor thread, ThreadMain (lines 135-197).                     *)
(***************************************************************************)

(* while (vsyncThreadRunning_ == true), read without the lock (line 145). *)
ThreadLoop ==
    /\ tpc = "Loop"
    /\ tpc' = IF running THEN "Collect" ELSE "Done"
    /\ UNCHANGED <<connections, rate, hpRate, hpState, evTs, evCount,
                   vsyncEnabled, running, sendList, dpc, added>>

(* The locked block (lines 148-180): take and clear the event, collect the *)
(* connections, then: no event and a waiter, EnableVSync and wait_for      *)
(* 16 ms; no event and no waiter, wait (if still running); an event and no *)
(* waiter, loop (vsync is deliberately left enabled); else send.           *)
(* Mutant: con_.wait without the vsyncThreadRunning_ check of line 169. *)
ThreadCollect_noRunningCheck ==
    /\ tpc = "Collect"
    /\ evTs' = FALSE
    /\ rate' = IF evTs
               THEN [c \in Conns |-> IF Connected(c) /\ OneShot(c) THEN -1 ELSE rate[c]]
               ELSE rate
    /\ IF ~evTs
       THEN IF WaitForVSync /\ ~vsyncEnabled
            THEN /\ EnableVSync
                 /\ tpc' = "SoftWait"
            ELSE /\ tpc' = "Wait"
                 /\ UNCHANGED vsyncEnabled
       ELSE /\ tpc' = IF WaitForVSync THEN "Send" ELSE "Loop"
            /\ UNCHANGED vsyncEnabled
    /\ sendList' = IF evTs THEN SelectSeq(connections, Wants) ELSE <<>>
    /\ UNCHANGED <<connections, hpRate, hpState, evCount, running, dpc, added>>

ThreadCollect ==
    /\ tpc = "Collect"
    /\ evTs' = FALSE
    /\ rate' = IF evTs
               THEN [c \in Conns |-> IF Connected(c) /\ OneShot(c) THEN -1 ELSE rate[c]]
               ELSE rate
    /\ IF ~evTs
       THEN IF WaitForVSync /\ ~vsyncEnabled
            THEN /\ EnableVSync
                 /\ tpc' = "SoftWait"
            ELSE /\ tpc' = IF running THEN "Wait" ELSE "Loop"
                 /\ UNCHANGED vsyncEnabled
       ELSE /\ tpc' = IF WaitForVSync THEN "Send" ELSE "Loop"
            /\ UNCHANGED vsyncEnabled
    /\ sendList' = IF evTs THEN SelectSeq(connections, Wants) ELSE <<>>
    /\ UNCHANGED <<connections, hpRate, hpState, evCount, running, dpc, added>>

(* wait_for returns cv_status::timeout (lines 160-166): a software vsync  *)
(* event, after the full wait or after a late notify, in which case it     *)
(* overwrites the event the notifier stored and counts it a second time.   *)
SoftVSync ==
    /\ tpc \in {"SoftWait", "SoftWoken"}
    /\ tpc' = "Loop"
    /\ evTs' = TRUE
    /\ evCount' = (evCount + 1) % CountMod
    /\ UNCHANGED <<connections, rate, hpRate, hpState, vsyncEnabled, running, sendList, dpc, added>>

(* wait_for, woken by a notify, returns cv_status::no_timeout: back to    *)
(* the loop without an event of its own.                                   *)
SoftWake ==
    /\ tpc = "SoftWoken"
    /\ tpc' = "Loop"
    /\ UNCHANGED <<connections, rate, hpRate, hpState, evTs, evCount, vsyncEnabled,
                   running, sendList, dpc, added>>

(* PostEvent to the next collected connection, unlocked (lines 181-195).    *)
(* 0 or another error removes the connection (RemoveConnection, locked);   *)
(* EAGAIN re-arms a one-shot under the lock unless rate_ was set >= 0 since.*)
ThreadPost(result) ==
    LET c == Head(sendList) IN
    /\ tpc = "Send"
    /\ sendList' = Tail(sendList)
    /\ tpc' = IF Tail(sendList) = <<>> THEN "Loop" ELSE "Send"
    /\ connections' = IF result \in {"Closed", "Other"}
                      THEN SelectSeq(connections, LAMBDA x : x # c)
                      ELSE connections
    /\ rate' = IF result = "EAGAIN" /\ rate[c] < 0
               THEN [rate EXCEPT ![c] = 0] ELSE rate
    /\ UNCHANGED <<hpRate, hpState, evTs, evCount, vsyncEnabled, running, dpc, added>>

-----------------------------------------------------------------------------
(***************************************************************************)
(* Client calls, each one locked region.  VSyncConnection promotes its    *)
(* weak reference to the distributor first (lines 45-56, 73-83): once the *)
(* destructor runs the call fails with VSYNC_ERROR_NULLPTR.  A call that  *)
(* returns an error without a change is not a step.                       *)
(***************************************************************************)

(* AddConnection (lines 107-119): refuses a connection already present; *)
(* it does not notify the thread.                                        *)
(* Mutant: the find() for a connection already present is lost. *)
AddConnection_noFind(c) ==
    /\ dpc = "Alive"
    /\ ReAddConnections \/ c \notin added \/ Connected(c)
    /\ connections' = Append(connections, c)
    /\ added' = added \cup {c}
    /\ UNCHANGED <<rate, hpRate, hpState, evTs, evCount, vsyncEnabled, running,
                   tpc, sendList, dpc>>

AddConnection(c) ==
    /\ dpc = "Alive"
    /\ ~Connected(c)
    /\ ReAddConnections \/ c \notin added
    /\ connections' = Append(connections, c)
    /\ added' = added \cup {c}
    /\ UNCHANGED <<rate, hpRate, hpState, evTs, evCount, vsyncEnabled, running,
                   tpc, sendList, dpc>>

(* RemoveConnection (lines 121-133). *)
RemoveConnection(c) ==
    /\ dpc = "Alive"
    /\ Connected(c)
    /\ connections' = SelectSeq(connections, LAMBDA x : x # c)
    /\ UNCHANGED <<rate, hpRate, hpState, evTs, evCount, vsyncEnabled, running,
                   tpc, sendList, dpc, added>>

(* RequestNextVSync (lines 253-272): rate_ -1 becomes 0 and wakes the     *)
(* thread; a pending request or a periodic rate is left alone.            *)
(* Mutant: the request does not notify the thread. *)
RequestNextVSync_noNotify(c) ==
    /\ dpc = "Alive"
    /\ Connected(c)
    /\ rate[c] < 0
    /\ rate' = [rate EXCEPT ![c] = 0]
    /\ UNCHANGED <<connections, hpRate, hpState, evTs, evCount, vsyncEnabled,
                   running, tpc, sendList, dpc, added>>

RequestNextVSync(c) ==
    /\ dpc = "Alive"
    /\ Connected(c)
    /\ rate[c] < 0
    /\ rate' = [rate EXCEPT ![c] = 0]
    /\ Notify
    /\ UNCHANGED <<connections, hpRate, hpState, evTs, evCount, vsyncEnabled,
                   running, sendList, dpc, added>>

(* SetVSyncRate (lines 274-291): a positive rate different from rate_. *)
SetVSyncRate(c, r) ==
    /\ dpc = "Alive"
    /\ Connected(c)
    /\ rate[c] # r
    /\ rate' = [rate EXCEPT ![c] = r]
    /\ Notify
    /\ UNCHANGED <<connections, hpRate, hpState, evTs, evCount, vsyncEnabled,
                   running, sendList, dpc, added>>

(* SetHighPriorityVSyncRate (lines 293-313): there is no way back to the  *)
(* plain rate.                                                            *)
SetHighPriorityVSyncRate(c, r) ==
    /\ dpc = "Alive"
    /\ Connected(c)
    /\ hpRate[c] # r
    /\ hpRate' = [hpRate EXCEPT ![c] = r]
    /\ hpState' = [hpState EXCEPT ![c] = TRUE]
    /\ Notify
    /\ UNCHANGED <<connections, rate, evTs, evCount, vsyncEnabled, running,
                   sendList, dpc, added>>

(* Mutant: event_.vsyncCount++ is lost. *)
OnVSyncEvent_noCount ==
    /\ HasController /\ vsyncEnabled
    /\ dpc # "Gone"
    /\ TickWhilePending \/ ~evTs
    /\ evTs' = TRUE
    /\ Notify
    /\ UNCHANGED <<connections, rate, hpRate, hpState, evCount, vsyncEnabled, running, sendList, dpc, added>>

(* OnVSyncEvent (lines 216-222), called by the enabled controller. *)
OnVSyncEvent ==
    /\ HasController /\ vsyncEnabled
    /\ dpc # "Gone"
    /\ TickWhilePending \/ ~evTs
    /\ evTs' = TRUE
    /\ evCount' = (evCount + 1) % CountMod
    /\ Notify
    /\ UNCHANGED <<connections, rate, hpRate, hpState, vsyncEnabled, running, sendList, dpc, added>>

(* ~VSyncDistributor (lines 95-105): clear vsyncThreadRunning_ under the  *)
(* lock, then notify_all and join, outside it.                            *)
DestroyStop ==
    /\ dpc = "Alive"
    /\ running' = FALSE
    /\ dpc' = "Notify"
    /\ UNCHANGED <<connections, rate, hpRate, hpState, evTs, evCount, vsyncEnabled,
                   tpc, sendList, added>>

DestroyNotify ==
    /\ dpc = "Notify"
    /\ Notify
    /\ dpc' = "Joining"
    /\ UNCHANGED <<connections, rate, hpRate, hpState, evTs, evCount, vsyncEnabled,
                   running, sendList, added>>

DestroyJoined ==
    /\ dpc = "Joining"
    /\ tpc = "Done"
    /\ dpc' = "Gone"
    /\ UNCHANGED <<connections, rate, hpRate, hpState, evTs, evCount, vsyncEnabled,
                   running, tpc, sendList, added>>

-----------------------------------------------------------------------------
Next ==
    \/ ThreadLoop \/ ThreadCollect \/ SoftVSync \/ SoftWake
    \/ \E res \in PostResults : ThreadPost(res)
    \/ \E c \in Conns : AddConnection(c) \/ RemoveConnection(c) \/ RequestNextVSync(c)
    \/ \E c \in Conns, r \in Rates : SetVSyncRate(c, r) \/ SetHighPriorityVSyncRate(c, r)
    \/ OnVSyncEvent
    \/ DestroyStop \/ DestroyNotify \/ DestroyJoined

(* The distributor thread runs at real-time priority and every wait_for    *)
(* ends after 16 ms; the controller delivers a hardware vsync every frame  *)
(* while enabled; the destructor, once started, runs to its end.  Client   *)
(* calls are not assumed to happen.                                        *)
Fairness ==
    /\ WF_vars(ThreadLoop) /\ WF_vars(ThreadCollect)
    /\ WF_vars(SoftVSync) /\ WF_vars(SoftWake)
    /\ WF_vars(\E res \in PostResults : ThreadPost(res))
    /\ WF_vars(OnVSyncEvent)
    /\ WF_vars(DestroyNotify) /\ WF_vars(DestroyJoined)

Spec == Init /\ [][Next]_vars

FairSpec == Spec /\ Fairness

-----------------------------------------------------------------------------
(***************************************************************************)
(* Properties.                                                             *)
(***************************************************************************)

TypeOK ==
    /\ connections \in Seq(Conns) /\ IsInjective(connections)
    /\ rate \in [Conns -> {-1, 0} \cup Rates]
    /\ hpRate \in [Conns -> {0} \cup Rates]
    /\ hpState \in [Conns -> BOOLEAN]
    /\ evTs \in BOOLEAN /\ evCount \in 0..(CountMod - 1)
    /\ vsyncEnabled \in BOOLEAN /\ running \in BOOLEAN
    /\ tpc \in {"Loop", "Collect", "Wait", "SoftWait", "SoftWoken", "Send", "Done"}
    /\ sendList \in Seq(Conns)
    /\ dpc \in {"Alive", "Notify", "Joining", "Gone"}
    /\ added \subseteq Conns

(* The thread blocks in con_.wait() with no timeout (line 170) only when   *)
(* something will wake it: hardware vsync is on, or no connection wants a  *)
(* vsync (rate_ < 0).  ThreadMain decides between wait and the 16 ms       *)
(* software wait from waitForVSync, which CollectConnections computes from *)
(* the current vsyncCount: a rate that is not due now sends the thread to  *)
(* sleep; if no controller will ever tick, the request is never served.    *)
WaitOnlyWhenVSyncFlows ==
    tpc = "Wait" =>
        \/ HasController /\ vsyncEnabled
        \/ \A c \in ToSet(connections) : rate[c] < 0

(* A RequestNextVSync is served: a connected connection whose rate_ is 0   *)
(* is eventually collected for a vsync (rate_ back to -1), given a         *)
(* periodic rate, or removed, unless the distributor is destroyed.         *)
(* It needs ThreadMain to enable vsync or fall back to software vsync and   *)
(* EAGAIN to re-arm the request.                                            *)
RequestServed ==
    \A c \in Conns :
        (Connected(c) /\ rate[c] = 0) ~> (~Connected(c) \/ rate[c] # 0 \/ dpc # "Alive")

(* A periodic subscriber is served: a connection whose client set a rate  *)
(* with SetVSyncRate is collected for a vsync again and again, for as long *)
(* as it stays connected with that effective rate.  It rests on every      *)
(* tick being counted and taken: CollectConnections tests vsyncCount % rate *)
(* on the count the thread read, so a count that skips due values (an     *)
(* event overwritten before the thread took it, line 219, or counted twice *)
(* by a wait_for that reports a timeout after a notify) can pass a rate-2  *)
(* subscriber over; and EAGAIN must not turn it into a one-shot.           *)
PeriodicServed ==
    \A c \in Conns, r \in Rates :
        (Connected(c) /\ rate[c] > 0 /\ EffectiveRate(c) = r)
            ~> \/ tpc = "Send" /\ c \in ToSet(sendList)
               \/ ~Connected(c) \/ rate[c] <= 0 \/ EffectiveRate(c) # r \/ dpc # "Alive"

(* The destructor's join returns: once vsyncThreadRunning_ is cleared the  *)
(* thread leaves its loop, from wherever it was, even though it reads the  *)
(* flag outside the lock (line 145) and the notify is sent after the lock  *)
(* is dropped (line 102).                                                  *)
ShutdownCompletes == dpc = "Notify" ~> dpc = "Gone"

=============================================================================
