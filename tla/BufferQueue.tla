----------------------------- MODULE BufferQueue -----------------------------
(***************************************************************************)
(* The BufferQueue of frameworks/surface/src/buffer_queue.cpp: a cache of  *)
(* graphics buffers shared by producer threads (RequestBuffer,             *)
(* CancelBuffer, FlushBuffer) and consumer threads (AcquireBuffer,         *)
(* ReleaseBuffer, AttachBuffer, DetachBuffer), all calls arriving on IPC   *)
(* threads of the consumer's process.                                      *)
(*                                                                         *)
(* Every method body that runs under mutex_ is one atomic step.  A method  *)
(* that drops the lock in the middle is split where the code drops it:     *)
(*   RequestBuffer  waits on waitReqCon_ (RequestBuffer / RequestWake),    *)
(*   FlushBuffer    checks under the lock, then DoFlushBuffer re-locks     *)
(*                  without checking again (FlushBuffer / FlushCommit),    *)
(*   ReleaseBuffer  checks, calls onBufferRelease unlocked, re-locks       *)
(*                  (ReleaseBuffer / ReleaseCommit / ReleaseByListener),   *)
(*   SetQueueSize   runs DeleteBuffers under the lock, then writes         *)
(*                  queueSize_ unlocked (SetQueueSize / SetQueueSizeAssign)*)
(* Buffer contents, fences, damage, timestamps and extra data are left     *)
(* out: no property here tells them apart.                                 *)
(***************************************************************************)
EXTENDS Naturals, Sequences, FiniteSets, SequencesExt, Functions

CONSTANTS
    Producers,          \* IPC threads calling the producer API
    Consumers,          \* threads calling the consumer API
    Configs,            \* BufferRequestConfig values producers request with
    AttachConfig,       \* the config AttachBuffer records (stride 8, timeout 0)
    NoConfig,           \* the zeroed config of a default-constructed element
    ExtBuffers,         \* sequence numbers of buffers allocated outside the queue
    MaxSeq,             \* bound: sequence numbers the queue may allocate are 1..MaxSeq
    MaxQueueSize,       \* SURFACE_MAX_QUEUE_SIZE, scaled down
    DefaultQueueSize,   \* queueSize_ of a fresh non-shared queue
    IsShared,           \* isShared_ of the queue
    NoThread,
    ListenerKinds,      \* the listener slots: listener_ and listenerClazz_
    \* Environment switches (the calls clients are allowed to make):
    DetachHeldByProducer,  \* a consumer may detach a buffer a producer holds
    AttachToFullQueue      \* a consumer may attach to a full queue

ASSUME /\ Producers \cap Consumers = {}
       /\ AttachConfig \notin Configs /\ NoConfig \notin Configs
       /\ ExtBuffers \cap (1..MaxSeq) = {}
       /\ DefaultQueueSize \in 1..MaxQueueSize
       /\ IsShared \in BOOLEAN

Threads == Producers \cup Consumers

Seqs == (1..MaxSeq) \cup ExtBuffers

BufferStates == {"Released", "Requested", "Flushed", "Acquired", "Attached"}


VARIABLES
    cache,            \* bufferQueueCache_: seq -> BufferElement
    freeList,         \* freeList_
    dirtyList,        \* dirtyList_
    deletingList,     \* deletingList_
    queueSize,        \* queueSize_
    listeners,        \* which of listener_ / listenerClazz_ are set
    releaseListener,  \* onBufferRelease is set
    nextSeq,          \* the sequence the next SurfaceBufferImpl gets
    lockHolder,       \* a thread that holds mutex_ across steps, or NoThread
    pc,               \* where each thread is inside a call
    arg,              \* the sequence (or size) the call in progress is about
    reqConfig,        \* the config of a RequestBuffer in progress
    held,             \* client side: the buffers each thread holds
    external,         \* buffers outside the queue that may be attached
    nullDeref         \* a null SurfaceBuffer was dereferenced

vars == <<cache, freeList, dirtyList, deletingList, queueSize, listeners,
          releaseListener, nextSeq, lockHolder, pc, arg, reqConfig, held,
          external, nullDeref>>

-----------------------------------------------------------------------------
(* A BufferElement.  buffer = FALSE is the element std::map::operator[]     *)
(* default-constructs for a missing key: null buffer, state 0 (RELEASED),   *)
(* isDeleting false.                                                        *)
Element(state, config) ==
    [state |-> state, isDeleting |-> FALSE, config |-> config, buffer |-> TRUE]

DefaultElement ==
    [state |-> "Released", isDeleting |-> FALSE, config |-> NoConfig, buffer |-> FALSE]

(* bufferQueueCache_[s] as an rvalue: operator[] on a missing key yields a  *)
(* default element (and inserts it, see Put).                               *)
At(s) == IF s \in DOMAIN cache THEN cache[s] ELSE DefaultElement

Put(c, s, e) == [x \in DOMAIN c \cup {s} |-> IF x = s THEN e ELSE c[x]]

Erase(c, s) == Restrict(c, DOMAIN c \ {s})

GetUsedSize == Cardinality(DOMAIN cache)

Locked == lockHolder = NoThread

-----------------------------------------------------------------------------
(* PopFromFreeList: the index in freeList of the buffer RequestBuffer       *)
(* takes, or 0.  A shared queue returns its one cached buffer without       *)
(* touching freeList (index -1); otherwise the first buffer whose config    *)
(* equals the request, else the head.                                       *)
(* Mutant: the isShared_ test is lost; the first cached buffer is taken   *)
(* whatever its state.                                                     *)
PopFromFreeList_anyCached(cfg) ==
    IF GetUsedSize > 0 THEN -1
    ELSE LET match == SelectInSeq(freeList, LAMBDA s : At(s).config = cfg)
         IN IF match # 0 THEN match ELSE IF freeList # <<>> THEN 1 ELSE 0

PopFromFreeList(cfg) ==
    IF IsShared /\ GetUsedSize > 0 THEN -1
    ELSE LET match == SelectInSeq(freeList, LAMBDA s : At(s).config = cfg)
         IN IF match # 0 THEN match ELSE IF freeList # <<>> THEN 1 ELSE 0

FirstCached == CHOOSE s \in DOMAIN cache : \A t \in DOMAIN cache : s <= t

PoppedSeq(i) == IF i = -1 THEN FirstCached ELSE freeList[i]

AfterPop(i) == IF i = -1 THEN freeList ELSE RemoveAt(freeList, i)

(* DeleteBuffers(count) on a cache c and lists: delete from the head of the *)
(* free list, then of the dirty list, then mark the first remaining cache   *)
(* entries (std::map order) isDeleting, counting each marked entry whether  *)
(* or not it was marked before.  Every deletion is DeleteBufferInCache,     *)
(* which appends the sequence to deletingList.                              *)
(* Mutant: DeleteBufferInCache lists the sequence but does not erase it.  *)
DeleteBuffers_noErase(count, c, fl, dl, del) ==
    LET nFree  == IF count <= 0 THEN 0 ELSE IF count < Len(fl) THEN count ELSE Len(fl)
        rest1  == count - nFree
        nDirty == IF rest1 <= 0 THEN 0 ELSE IF rest1 < Len(dl) THEN rest1 ELSE Len(dl)
        rest2  == rest1 - nDirty
        left   == DOMAIN c
        marked == {s \in left : rest2 > 0 /\ Cardinality({t \in left : t <= s}) <= rest2}
    IN [cache    |-> [s \in left |-> IF s \in marked
                                     THEN [c[s] EXCEPT !.isDeleting = TRUE] ELSE c[s]],
        free     |-> SubSeq(fl, nFree + 1, Len(fl)),
        dirty    |-> SubSeq(dl, nDirty + 1, Len(dl)),
        deleting |-> del \o SubSeq(fl, 1, nFree) \o SubSeq(dl, 1, nDirty)]

DeleteBuffers(count, c, fl, dl, del) ==
    LET nFree  == IF count <= 0 THEN 0 ELSE IF count < Len(fl) THEN count ELSE Len(fl)
        rest1  == count - nFree
        nDirty == IF rest1 <= 0 THEN 0 ELSE IF rest1 < Len(dl) THEN rest1 ELSE Len(dl)
        rest2  == rest1 - nDirty
        gone   == ToSet(SubSeq(fl, 1, nFree)) \cup ToSet(SubSeq(dl, 1, nDirty))
        left   == DOMAIN c \ gone
        marked == {s \in left : rest2 > 0 /\ Cardinality({t \in left : t <= s}) <= rest2}
    IN [cache    |-> [s \in left |-> IF s \in marked
                                     THEN [c[s] EXCEPT !.isDeleting = TRUE] ELSE c[s]],
        free     |-> SubSeq(fl, nFree + 1, Len(fl)),
        dirty    |-> SubSeq(dl, nDirty + 1, Len(dl)),
        deleting |-> del \o SubSeq(fl, 1, nFree) \o SubSeq(dl, 1, nDirty)]

-----------------------------------------------------------------------------
Init ==
    /\ cache = <<>>
    /\ freeList = <<>>
    /\ dirtyList = <<>>
    /\ deletingList = <<>>
    /\ queueSize = IF IsShared THEN 1 ELSE DefaultQueueSize
    /\ listeners = {}
    /\ releaseListener = FALSE
    /\ nextSeq = 1
    /\ lockHolder = NoThread
    /\ pc = [t \in Threads |-> "Idle"]
    /\ arg = [t \in Threads |-> 0]
    /\ reqConfig = [t \in Threads |-> NoConfig]
    /\ held = [t \in Threads |-> {}]
    /\ external = ExtBuffers
    /\ nullDeref = FALSE

Return(t) == /\ pc' = [pc EXCEPT ![t] = "Idle"]
             /\ arg' = [arg EXCEPT ![t] = 0]
             /\ reqConfig' = [reqConfig EXCEPT ![t] = NoConfig]

-----------------------------------------------------------------------------
(* AllocBuffer: a new SurfaceBufferImpl takes the next sequence even when   *)
(* Alloc or Map then fails; on success it enters the cache as Requested.    *)
(* The caller (RequestBuffer or ReuseBuffer) gets the new sequence, or     *)
(* nothing.  ok is the allocator's outcome.                                 *)
AllocBuffer(p, cfg, c, ok) ==
    IF nextSeq <= MaxSeq
    THEN /\ nextSeq' = nextSeq + 1
         /\ cache' = IF ok THEN Put(c, nextSeq, Element("Requested", cfg)) ELSE c
         /\ held' = IF ok THEN [held EXCEPT ![p] = @ \cup {nextSeq}] ELSE held
    ELSE \* past MaxSeq the model lets Alloc fail (lines 518-521)
         /\ ~ok
         /\ UNCHANGED <<nextSeq, held>>
         /\ cache' = c

(* ReuseBuffer, after PopFromFreeList took the buffer at index i.          *)
ReuseBuffer(p, cfg, i) ==
    LET s          == PoppedSeq(i)
        needRealloc == At(s).config # cfg
        drained    == [held EXCEPT ![p] = @ \cup {s}]
    IN /\ freeList' = AfterPop(i)
       /\ nullDeref' = (nullDeref \/ ~At(s).buffer)     \* retval.buffer->GetSeqNum()
       /\ IF needRealloc
          THEN IF IsShared
               THEN /\ UNCHANGED <<cache, deletingList, nextSeq, held>>  \* INVALID_ARGUMENTS
               ELSE \E ok \in BOOLEAN :
                      \* DeleteBufferInCache(s), AllocBuffer, drain deletingList_
                      /\ AllocBuffer(p, cfg, Erase(cache, s), ok)
                      /\ deletingList' = IF ok THEN <<>> ELSE Append(deletingList, s)
          ELSE /\ cache' = Put(cache, s, [At(s) EXCEPT !.state = "Requested"])
               /\ deletingList' = <<>>
               /\ held' = drained
               /\ UNCHANGED nextSeq

(* The part of RequestBuffer after the wait, or without one: reuse a free  *)
(* buffer, else fail with NO_BUFFER when the cache is full, else allocate. *)
TryRequest(p, cfg) ==
    LET i == PopFromFreeList(cfg) IN
    \/ /\ i # 0
       /\ ReuseBuffer(p, cfg, i)
    \/ /\ i = 0
       /\ GetUsedSize < queueSize
       /\ \E ok \in BOOLEAN : AllocBuffer(p, cfg, cache, ok)
       /\ UNCHANGED <<freeList, deletingList, nullDeref>>

-----------------------------------------------------------------------------
(***************************************************************************)
(* Producer operations.                                                    *)
(***************************************************************************)

(* RequestBuffer (lines 188-238).  With no consumer listener it returns     *)
(* NO_CONSUMER and changes nothing, and an invalid config is refused by     *)
(* CheckRequestConfig; neither is a step.  Otherwise, under the lock, it    *)
(* reuses or allocates a buffer, or waits on waitReqCon_ when the cache is  *)
(* full and no buffer is free.                                              *)
RequestBuffer(p, cfg) ==
    /\ pc[p] = "Idle"
    /\ Locked
    /\ listeners # {}
    /\ \/ /\ TryRequest(p, cfg)
          /\ Return(p)
       \/ /\ PopFromFreeList(cfg) = 0
          /\ GetUsedSize >= queueSize
          /\ pc' = [pc EXCEPT ![p] = "RequestWait"]
          /\ reqConfig' = [reqConfig EXCEPT ![p] = cfg]
          /\ UNCHANGED <<cache, freeList, deletingList, nextSeq, held, nullDeref, arg>>
    /\ UNCHANGED <<dirtyList, queueSize, listeners, releaseListener, lockHolder, external>>

(* The wait_for returns, on a notify that made its predicate true or on     *)
(* timeout; either way the request tries the free list again and returns    *)
(* NO_BUFFER if the cache is still full.                                    *)
RequestWake(p) ==
    /\ pc[p] = "RequestWait"
    /\ Locked
    /\ Return(p)
    /\ \/ TryRequest(p, reqConfig[p])
       \/ /\ PopFromFreeList(reqConfig[p]) = 0
          /\ GetUsedSize >= queueSize
          /\ UNCHANGED <<cache, freeList, deletingList, nextSeq, held, nullDeref>>
    /\ UNCHANGED <<dirtyList, queueSize, listeners, releaseListener, lockHolder, external>>

(* CancelBuffer (lines 287-312) of a buffer the producer holds.  A shared   *)
(* queue refuses every cancel (INVALID_OPERATING) without a change.         *)
CancelBuffer(p, s) ==
    /\ pc[p] = "Idle"
    /\ Locked
    /\ s \in held[p]
    /\ ~IsShared
    /\ held' = [held EXCEPT ![p] = @ \ {s}]
    /\ IF s \in DOMAIN cache /\ cache[s].state = "Requested"
       THEN /\ cache' = [cache EXCEPT ![s].state = "Released"]
            /\ freeList' = Append(freeList, s)
       ELSE UNCHANGED <<cache, freeList>>
    /\ UNCHANGED <<dirtyList, deletingList, queueSize, listeners, releaseListener,
                   nextSeq, lockHolder, pc, arg, reqConfig, external, nullDeref>>

(* FlushBuffer (lines 314-339): the check under the lock.  The producer     *)
(* hands the buffer over; an unknown sequence, or a state other than        *)
(* Requested/Attached on a non-shared queue, returns NO_ENTRY.              *)
FlushBuffer(p, s) ==
    /\ pc[p] = "Idle"
    /\ Locked
    /\ s \in held[p]
    /\ held' = [held EXCEPT ![p] = @ \ {s}]
    /\ IF /\ s \in DOMAIN cache
          /\ IsShared \/ cache[s].state \in {"Requested", "Attached"}
       THEN /\ pc' = [pc EXCEPT ![p] = "FlushCommit"]
            /\ arg' = [arg EXCEPT ![p] = s]
       ELSE UNCHANGED <<pc, arg>>
    /\ UNCHANGED <<cache, freeList, dirtyList, deletingList, queueSize, listeners,
                   releaseListener, nextSeq, lockHolder, reqConfig, external, nullDeref>>

(* The rest of FlushBuffer (lines 341-363), after the lock was dropped.     *)
(* With no listener it calls CancelBuffer.  Otherwise DoFlushBuffer        *)
(* (lines 391-430) re-locks and indexes bufferQueueCache_[sequence] without *)
(* looking the sequence up again: a buffer marked isDeleting is deleted;    *)
(* any other is Flushed and appended to dirtyList, then SetExtraData is     *)
(* called on its buffer.  (A failing FlushCache of a CPU-write buffer       *)
(* returns an error after the buffer is already queued, and only skips      *)
(* OnBufferAvailable, which is not modelled.)                               *)
FlushCommit(p) ==
    LET s == arg[p]
        e == At(s)
    IN
    /\ pc[p] = "FlushCommit"
    /\ Locked
    /\ Return(p)
    /\ IF listeners = {}
       THEN /\ IF ~IsShared /\ s \in DOMAIN cache /\ cache[s].state = "Requested"
               THEN /\ cache' = [cache EXCEPT ![s].state = "Released"]
                    /\ freeList' = Append(freeList, s)
               ELSE UNCHANGED <<cache, freeList>>
            /\ UNCHANGED <<dirtyList, deletingList, nullDeref>>
       ELSE IF e.isDeleting
       THEN /\ cache' = Erase(cache, s)
            /\ deletingList' = Append(deletingList, s)
            /\ UNCHANGED <<freeList, dirtyList, nullDeref>>
       ELSE /\ cache' = Put(cache, s, [e EXCEPT !.state = "Flushed"])
            /\ dirtyList' = Append(dirtyList, s)
            /\ nullDeref' = (nullDeref \/ ~e.buffer)
            /\ UNCHANGED <<freeList, deletingList>>
    /\ UNCHANGED <<queueSize, listeners, releaseListener, nextSeq, lockHolder,
                   held, external>>

-----------------------------------------------------------------------------
(***************************************************************************)
(* Consumer operations.                                                    *)
(***************************************************************************)

(* PopFromDirtyList: the buffer AcquireBuffer takes, the head of          *)
(* dirtyList, or on a shared queue the one cached buffer, left in place;   *)
(* 0 when there is none (NO_BUFFER).                                        *)
PopFromDirtyList ==
    IF IsShared /\ GetUsedSize > 0 THEN FirstCached
    ELSE IF dirtyList # <<>> THEN Head(dirtyList) ELSE 0

(* Mutant: PopFromDirtyList returns the head without erasing it. *)
DirtyListAfterPop_noPop == dirtyList

DirtyListAfterPop ==
    IF IsShared /\ GetUsedSize > 0 THEN dirtyList ELSE Tail(dirtyList)

(* AcquireBuffer (lines 432-459): under the lock, PopFromDirtyList and mark *)
(* the buffer Acquired.  NO_BUFFER is not a step.                           *)
AcquireBuffer(c) ==
    LET s == PopFromDirtyList IN
    /\ pc[c] = "Idle"
    /\ Locked
    /\ s # 0
    /\ dirtyList' = DirtyListAfterPop
    /\ cache' = [cache EXCEPT ![s].state = "Acquired"]
    /\ nullDeref' = (nullDeref \/ ~cache[s].buffer)     \* buffer->GetSeqNum()
    /\ held' = [held EXCEPT ![c] = @ \cup {s}]
    /\ UNCHANGED <<freeList, deletingList, queueSize, listeners, releaseListener,
                   nextSeq, lockHolder, pc, arg, reqConfig, external>>

(* ReleaseBuffer (lines 461-484): the check under the lock.  The consumer   *)
(* gives the buffer back; an unknown sequence, or a state other than        *)
(* Acquired/Attached on a non-shared queue, returns NO_ENTRY.               *)
ReleaseBuffer(c, s) ==
    /\ pc[c] = "Idle"
    /\ Locked
    /\ s \in held[c]
    /\ held' = [held EXCEPT ![c] = @ \ {s}]
    /\ IF /\ s \in DOMAIN cache
          /\ IsShared \/ cache[s].state \in {"Acquired", "Attached"}
       THEN /\ pc' = [pc EXCEPT ![c] = "ReleaseCommit"]
            /\ arg' = [arg EXCEPT ![c] = s]
       ELSE UNCHANGED <<pc, arg>>
    /\ UNCHANGED <<cache, freeList, dirtyList, deletingList, queueSize, listeners,
                   releaseListener, nextSeq, lockHolder, reqConfig, external, nullDeref>>

(* onBufferRelease is set and returns GSERROR_OK (lines 486-493): the call *)
(* returns and the queue leaves the buffer as it is.                        *)
ReleaseByListener(c) ==
    /\ pc[c] = "ReleaseCommit"
    /\ releaseListener
    /\ Return(c)
    /\ UNCHANGED <<cache, freeList, dirtyList, deletingList, queueSize, listeners,
                   releaseListener, nextSeq, lockHolder, held, external, nullDeref>>

(* No release listener, or it failed (lines 495-508): re-lock and, without  *)
(* looking the sequence up again, mark the element Released and delete it   *)
(* if isDeleting, else append it to freeList.                               *)
(* Mutant: the released buffer is not appended to freeList. *)
ReleaseCommit_noFreePush(c) ==
    LET s == arg[c]
        e == [At(s) EXCEPT !.state = "Released"]
    IN
    /\ pc[c] = "ReleaseCommit"
    /\ Locked
    /\ Return(c)
    /\ IF e.isDeleting
       THEN /\ cache' = Erase(cache, s)
            /\ deletingList' = Append(deletingList, s)
       ELSE /\ cache' = Put(cache, s, e)
            /\ UNCHANGED deletingList
    /\ UNCHANGED <<freeList, dirtyList, queueSize, listeners, releaseListener, nextSeq,
                   lockHolder, held, external, nullDeref>>

ReleaseCommit(c) ==
    LET s == arg[c]
        e == [At(s) EXCEPT !.state = "Released"]
    IN
    /\ pc[c] = "ReleaseCommit"
    /\ Locked
    /\ Return(c)
    /\ IF e.isDeleting
       THEN /\ cache' = Erase(cache, s)
            /\ deletingList' = Append(deletingList, s)
            /\ UNCHANGED freeList
       ELSE /\ cache' = Put(cache, s, e)
            /\ freeList' = Append(freeList, s)
            /\ UNCHANGED deletingList
    /\ UNCHANGED <<dirtyList, queueSize, listeners, releaseListener, nextSeq,
                   lockHolder, held, external, nullDeref>>

(* The buffers a consumer may pass to DetachBuffer: those it holds and,    *)
(* when the environment allows it, those the producer has requested.        *)
Detachable(c) ==
    held[c] \cup (IF DetachHeldByProducer
                  THEN {s \in DOMAIN cache : cache[s].state = "Requested"}
                  ELSE {})

(* DetachBuffer (lines 645-675): a Requested or Acquired buffer leaves the  *)
(* cache (onBufferDelete is called, deletingList_ is not touched); other    *)
(* states and unknown sequences return NO_ENTRY.  Refused on a shared queue.*)
DetachBuffer(c, s) ==
    /\ pc[c] = "Idle"
    /\ Locked
    /\ ~IsShared
    /\ s \in Detachable(c)
    /\ IF s \in DOMAIN cache /\ cache[s].state \in {"Requested", "Acquired"}
       THEN /\ cache' = Erase(cache, s)
            /\ held' = [held EXCEPT ![c] = @ \ {s}]
            /\ external' = external \cup {s}
       ELSE UNCHANGED <<cache, held, external>>
    /\ UNCHANGED <<freeList, dirtyList, deletingList, queueSize, listeners,
                   releaseListener, nextSeq, lockHolder, pc, arg, reqConfig, nullDeref>>

(* AttachBuffer (lines 596-643) of a buffer from outside the queue, under   *)
(* the lock.  With room it enters the cache as Attached, held by the        *)
(* consumer.  On a full queue with enough free and dirty buffers it calls   *)
(* DeleteBuffers, which locks mutex_ again while this thread holds it: the  *)
(* thread blocks for ever holding the lock.  Otherwise OUT_OF_RANGE, no     *)
(* step.  Refused on a shared queue.                                        *)
AttachBuffer(c, s) ==
    /\ pc[c] = "Idle"
    /\ Locked
    /\ ~IsShared
    /\ s \in external
    /\ IF GetUsedSize < queueSize
       THEN /\ cache' = Put(cache, s, Element("Attached", AttachConfig))
            /\ external' = external \ {s}
            /\ held' = [held EXCEPT ![c] = @ \cup {s}]
            /\ UNCHANGED <<lockHolder, pc, arg>>
       ELSE /\ AttachToFullQueue
            /\ Len(freeList) + Len(dirtyList) >= GetUsedSize - queueSize + 1
            /\ lockHolder' = c
            /\ pc' = [pc EXCEPT ![c] = "AttachDeleteBuffers"]
            /\ arg' = [arg EXCEPT ![c] = s]
            /\ UNCHANGED <<cache, external, held>>
    /\ UNCHANGED <<freeList, dirtyList, deletingList, queueSize, listeners,
                   releaseListener, nextSeq, reqConfig, nullDeref>>

-----------------------------------------------------------------------------
(***************************************************************************)
(* Configuration calls.                                                    *)
(***************************************************************************)

(* SetQueueSize (lines 677-700), first part: a shared queue accepts only 1, *)
(* and a size of 0 or above SURFACE_MAX_QUEUE_SIZE is refused;              *)
(* DeleteBuffers(queueSize_ - n) (lines 560-594) runs under the lock.  The  *)
(* uint32 difference of a growing size wraps to a negative int32 count and  *)
(* deletes nothing, as the integer difference does here.                    *)
(* Mutant: the upper bound check against SURFACE_MAX_QUEUE_SIZE is lost. *)
SetQueueSize_noMaxCheck(t, n) ==
    LET r == DeleteBuffers(queueSize - n, cache, freeList, dirtyList, deletingList)
    IN
    /\ pc[t] = "Idle"
    /\ Locked
    /\ ~IsShared \/ n = 1
    /\ n > 0
    /\ cache' = r.cache
    /\ freeList' = r.free
    /\ dirtyList' = r.dirty
    /\ deletingList' = r.deleting
    /\ pc' = [pc EXCEPT ![t] = "SetQueueSizeAssign"]
    /\ arg' = [arg EXCEPT ![t] = n]
    /\ UNCHANGED <<queueSize, listeners, releaseListener, nextSeq, lockHolder,
                   reqConfig, held, external, nullDeref>>

SetQueueSize(t, n) ==
    LET r == DeleteBuffers(queueSize - n, cache, freeList, dirtyList, deletingList)
    IN
    /\ pc[t] = "Idle"
    /\ Locked
    /\ ~IsShared \/ n = 1
    /\ n > 0
    /\ n <= MaxQueueSize
    /\ cache' = r.cache
    /\ freeList' = r.free
    /\ dirtyList' = r.dirty
    /\ deletingList' = r.deleting
    /\ pc' = [pc EXCEPT ![t] = "SetQueueSizeAssign"]
    /\ arg' = [arg EXCEPT ![t] = n]
    /\ UNCHANGED <<queueSize, listeners, releaseListener, nextSeq, lockHolder,
                   reqConfig, held, external, nullDeref>>

(* SetQueueSize, second part: queueSize_ = n, outside the lock. *)
SetQueueSizeAssign(t) ==
    /\ pc[t] = "SetQueueSizeAssign"
    /\ queueSize' = arg[t]
    /\ Return(t)
    /\ UNCHANGED <<cache, freeList, dirtyList, deletingList, listeners,
                   releaseListener, nextSeq, lockHolder, held, external, nullDeref>>

(* RegisterConsumerListener (both overloads) and UnregisterConsumerListener *)
(* (lines 708-725), unlocked writes of listener_ / listenerClazz_.          *)
RegisterConsumerListener(c, k) ==
    /\ pc[c] = "Idle"
    /\ listeners' = listeners \cup {k}
    /\ UNCHANGED <<cache, freeList, dirtyList, deletingList, queueSize, releaseListener,
                   nextSeq, lockHolder, pc, arg, reqConfig, held, external, nullDeref>>

UnregisterConsumerListener(c) ==
    /\ pc[c] = "Idle"
    /\ listeners' = {}
    /\ UNCHANGED <<cache, freeList, dirtyList, deletingList, queueSize, releaseListener,
                   nextSeq, lockHolder, pc, arg, reqConfig, held, external, nullDeref>>

(* RegisterReleaseListener (lines 727-731): set, or clear with nullptr. *)
RegisterReleaseListener(c, set) ==
    /\ pc[c] = "Idle"
    /\ releaseListener' = set
    /\ UNCHANGED <<cache, freeList, dirtyList, deletingList, queueSize, listeners,
                   nextSeq, lockHolder, pc, arg, reqConfig, held, external, nullDeref>>

-----------------------------------------------------------------------------
Next ==
    \/ \E p \in Producers, cfg \in Configs : RequestBuffer(p, cfg)
    \/ \E p \in Producers : RequestWake(p)
    \/ \E p \in Producers, s \in Seqs : CancelBuffer(p, s)
    \/ \E p \in Producers, s \in Seqs : FlushBuffer(p, s)
    \/ \E p \in Producers : FlushCommit(p)
    \/ \E c \in Consumers : AcquireBuffer(c)
    \/ \E c \in Consumers, s \in Seqs : ReleaseBuffer(c, s)
    \/ \E c \in Consumers : ReleaseByListener(c)
    \/ \E c \in Consumers : ReleaseCommit(c)
    \/ \E c \in Consumers, s \in Seqs : DetachBuffer(c, s)
    \/ \E c \in Consumers, s \in Seqs : AttachBuffer(c, s)
    \/ \E t \in Threads, n \in 0..(MaxQueueSize + 1) : SetQueueSize(t, n)
    \/ \E t \in Threads : SetQueueSizeAssign(t)
    \/ \E c \in Consumers, k \in ListenerKinds : RegisterConsumerListener(c, k)
    \/ \E c \in Consumers : UnregisterConsumerListener(c)
    \/ \E c \in Consumers, b \in BOOLEAN : RegisterReleaseListener(c, b)

(* A thread inside a call keeps running: the steps that finish a call are   *)
(* weakly fair (the wait in RequestBuffer ends at the latest on timeout).   *)
Fairness ==
    /\ \A p \in Producers : WF_vars(RequestWake(p)) /\ WF_vars(FlushCommit(p))
    /\ \A c \in Consumers : WF_vars(ReleaseCommit(c) \/ ReleaseByListener(c))
    /\ \A t \in Threads : WF_vars(SetQueueSizeAssign(t))

Spec == Init /\ [][Next]_vars

FairSpec == Spec /\ Fairness

-----------------------------------------------------------------------------
(***************************************************************************)
(* Properties.                                                             *)
(***************************************************************************)

PCs == {"Idle", "RequestWait", "FlushCommit", "ReleaseCommit",
        "SetQueueSizeAssign", "AttachDeleteBuffers"}

Element_t == [state : BufferStates, isDeleting : BOOLEAN,
              config : Configs \cup {AttachConfig, NoConfig}, buffer : BOOLEAN]

TypeOK ==
    /\ DOMAIN cache \subseteq Seqs
    /\ \A s \in DOMAIN cache : cache[s] \in Element_t
    /\ freeList \in Seq(Seqs) /\ dirtyList \in Seq(Seqs) /\ deletingList \in Seq(Seqs)
    /\ queueSize \in 1..MaxQueueSize
    /\ listeners \subseteq ListenerKinds
    /\ releaseListener \in BOOLEAN
    /\ nextSeq \in 1..(MaxSeq + 1)
    /\ lockHolder \in Threads \cup {NoThread}
    /\ pc \in [Threads -> PCs]
    /\ arg \in [Threads -> Seqs \cup (0..MaxQueueSize)]
    /\ reqConfig \in [Threads -> Configs \cup {NoConfig}]
    /\ held \in [Threads -> SUBSET Seqs]
    /\ external \subseteq Seqs
    /\ nullDeref \in BOOLEAN

(* The free and dirty lists and the buffer states agree (spec.md 3.6.1 and *)
(* 8.2-3): no sequence is listed twice or in both lists, every listed       *)
(* buffer is cached, a buffer is in freeList exactly when it is Released    *)
(* and in dirtyList exactly when it is Flushed.  Request, Cancel, Flush,    *)
(* Acquire, Release and DeleteBuffers each move a buffer between a list and *)
(* a state in separate statements; a missing push or pop, or a race        *)
(* between two of them, breaks it.                                          *)
FreeDirtyListsConsistent ==
    /\ IsInjective(freeList \o dirtyList)
    /\ ToSet(freeList) = {s \in DOMAIN cache : cache[s].state = "Released"}
    /\ ToSet(dirtyList) = {s \in DOMAIN cache : cache[s].state = "Flushed"}

(* Every sequence is listed at most once in freeList and dirtyList together*)
(* (spec.md 3.6.1), whatever the queue's mode.                              *)
SequenceListedOnce == IsInjective(freeList \o dirtyList)

(* A buffer has one owner at a time.  A buffer a producer holds (from       *)
(* RequestBuffer) is Requested, one a consumer holds (from AcquireBuffer or *)
(* AttachBuffer) is Acquired or Attached, no two threads hold the same     *)
(* buffer, and no held buffer is in freeList or dirtyList, where another    *)
(* thread could take it.                                                    *)
ExclusiveOwnership ==
    /\ \A t, u \in Threads : t # u => held[t] \cap held[u] = {}
    /\ \A t \in Threads : held[t] \cap (ToSet(freeList) \cup ToSet(dirtyList)) = {}
    /\ \A p \in Producers : \A s \in held[p] \cap DOMAIN cache :
           cache[s].state = "Requested"
    /\ \A c \in Consumers : \A s \in held[c] \cap DOMAIN cache :
           cache[s].state \in {"Acquired", "Attached"}

(* The queue implements the buffer life cycle of spec.md 4.1: every step    *)
(* moves each buffer along an edge of the state diagram.                    *)
BufferState == [s \in Seqs |-> IF s \in DOMAIN cache THEN cache[s].state ELSE "Absent"]

Lifecycle == INSTANCE BufferLifecycle WITH st <- BufferState

LifecycleRefinement == Lifecycle!Spec

(* No cache element ever has a null buffer and no null buffer is           *)
(* dereferenced: DoFlushBuffer and ReleaseBuffer index bufferQueueCache_    *)
(* after dropping and re-taking the lock, so a buffer removed in between is *)
(* re-created empty by std::map::operator[].                                *)
NoNullBuffer ==
    /\ ~nullDeref
    /\ \A s \in DOMAIN cache : cache[s].buffer

(* RequestBuffer hands deletingList_ to the producer as deletingBuffers    *)
(* (lines 269-271, spec.md 4.3 step 5) so that it drops its handles of      *)
(* those buffers.  A sequence listed there has left the cache, no thread    *)
(* holds it, and it cannot be attached back: DeleteBuffers, DoFlushBuffer   *)
(* and ReleaseBuffer delete a buffer only once its owner gave it back, and  *)
(* each deletion erases the cache entry it lists.                           *)
DeletingOnlyDropped ==
    \A s \in ToSet(deletingList) :
        /\ s \notin DOMAIN cache \cup external
        /\ \A t \in Threads : s \notin held[t]

(* The queue holds no more live buffers (not marked isDeleting) than       *)
(* queueSize (spec.md 3.6.2 and 4.4): SetQueueSize deletes or marks enough  *)
(* buffers that the cache shrinks to the new size as they come back.        *)
QueueSizeRespected ==
    Cardinality({s \in DOMAIN cache : ~cache[s].isDeleting}) <= queueSize

(* Every call into the queue returns. *)
EveryCallReturns == \A t \in Threads : pc[t] # "Idle" ~> pc[t] = "Idle"
=============================================================================
