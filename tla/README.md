# TLA+ models of the graphic_standard pipeline

These modules model the stateful parts of this repository: the two concurrent
cores described in `spec.md`, the screen registry, the implicit animator, the
draw command list's marshalling, the window animation IPC, and the render
service client's callback maps:

- **BufferQueue** (`src/frameworks/surface/src/buffer_queue.cpp`) is a cache of
  graphics buffers. Producer threads request, cancel and flush buffers;
  consumer threads acquire, release, attach and detach them. Everything is
  serialized by one mutex, which some calls drop in the middle.
- **VSyncDistributor** (`src/rosen/modules/composer/vsync/src/vsync_distributor.cpp`)
  is one real-time thread that fans vsync events out to connections. Clients
  set rates and request one-shot events, the hardware controller calls
  `OnVSyncEvent`, and a 16 ms software wait stands in when no event comes.

- **ScreenManager** (`src/rosen/modules/render_service/core/screen_manager/rs_screen_manager.cpp`)
  is the registry of physical and virtual screens. HDI threads queue
  hot-plug events, the main thread applies them in batches and reports them to
  screen-change callbacks, and client binder threads create and remove virtual
  screens.
- **DrawCmdList** (`src/rosen/modules/render_service_base/src/pipeline/rs_draw_cmd_list.cpp`,
  `include/pipeline/rs_draw_cmd.h`) is the list of draw ops a client records
  and sends to the render service in a parcel, and rebuilds there. The
  render service draws the rebuilt list into its node's frame with
  `RSPropertiesPainter::DrawFrame`
  (`src/rosen/modules/render_service_base/src/property/rs_properties_painter.cpp`),
  which fits the list's size into the frame as the frame gravity says.
- **Window animation IPC** (`src/rosen/modules/animation/window_animation/`)
  is the proxy through which the window manager asks the animating process to
  animate a window, and the stub that dispatches those requests.
- **Render service client**
  (`src/rosen/modules/render_service_base/src/platform/ohos/rs_render_service_client.cpp`,
  with `render_service_client/core/ui/rs_surface_node.cpp`) keeps the
  callbacks a UI process hands to the render service: surface captures
  waiting for an answer, buffer-available listeners of surface nodes, and
  screen-change callbacks. Answers come back on binder threads.

The parts do not call each other directly. A client paces its producer with
vsync and a virtual screen renders into a producer surface, but those links run
through code outside this repository, so each part is modelled on its own.

## Inventory

| Part | State | Operations | Hard behaviour |
|---|---|---|---|
| BufferQueue | cache (seq → state, isDeleting, config), freeList, dirtyList, deletingList, queueSize, listeners | RequestBuffer (reuse, realloc, allocate, timed wait), CancelBuffer, FlushBuffer + DoFlushBuffer, AcquireBuffer, ReleaseBuffer (+ onBufferRelease), AttachBuffer, DetachBuffer, SetQueueSize + DeleteBuffers, listener registration | check, unlock, re-lock without recheck; `operator[]` re-creating missing entries; self-deadlock; unlocked `queueSize_` write; shared mode |
| ScreenManager | screens_ (id → virtual, mirror, surface), defaultScreenId_, pendingHotPlugEvents_, mipiCheckInFirstHotPlugEvent_, screenChangeCallbacks_, maxVirtualScreenNum_, freeVirtualScreenIds_ | OnHotPlugEvent, ProcessScreenHotPlugEvents, CreateVirtualScreen, RemoveVirtualScreen, SetVirtualScreenSurface, SetScreenMirror, SetDefaultScreenId, Add/RemoveScreenChangeCallback | batched events reported out of order, id recycling, a shadowed loop variable, an unlocked check-then-set |
| ImplicitAnimator | globalImplicitParams_, implicitAnimationParams_, implicitAnimations_, keyframeAnimations_ (four stacks), the animations made | Open/CloseImplicitAnimation, Begin/End of curve, keyframe, path and transition params, CreateImplicitAnimation, CreateImplicitTransition, CreateEmptyAnimation | misnested calls, a Close that pops only a matching param, keyframe animations started late on nodes that may be gone |
| DrawCmdList | width_, height_, ops_, the parcel, the list rebuilt from it | AddOp, ClearOp, Marshalling, Unmarshalling, opUnmarshallingFuncLUT | op classes without an Unmarshalling or with the base GetType(), a parcel filling up midway, a size read back and trusted |
| Window animation IPC | the calls made, the one-way binder queue, the controller calls delivered, the rejected requests | OnStartApp, OnAppTransition, OnMinimizeWindow, OnCloseWindow, OnScreenUnlock (proxy), OnRemoteRequest and its five handlers (stub) | requests lost with only a log line, write order against read order, null targets rejected where no one reads the error |
| Render service client | surfaceCaptureCbMap_, bufferAvailableCbUIMap_, the listeners the service holds per node, each surface node's callback_ and liveness, screen-change stubs | TakeSurfaceCapture, TriggerSurfaceCaptureCallback (director), Register/UnregisterBufferAvailableListener, CustomBufferAvailableCallback, SetScreenChangeCallback, RSSurfaceNode::SetBufferAvailableCallback and destructor | answers racing new requests of the same node, unregistering that the service never hears of, an unanswered capture blocking the node, an empty `std::function` called |
| VSyncDistributor | connections_, rate_/highPriorityRate_/highPriorityState_ per connection, event_ (timestamp, vsyncCount), vsyncEnabled_, vsyncThreadRunning_ | ThreadMain loop, AddConnection, RemoveConnection, RequestNextVSync, SetVSyncRate, SetHighPriorityVSyncRate, OnVSyncEvent, destructor | untimed wait vs. software vsync, lost wake-ups, unlocked running flag, socket errors and EAGAIN re-arming |

The other parts of `src/` are listed in `PROJECT.json` with their status:

- screen manager: the per-screen setters and getters, which forward to
  `RSScreen`;
- the render service client's forwarding calls and the connect hub;
- property accessors of the animation module;
- the per-op payload marshalling of the draw ops;
- render nodes;
- the painter's drawing calls other than `DrawFrame`;
- tests.

## Modules

### `BufferLifecycle.tla`: abstract buffer life cycle

This module is the state diagram of spec.md 4.1. Each sequence number is
`Absent` or in one of the five buffer states. A step moves any set of buffers
along the diagram's edges. It is the abstract specification that BufferQueue
implements.

### `BufferQueue.tla`: the queue

- **Variables.** One variable per member of `BufferQueue`. A cache element is
  a record with a `buffer` flag: `FALSE` is the null buffer of an element that
  `std::map::operator[]` default-constructs. The module also keeps per-thread
  state:
  - `pc`, where a call is suspended;
  - `arg` and `reqConfig`, the arguments of that call;
  - `held`, the buffers a thread holds on the client side.
- **Actions.** A call is one action when it runs entirely under `mutex_`. A
  call is split where the code drops the lock:
  - `RequestBuffer` / `RequestWake`: the `wait_for` on `waitReqCon_`, which
    ends at the latest on timeout;
  - `FlushBuffer` / `FlushCommit`: the check, then `DoFlushBuffer` after
    re-locking;
  - `ReleaseBuffer` / `ReleaseByListener` / `ReleaseCommit`: the
    `onBufferRelease` callback runs unlocked;
  - `SetQueueSize` / `SetQueueSizeAssign`: `DeleteBuffers` runs locked, then
    `queueSize_` is written unlocked.
- **Self-deadlock.** `AttachBuffer` on a full queue takes the lock and never
  gives it back (`lockHolder`). This is the self-deadlock of `DeleteBuffers`
  re-locking `mutex_`.
- **Abstractions.**
  - A config is a model value. `AttachConfig` is the one AttachBuffer records.
  - Allocation may fail, as `Alloc`/`Map` can.
  - Sequence numbers come from `1..MaxSeq`. Once they are used up, allocation
    fails.
  - Fences, damage, timestamps and extra data are left out.
- **Environment switches.** Constants say which calls clients may make:
  - `DetachHeldByProducer`: detach a buffer the producer holds;
  - `AttachToFullQueue`: attach to a full queue.

### `VSyncDistributor.tla`: the distributor

- **Thread.** ThreadMain is split where it leaves the lock:
  - `ThreadLoop`: the unlocked `while (vsyncThreadRunning_)`;
  - `ThreadCollect`: the locked block with `CollectConnections`;
  - the waits `Wait` (untimed) and `SoftWait` (16 ms, ending in `SoftVSync`);
  - `ThreadPost`: one unlocked `PostEvent` per collected connection, with
    every `SendData` outcome.
- **Notify.** A `notify_all` wakes the waiting thread in the same step as the
  notifier (`Notify`). From the untimed wait the thread goes back to the
  loop. From the 16 ms `wait_for` it goes to `SoftWoken`: it still has to
  re-acquire the mutex, and `wait_for` reports a timeout if the deadline
  passed meanwhile. So from `SoftWoken` either `SoftWake` (no_timeout,
  `continue`) or `SoftVSync` (a late timeout) follows. The late timeout
  overwrites the event a hardware tick just stored and increments
  `vsyncCount` a second time.
- **Abstractions.**
  - The timestamp becomes "an event is pending".
  - `vsyncCount` is kept modulo `CountMod`, a multiple of every rate, so
    `vsyncCount % rate` is exact.
- **Destructor.** It is three steps: stop under the lock, notify, join.
- **Environment switches.**
  - `HasController`: whether `controller_` is non-null.
  - `TickWhilePending`: whether the hardware may tick before the thread took
    the last event.
  - `ReAddConnections`: whether a client may add a removed connection again.

### `ScreenManager.tla`: the screen registry

- **Ids.** A `ScreenId` is the pair of its 32-bit halves, each read as a
  signed int32:
  - a physical screen is `<<0, output>>`;
  - virtual screen n is `(n << 32) | 0xffffffff`, i.e. `<<n, -1>>`;
  - `INVALID_SCREEN_ID` is `<<-1, -1>>`.
- **Screens.** A screen is a record: virtual or not, its mirror id, its
  producer surface.
- **Hot-plug batches.** `OnHotPlugEvent` queues an event; the HDI alternates
  plug and unplug per output. `ProcessScreenHotPlugEvents` is one step, since
  the main thread holds `mutex_` for the whole batch.
  - The batch is a RECURSIVE fold (`ApplyHotPlugEvents`) of
    `ProcessScreenConnectedLocked` and `ProcessScreenDisConnectedLocked`.
  - `HandleDefaultScreenDisConnectedLocked` picks "the first" screen of an
    `unordered_map`, so each candidate is a possible outcome.
- **Callbacks.** `told` records, per callback object, the ids it was last
  told are CONNECTED. It is the remote side's knowledge, changed only by
  `OnScreenChanged` calls.
- **Client calls.** Each is one step under `mutex_`, except
  `SetVirtualScreenSurface`. That call takes no lock, so its scan and its
  `screens_.at(id)->SetProducerSurface` are two steps. The second ends in
  `Thrown` if the screen has gone.
- **Clients.** One binder thread, or two. Clients pass `RemoveVirtualScreen`
  only the virtual ids they were given, live or already removed.
- **Liveness.** `FairSpec` adds weak fairness on
  `ProcessScreenHotPlugEvents`. `ScreensFollowHardware` says that screens_
  eventually holds exactly the plugged outputs' physical screens and keeps
  them. The hot-plug bound `MaxHotplugs` makes the hardware stop reporting.

### `ImplicitAnimator.tla`: implicit animations

`RSImplicitAnimator` runs on the UI thread only, so the model is the calls a
client makes, in any order, misnested ones included; each call is one step.

- **State.** The four stacks are sequences. A group is `[finish, grp]`
  (whether a finish callback was given, and a group number). A param is its
  kind and the group it was made from. The animations made so far are a
  sequence of records: kind, target node, property, group, whether the node
  was given it (`AddAnimation`), and how many Closes returned it.
- **CreateImplicitAnimation** is an operator on the three stacks and the
  animations, used by `SetProperty` (an RSNode setter while
  `NeedImplicitAnimation()`) and by `CreateEmptyAnimation`. CURVE and PATH
  params make an animation added to its node at once. A KEYFRAME param makes
  one per `<<node, property>>` and group, started only at Close; a second
  change adds a keyframe. A TRANSITION param makes none.
- **CloseImplicitAnimation** is the whole call: the empty-group early return,
  `CreateEmptyAnimation` when a finish callback is given (which makes
  nothing when `RSNodeMap` has no fallback node; that class is not in this
  tree, so whether one exists is a free choice at each Close), the keyframe start
  loop (skipping nodes `RSNodeMap` no longer returns), the returned
  animations, the three pops, and `EndImplicitCurveAnimation`, which pops the
  innermost param only if it is a CURVE.
- **End calls** pop only a param of their own kind; a failing check only logs
  and is a stuttering step.
- `DestroyNode` is the environment: a node leaves `RSNodeMap`.

### `DrawCmdList.tla`: draw command lists over a parcel

- **Op classes.** Each class of `rs_draw_cmd.h` is its `GetType()` and whether
  it overrides `Marshalling` (`OpClass`, from five groups of classes).
  `BitmapLatticeOpItem` and `ShadowRecOpItem` declare no `Unmarshalling`, and
  `ShadowRecOpItem` keeps the base type `OPITEM`. `opUnmarshallingFuncLUT` is
  the table of `rs_draw_cmd_list.cpp`, from type to class.
- **Parcel.** A sequence of tagged items (an int, an op type, an op's data)
  with a capacity. `Write` fails when the parcel is full, and `Read` fails
  past the end or on an item of another kind: the POD reads of
  `RSMarshallingHelper` read raw bytes, so a misaligned read is taken to fail.
- **Marshalling** writes width, height, size, then type and data per op, with
  `success &=` and the return on the first failure. **Unmarshalling** reads
  them back, skips a type with no table entry, and returns nullptr on any
  failed read. The per-op payload code is in `rs_draw_cmd.cpp`, which is not in
  this tree, so an op's payload is one data item.
- **Actions.** `AddOp`, `ClearOp`, `MarshalList` (the sender) and
  `UnmarshalList` (the receiver, once a parcel exists).

### `RSPropertiesPainter.tla`: drawing a list into its frame

- It EXTENDS `DrawCmdList`: the list drawn is the one the receiver rebuilt.
- **GetGravityMatrix** is an operator with the code's early return (list
  size equal to frame size), its twelve cases, and `TOP_LEFT` returning
  false. `AspectMatrix` is the `RESIZE_ASPECT`/`RESIZE_ASPECT_FILL` case:
  `preScale`, then `preTranslate` of an offset in scaled units. `PreScale`
  and `PreTranslate` are Skia's `M * S` and `M * T` on one affine map per
  axis. The floats are exact fractions; on the sizes checked, only the
  aspect scales would round in float.
- **DrawFrame** gives the box the list's content covers in the frame.
- **ExpectedBox** is the reference, written from what each gravity names:
  the content kept as is, stretched, fitted or made to cover, and aligned at
  the start, centre or end on each axis.
- `PlacementChecked` compares the two for every gravity, frame size and
  list size. It is a constant, so TLC computes it once.

### `WindowAnimationIPC.tla`: window animation requests

- **Proxy.** Each `On*` method is an operator giving the parcel it writes:
  the token, then its arguments in the method's order. `WriteParcelable` of a
  null target writes a null marker. `ProxyCall` records the call in `called`
  and either queues the parcel or loses it. Losing it covers a failed write,
  a null `Remote()` and an error from `SendRequest`, which the proxy only logs.
- **Stub.** `StubReceive` takes the oldest queued request (one-way requests
  to one binder object arrive in order) and runs `OnRemoteRequest`: the token
  check, the `stubFuncMap_` lookup, and the handler, which reads its
  arguments in order and returns `ERR_INVALID_DATA` on the first null one. A
  success appends the controller call to `delivered`; an error adds the
  request to `rejected`.
- **Refinement.** `OneWayChannel.tla` is the abstract interface: `Send`
  appends to `sent` and, for an acceptable call, may append to `chan`;
  `Deliver` moves the head of `chan` to `got`. The mapping is:
  - `sent` is `called`;
  - `chan` is the queued requests that `OnRemoteRequest` will accept, each
    as the call it was made for (`called[id]`), not as the stub decodes it;
  - `got` is the decoded calls in `delivered`.

  A rejected request is a stuttering step of the channel. A stub that decodes
  a request differently from how the proxy wrote it breaks the refinement.
- The window manager is assumed to pass a non-null callback: the proxy calls
  `finishedCallback->AsObject()` unchecked.

### `RSClientCallbacks.tla`: the render service client's callbacks

- **Capture.** `TakeSurfaceCapture(id, callback)` returns without effect on
  a null callback or when `surfaceCaptureCbMap_` already holds the node
  (`count(id) != 0`); otherwise it stores the callback and asks the service,
  which is modelled by adding the request to `servicePending`. The service
  either answers (`TriggerSurfaceCaptureCallback`: the director's
  `OnSurfaceCapture`, which finds the node's entry, erases it and calls the
  callback) or never does (`ServiceDropsCapture`). `captures` and
  `captureDelivered` are history variables.
- **Buffer available.** `SetBufferAvailableCallback` stores `callback_` and,
  when the service is reachable, calls `RegisterBufferAvailableListener`,
  which returns early if the node is already in `bufferAvailableCbUIMap_`
  and otherwise registers a listener with the service (`listeners[id] + 1`).
  `OnBufferAvailable` is the service calling every listener of a node; each
  runs the lambda, which locks the node's `weak_ptr` and calls its current
  `callback_`. `DestroyNode` is the destructor, which leaves the listener in
  place. `UnregisterBufferAvailableListener` erases the client's entry
  without telling the service.
- **Screen change.** Each `SetScreenChangeCallback` registers a new stub;
  `OnScreenChanged` tells every stub registered so far.
- `Spec` takes the calls this tree makes. `SpecPublicApi` adds the calls of
  the public API that no caller here makes: `UnregisterBufferAvailableListener`
  and an empty buffer callback.

### MC modules

`MC_BufferQueue.tla`, `MC_VSyncDistributor.tla`, `MC_ScreenManager.tla`,
`MC_ImplicitAnimator.tla`, `MC_DrawCmdList.tla` (over `RSPropertiesPainter`),
`MC_WindowAnimationIPC.tla` and `MC_RSClientCallbacks.tla` fix the model values. The
`.cfg` files fix the bounds and switches.

## Runs

| Run | cfg | Result | What it shows |
|---|---|---|---|
| bq_main | MC_BufferQueue.cfg | pass, 331k states, about 2 min | `TypeOK`; `FreeDirtyListsConsistent` (the free and dirty lists are exactly the Released and Flushed buffers, with no duplicates); `ExclusiveOwnership` (a held buffer is in the state its holder expects, and is in no list); `DeletingOnlyDropped` (every sequence waiting in `deletingList_` for the producer's next request has left the cache, is held by no thread and is not attachable, so the producer is told to drop only dead handles); `LifecycleRefinement` (the queue implements BufferLifecycle) |
| bq_attach | MC_BufferQueue_attach.cfg | violation | AttachBuffer on a full queue deadlocks on its own mutex |
| bq_shrink | MC_BufferQueue_shrink.cfg | violation | after a shrink the cache keeps more live buffers than `queueSize` |
| bq_detach | MC_BufferQueue_detach.cfg | violation | detach between FlushBuffer's check and DoFlushBuffer re-creates a null element and dereferences it |
| vsync_main | MC_VSyncDistributor.cfg | pass | `TypeOK`; `WaitOnlyWhenVSyncFlows` (the untimed wait happens only while hardware vsync is on or no one wants a vsync); `RequestServed` (every `RequestNextVSync` is followed by a send); `PeriodicServed` (a connection with a positive rate keeps being sent events while its rate stays); `ShutdownCompletes` |
| ia_main | MC_ImplicitAnimator.cfg | pass, 1.87M states | `TypeOK`; `InnermostParamDefined` (whatever the nesting, an open group always has a param for `implicitAnimationParams_.top()`); `GroupStacksAligned` (at every depth the listed and keyed animations are the group's own and not yet returned); `ReturnedOnce` (no animation is returned twice) |
| dcl_main | MC_DrawCmdList.cfg | pass, 428k states | `TypeOK`; `RoundTrip` (whatever AddOp and ClearOp built, the receiver gets either nullptr or the same size and the ops that have an `Unmarshalling`, in order); `FrameFollowsGravity` (`DrawFrame` puts the rebuilt list where each of the twelve gravities says, in every frame size) |
| wa_main | MC_WindowAnimationIPC.cfg | pass, 217k states | `ChannelRefinement` (the proxy and stub implement `OneWayChannel` under its `FairSpec`: every controller call is a window manager call with the same method and arguments, each at most once, in call order, and a call with a null target never arrives; calls may only be lost, and every call not lost reaches the controller); `OnlyNullTargetsRejected` (the stub rejects a request only when a window target was null) |
| sm_main | MC_ScreenManager.cfg | pass, 494k states | `TypeOK`; `CallbacksToldEveryScreen` (every registered callback has been told of every physical screen); `RecycledIdsUnused` (a recycled virtual id is queued once and never while in use); `ScreensFollowHardware` (liveness under `FairSpec`: once the hardware stops reporting, screens_ comes to hold exactly the plugged outputs and keeps them) |
| sm_mirror | MC_ScreenManager_mirror.cfg | violation | the shadowed `id` in `RemoveVirtualScreenLocked` leaves mirrors of a removed screen in place |
| sm_batch | MC_ScreenManager_batch.cfg | violation | a plug and unplug in one batch are reported DISCONNECTED, then CONNECTED |
| rc_main | MC_RSClientCallbacks.cfg | pass, 854k states | `TypeOK`; `CaptureAnsweredToCaller` (with captures of two nodes answered or dropped in any order, each answered capture calls its own request's callback exactly once) |

`PROJECT.json` lists the findings. Each violation run is one of them.
Two more defects of the screen manager are recorded as hazards without a run:
- `RemoveVirtualScreenLocked` does not update `defaultScreenId_`;
- it does not check `IsVirtual()`, so a physical id is recycled as a virtual
  one.

Nine more are hazards without a run of their own:
- `SetVirtualScreenSurface` checks a surface's uniqueness without the lock,
  so with two binder threads (`Clients <- MC_TwoClients` in
  `MC_ScreenManager.cfg`) TLC finds `SurfaceUnique` violated in four steps;
  the main run has one binder thread, too few for this race, and does not
  check it;
- `UnregisterBufferAvailableListener` never tells the service, so set,
  unregister and set again gives a node two listeners
  (`ListenerRegisteredOnce` fails under `SpecPublicApi`; rc_main, with the
  calls this tree makes, does not check it, since there it would only
  restate the find);
- an empty buffer callback is accepted and called on the next buffer
  (`NoEmptyCallbackCalled` fails under `SpecPublicApi`);
- on a shared queue, flushes and releases append the one buffer to
  `dirtyList` and `freeList` again and again (`SequenceListedOnce` fails with
  `IsShared = TRUE`);
- a connection added back with a request still pending does not wake the
  vsync thread (`WaitOnlyWhenVSyncFlows` fails with
  `ReAddConnections = TRUE`);
- without a controller, software vsync serves a rate-2 connection once and
  the thread then sleeps for good (`HasController = FALSE` shows it);
- a Close inside an unended transition block, or with no fallback node,
  makes no empty animation, so the finish callback is set on nothing and
  never runs;
- a Close inside an unended block leaves stale params, so
  `NeedImplicitAnimation()` stays true with no group open;
- a hardware tick while the last event is still pending overwrites it and
  can starve a periodic subscriber (`PeriodicServed` fails with
  `TickWhilePending = TRUE`).

Every property of a passing run has a mutant in `PROJECT.json`. A mutant is a
plausible code bug, written as an operator in the module, that TLC must catch:

- a lost bound check;
- a `DeleteBufferInCache` that lists the sequence without erasing it;
- a missing `push_back` or `pop_front`;
- a lost `isShared_` test;
- a lost duplicate check;
- a lost `waitForVSync = true`;
- a missing `notify_all`;
- a lost running check;
- a lost `event_.vsyncCount++` in `OnVSyncEvent`;
- a pre-increment of the virtual id counter;
- a callback registered without the replay of connected screens;
- a lost `count(id) == 0` return;
- an inverted `IsVirtual()` skip;
- an unplug that reports the screen gone but does not erase it;
- a transition id off by one;
- an End call that pops without its type check;
- an Open without the `keyframeAnimations_` push;
- a repeated keyframe listed again instead of returned;
- a parcel write without the capacity check;
- `RectOpItem` missing from `opUnmarshallingFuncLUT`;
- `ON_MINIMIZE_WINDOW` wired to `CloseWindow`;
- a `StartApp` that forgets `ReadInt32`;
- an aspect matrix that translates before it scales;
- a `TakeSurfaceCapture` without its null or `count(id)` check.

## Bounds and why they are enough

- **BufferQueue.**
  - One producer and one consumer thread.
  - Two request configs, so that reallocation happens.
  - `MaxSeq = 2` allocations and one external buffer to attach.
  - Queue sizes 1..2. The shrink run uses sizes up to 3.

  Every call and every interleaving of one producer with one consumer is
  reached:
  - reuse, reallocation, allocation failure and waiting on a full queue;
  - shrinking while buffers are held.

  The found bugs need two threads and three buffers at most.
- **VSyncDistributor.**
  - Two connections.
  - Rates {1, 2}, so one rate is due on every tick and one on every other tick.
  - All four send outcomes.

  A high priority rate and a plain rate can be combined on both connections.
- **ScreenManager.**
  - Two outputs, one MIPI, so the first-batch MIPI rule and the non-MIPI
    default rule both apply.
  - Three hot-plug events: enough for a plug and an unplug in one batch, and
    for a replug after a removal.
  - Two virtual ids, so one can be recycled while another is live.
  - One callback object, one surface, and one binder thread. The surface race
    uses two threads.

- **ImplicitAnimator.**
  - Two nodes and one property: enough for two keyframes of one node, and
    keyframes of two nodes, one of them destroyed before Close.
  - Two Opens, a param depth of three, and three animations. This allows
    nested groups, a block inside a nested group, a misnested Close, and
    `CreateEmptyAnimation` after other animations exist.
  - The client's calls are bounded, so the model stops when they are used
    up. The run therefore does not check deadlock.

- **DrawCmdList.** Four classes: one with a payload (`RectOpItem`), one
  without (`SaveOpItem`), and the two that are dropped. Two values, up to three
  ops, dimensions 0 to 2, and a parcel of eight items. Three ops need nine
  items, so marshalling fails partway for some lists and succeeds for others.
  Frames of 1 to 3 on each side against lists of 1 or 2 give a list:
  - equal to its frame (the early return);
  - smaller and larger than its frame;
  - of another aspect ratio, so fit and cover differ, and the aspect scale is
    not a whole number.
- **WindowAnimationIPC.** Two targets and a null target, so `from` and `to`
  can differ. One callback, two app types, and three calls, so a loss, a
  rejection and a delivery can all happen in one behaviour. The window
  manager's calls are bounded, so the run does not check deadlock.
- **RSClientCallbacks.** Two nodes and two capture callbacks, so a second
  capture of a node can be asked while its first is pending, and two nodes'
  answers can cross. Three captures, two buffer notifications and two screen
  calls. The calls are bounded,
  so the run does not check deadlock.

## Fairness

- **BufferQueue.** `FairSpec` makes a started call finish: `RequestWake`
  is weakly fair because `wait_for` has a timeout, and `FlushCommit`,
  `ReleaseCommit`/`ReleaseByListener` and `SetQueueSizeAssign` only need the
  mutex. Clients are never obliged to call. Only bq_attach uses it: there
  `EveryCallReturns` fails because AttachBuffer re-locks its own mutex.
  Without that self-deadlock no lock is held across steps, so the property
  would only restate the fairness, and bq_main checks safety under `Spec`.
- **VSyncDistributor.**
  - The thread runs at real-time priority, so all its steps are weakly fair.
  - The 16 ms `wait_for` ends, and a notified thread re-acquires the mutex
    (`SoftVSync`, `SoftWake`).
  - The enabled controller delivers hardware vsync every frame (weak fairness
    on `OnVSyncEvent`).
  - The destructor runs to its end once started.

  In vsync_main the hardware does not tick twice before the thread takes an
  event (`TickWhilePending = FALSE`). At a 16 ms period this is true in
  practice, and it keeps an adversarial scheduler from starving a rate-2
  subscriber by coalescing. With `TickWhilePending = TRUE`, TLC finds
  `PeriodicServed` violated exactly that way: two ticks per collect keep the
  count odd and a rate-2 connection is never sent an event.

- **ScreenManager.** `ProcessScreenHotPlugEvents` is weakly fair:
  `OnHotPlugEvent` queues the event and calls
  `RSMainThread::RequestNextVSync()`, and the main thread applies the
  queued batch on the next frame. Clients and the hardware are never
  obliged to act. sm_main checks `ScreensFollowHardware` under this
  `FairSpec`; the other ScreenManager runs use `Spec`.
- **WindowAnimationIPC.** `StubReceive` is weakly fair: the animating
  process keeps a binder thread for the stub, and the driver hands one-way
  requests to one object to it one after another. `OneWayChannel`'s
  `FairSpec` is the matching promise: a call on its way is delivered. The
  window manager is never obliged to call.
- **ImplicitAnimator**, **DrawCmdList** and **RSClientCallbacks**. Their
  runs check safety only.
  No fairness is assumed.

## Not modelled, and why

- **BufferQueue.**
  - `CleanCache` runs only from the destructor, when no client call can
    still be in progress, so it races nothing the model has.
  - `RegisterDeleteBufferListener` stores a callback that no code in this
    repository registers, and `onBufferDelete_` is called at each erase
    under the lock. The callback's receiver is not here, so no property
    could tell a report from its absence. What the producer is told
    (`deletingList_`) is modelled and checked by `DeletingOnlyDropped`.
  - The default size, usage and transform setters store values that only
    their getters read.
  - `DumpCache` and `Dump` are formatting.
  - CPU-write `FlushCache` failure is left out because no property yet
    distinguishes what the producer is told.
- **VSync.**
  - `GetVSyncConnectionInfos` is diagnostics. It reads without the lock.
  - Thread priority setup and socket creation are not modelled.
  - Spurious wake-ups only add loop iterations.
- **ScreenManager.**
  - The per-screen setters (active mode, resolution, power status, backlight,
    color gamut, rotation) and all getters only forward to `RSScreen`, which is
    not in this repository.
  - Dumps are formatting.
  - The callbacks' IPC is taken as delivered in order. The main thread's
    scheduling of `ProcessScreenHotPlugEvents` is any interleaving.
- **DrawCmdList.** `operator=` (a swap), `Playback` and `Draw` (canvas calls
  that leave the list unchanged), and the op payloads. `Marshalling` reads
  `ops_` without `mutex_` while `AddOp` takes it. This is a hazard, but the
  callers in this tree build a list on one thread.
- **Window animation.** The controller behind the stub and the window
  manager's reaction to a lost request are not in this repository.
- **Properties painter.** Shadow, filter, background, border, mask and
  transition drawing are Skia canvas calls with no state of their own. A list
  of width or height 0 is left out of `FrameFollowsGravity`: `RESIZE`
  divides by it, and fractions have no infinity. This is a hazard.
- **Render service client.** About thirty methods check
  `GetRenderService()` and forward to the proxy with no client state; the
  render-thread listener map has no caller here; the director's unlocked
  creation is a data race left out. The connect hub is only a header here.
- **BufferQueueConsumer.** Each method returns `GSERROR_INVALID_ARGUMENTS`
  when `bufferQueue_` is null and otherwise forwards the call unchanged. The
  constructor sets `bufferQueue_` and nothing clears it, so the queue's own
  actions stand for the facade.
- **The remaining rosen modules** (node creation and command forwarding,
  the render service's declarations, the image wrapper). Their state lives in
  classes that are not in this repository (`RSTransactionProxy`, `RSNode`,
  `RSScreen`, `RSBorder`), so their behaviour cannot be taken from the
  source.

## Plan

1. Done: BufferQueue with the abstract life cycle, and VSyncDistributor.
2. Done: the screen manager's registry (ScreenManager), and the implicit
   animator (ImplicitAnimator).
3. Done: draw command list marshalling (DrawCmdList) and the window
   animation IPC (WindowAnimationIPC).
4. Done: VSync periodic delivery (PeriodicServed) with the late `wait_for`
   timeout, and the deletingBuffers contract (DeletingOnlyDropped). Open:
   spec.md scenario 2 says the request after a reallocation reports the old
   sequence. The code reports it in the reallocating request itself:
   `DeleteBufferInCache` (line 251) lists it and the drain at lines 269-271
   follows in the same call. The model follows the code; no run checks the
   scenario's wording yet.
5. A second consumer thread for BufferQueue. It would double bq_main's
   thread interleavings, and the run already takes two minutes at
   `MaxSeq = 2`.
6. Done: the render service client's callback maps (RSClientCallbacks).
7. The surface node's command-queueing methods. `RSTransactionProxy` and
   `RSNode` are not in this tree.
8. Done: `DrawFrame` and `GetGravityMatrix` (RSPropertiesPainter).
9. Done: liveness of hot-plug handling (ScreensFollowHardware) and the
   one-way channel refinement of the window animation IPC (OneWayChannel).
