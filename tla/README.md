# Verification of the OpenHarmony graphic stack

TLA+ models of `graphic_standard`: how frames get from an application that draws to
the screen. The modules follow the C++ sources; `PROJECT.json` maps every definition
that models code to the lines it stands for, names the runs of TLC, the mutations that
each property must detect, the theorems TLAPS proves, and the hazards of the code that
the properties are aimed at.

## 1. The system

An application (through the render thread of its UI framework, a native window, or a
local surface) draws into buffers. The render service composes them on the displays.

```
 application process            |  render service process
                                |
 RSRenderThread --- vsync <-----|--- VSyncDistributor "app" <-- VSyncController <--+
   | draws                      |    VSyncDistributor "rs"  <-- VSyncController <--+
 ProducerSurface --IPC----------|--> BufferQueueProducer          VSyncGenerator <-+
   | cache of buffers           |      | sent buffers                   ^ mode
 RSTransactionProxy --IPC-------|-->   v                            VSyncSampler
                                |    BufferQueue --OnBufferAvailable-->   ^ samples
                                |      ^ acquire, release  RSRenderServiceListener
                                |      |                                   |
                                |    RSMainThread: commands, animations, visitors,
                                |      processors --> HdiBackend --> display device
```

### Inventory

| Component | State | Operations | Interacts with | What is hard | What makes it correct |
|---|---|---|---|---|---|
| `BufferQueue` | cache of elements with state, free, dirty and deleting lists, size, listeners, one mutex and a condition variable | request (waits), cancel, flush, acquire, release, attach, detach, resize, clean, listeners | stub and consumer call it from many threads; calls the consumer listener and the release listener without its lock | calls that take the lock twice; waits with timeouts; callbacks; failing allocation | one owner per buffer, no buffer lost, frames in order and announced, size respected, no lost wakeup |
| `ProducerSurface`, `BufferClientProducer`, `BufferQueueProducer` | cache of buffers on either side, what was sent to which process, the connected process | request, flush, cancel, attach, clean, disconnect, destruction | IPC between application and service | two caches that must agree without a common lock, lost replies, dying clients | a buffer left out of a reply is one the client has; one producer process |
| `VSyncDistributor`, `VSyncConnection` | connections with their rates, event count, thread | add, remove, request, set rate, the thread's loop, destructor | controller calls back; sockets to receivers | the thread gives up its lock to post; full, failing, interrupted sockets; software vsync | no request lost, none answered twice, no sleep on a request, every request answered |
| `VSyncController`, `VSyncReceiver`, `LocalSocketPair` | enabled flag, callback, socket | enable, phase offset, read | generator, distributor | | part of the distributor's properties |
| `VSyncGenerator` | mode, listeners with offsets and last times, thread | update mode, add, remove, change offset, the thread's loop | sampler, controllers | time computed under the lock and used after it; late wakeups; division by the period | vsyncs regular, fresh, one listener call per wakeup |
| `VSyncSampler` | ring of samples, present fences, error | add sample, add fence time, begin, reset | HDI callbacks, generator | rounding, period 0 | hardware vsync on until the mode is good |
| Surface nodes of the service | count of available frames, current and previous buffer | listener call, drop, consume, compose, release | queue, main thread, HDI layer | counts and queue change on different threads; nodes hidden while frames come; failing device | count agrees with the queue, one buffer kept, newest frame shown, comes to rest |
| `RSMainThread` | command queues, posted tasks, animating nodes | vsync, main loop, tasks, transactions | everything in the service | priorities of tasks, unlocked fields | commands in order, a vsync per change |
| HDI backend | outputs, layers with buffers and fences, framebuffer queue | set layers, prepare, flush, commit, release | device, buffer queues | device calls that fail half way | a buffer is released once and after it left the screen |
| `RSScreenManager` | screens, default screen, virtual identifiers, pending hot-plug events | hot plug, virtual screens, power, mode | HDI callbacks, connections | events from other threads, reused identifiers | callbacks know of the screens there are, the default screen is one of them |
| `RSRenderService`, connections | connections by token, their vsync connections and virtual screens | create, clean up | client death, main thread | death during creation, clean-up in parts | nothing of a dead client stays, nothing of a living one is taken |
| Render nodes | tree, node map, on-tree state | commands | main thread | removal with animations pending | map and tree agree |
| Transactions, connect hub | pending commands | add, flush, process, reconnect | IPC, service restart | lost commits, order across two senders | commands processed once and in order |
| Render thread, UI director, animations | commands, active windows, animation states | vsync, draw, finish callbacks | service, UI thread | requests before the thread is ready, vsyncs used up in the background, commands for animations that have ended | no work waits without a vsync, both sides agree at rest, finish is told once |
| `SurfaceImage`, EGL image manager | images by buffer | update, evict | queue | failure after acquire | an image per live buffer |
| Legacy vsync and window manager, drawing libraries, tools | | | | | not modelled, see section 8 |

## 2. Modules

| Module | Models | State and actions |
|---|---|---|
| `BufferQueue` | `buffer_queue.cpp`, non-shared mode, callers without any discipline | `state`, lists and `queueSize` are the queue's fields; `pc`, `args` and `notified` say where each thread is in a call. One action per section under `mutex_` |
| `BufferQueueClients` | producers and consumers that keep the calling contract listed at its head | composes BufferQueue with who holds which buffer and how many listener calls are unanswered |
| `BufferExchange` | the abstract specification: what two sides may rely on | `holder` of each buffer and the queued ones in order; moves are atomic |
| `SurfaceProducer` | `producer_surface.cpp`, `buffer_client_producer.cpp`, `buffer_queue_producer.cpp` | caches of both sides, record of what was sent, connection; a request is three steps, queue, stub, surface; a clean is two or, like a destruction, lost on the way (`GSERROR_BINDER`) |
| `VSyncDistributor` | `vsync_distributor.cpp` with controller, socket and receiver | rates, event, thread; sockets by fill; ghost counters of what a client asked for and read |
| `VSyncGenerator` | `vsync_generator.cpp` | integer time that passes at any step, mode (its period set to 0 at any time too), listeners, the thread's two locked sections |
| `RSSurfaceNode` | `rs_render_service_listener.cpp`, `rs_surface_handler.cpp`, `rs_render_service_util.cpp`, `rs_hardware_processor.cpp`, parts of `rs_main_thread.cpp` and the HDI layer | one window: listener calls by the step they are in, the node's fields, the main thread's step; the queue is the exchange |
| `RSScreenManager` | `rs_screen_manager.cpp` | `screens_`, default, free ids and callbacks as in the code, pending hot-plug events; a batch is one step per event under the mutex; clients name any screen, a physical one too; ghosts: what each callback was told last, and the screens one batch plugged in and out |
| `RSRenderService` | `rs_render_service.cpp`, `rs_render_service_connection.cpp`, the node map's clean-up; extends RSScreenManager | connections by token, each with its state, its calls in flight and the step of its `CleanAll`; the main thread's posted tasks and its `cacheCommandQueue_` with committed transactions; clients that connect, call and die |
| `RSRenderThread` | `rs_render_thread.cpp`, `rs_transaction_proxy.cpp` (the local route), `rs_ui_director.cpp`, `rs_node.cpp` (animations), and both sides of an animation | UI side: state and home of each animation, the batch, messages; render side: queued commands, the frame's step, each animation's state and `runningTime_`, the list of animating nodes, and where a vsync request is |
| `MC*` | small instances: symmetry sets and constants | |
| `*Proofs` | theorems and lemmas about the module of that name; `RSRenderServiceProofs` also has those about `RSScreenManager`, and `BufferQueueClientsProofs` the refinement of `BufferExchange` | |

Composition: `BufferQueueClients` implements `BufferExchange` (run `queue_clients`,
property `ImplementsExchange`, theorem `RefinesExchange`: a buffer is where its state says, except
that between the halves of a flush or a release it is already or still with the other side).
`RSSurfaceNode` is written on top of the exchange and shown to stay within it (`KeepsExchange`,
theorem `NodeKeepsExchange`), so that the node is checked without the queue's inner steps. It takes a vsync per request from what
`VSyncDistributor` shows (`RequestAnswered`), and the distributor takes ticks from a
generator that keeps calling its listener.

`RSRenderService` extends `RSScreenManager` and uses its operations, so that a call of a client is one
step of a connection and of the manager; hot plugging, which leaves virtual screens alone, is
checked in the manager's own run. `RSRenderThread` takes a vsync per request, as the distributor
shows it.

Every module keeps the control flow and leaves out data that no property tells apart:
pixels, fences, damage, timestamps of frames, user data, logging.

## 3. Runs

| Run | Question | Instance |
|---|---|---|
| `queue_any_caller` | does the queue survive callers without discipline? | 2 threads, every operation in every overlap, one buffer number, sizes 1 and 2 |
| `queue_clients` | do contract-keeping clients get what the exchange promises? | 1 producer, 1 consumer, 2 buffers, 2 configs, sizes 1 and 2 |
| `queue_progress` | do frames and requests get through, the latter without the timeout of their wait? | the same with 1 config, with fairness |
| `surface_clients` | do the caches of client and stub agree? | a client with 2 threads, the server's own producer, 3 sequence numbers, 1 attached buffer |
| `surface_attached` | finding: null buffer for an attached one | the server alone |
| `vsync_requests` | are requests kept and answered once? | 2 connections, rate 2, sockets of 1 event |
| `vsync_progress` | is every request answered, does the thread end? | 2 connections without rates, with fairness |
| `vsync_generator` | are vsyncs regular however the thread is scheduled? | 2 listeners, 2 offsets, two periods and period 0, 15 instants |
| `node_frames` | do count, queue and buffers agree on three threads' steps, are frames taken, does the service come to rest? | 2 buffers, sizes 1 and 2, 2 frames in flight, with fairness |
| `screens` | what do callbacks and the default screen know of the screens there are, when clients remove any? | 2 outputs, one of them MIPI, 1 callback, 2 virtual screens, 2 free ids, 1 surface, batches of 2 events |
| `service` | whose are screens, callbacks, vsync connections and nodes when clients connect again and die? | 2 clients, 2 connections, 2 virtual screens, 1 surface, 2 calls in flight, 6 inputs, with fairness |
| `render_thread` | do commands, frames and finish messages get through, and do both sides agree? | 3 animations on a node: of one frame, of no duration, and endless, counted up to 2 frames; 4 inputs, with fairness |

The bounds are enough for the cases that matter: two buffers are the least for which one is
on the screen while another is drawn, dropped or reordered; two threads meet in
every pair of locked sections; sockets of one event are full after one; the generator's 15
instants hold three short periods, a late wakeup and a change of mode; two frames in flight are what
`DropFrameProcess` needs; two connections let one client replace its connection or two clients
reuse each other's screen id; three inputs on one animation already race its last frame, and the fourth
destroys the node, hides the window or starts the animation that finishes the others; an endless animation
that has run for two of its cycles is beyond the first, and one that is reversed runs back through both. In `screens` a batch of two
events can plug a screen in and out; with a second callback, which only repeats what the first is told, or a third event the run takes too
long, and the theorems are for any number of both. Symmetry is used for buffers, configs, threads, connections and
callbacks where no liveness is checked. Bounds are constants named in the modules
(`MaxSeq`, `MaxListLen`, `MaxSignals`, `MaxSilent`, `Capacity`, `MaxOwed`, `Seqs`, `MaxAttached`, `MaxTime`, `Buffers`, `MaxFrames`,
`MaxUncounted`, `MaxLoops`, `MaxVirtual`, `MaxEvents`, `MaxFree`, `MaxCalls`, `MaxInputs`, `MaxElapsed`) and appear in guards only, but for
`MaxElapsed`, at which the running time of an endless animation stands still.

Deadlock is checked for `queue_clients` and `queue_progress`. Elsewhere the system may stop: a queue
misused by its callers may crash, a client may end, a destructor ends the thread, time ends
at its bound, a window with nothing to draw rests, a surface given to a missing screen ends the service (`aborted`), clients and applications have had their inputs.

### Main properties

- `NoLostWakeup`: a waiting request that was not notified faces no free buffer.
- `NullNeverHandedOut`: an element that came back without its pointer (a release that
  overlapped a clean) is never given to a client.
- `Ownership`: a buffer is with one client or on one list, as its state says, and no null pointer is
  used; `GrowthWithinQueueSize`; `ImplementsExchange`.
- `FramesReachConsumer`; `FreedEndsWait`: a request that waits while there is a free buffer is woken by the notification
  of the call that freed it, without its timeout.
- `LeftOutIsCached`: a reply without the buffer itself goes only to a client that has it, or that has dropped it with a
  clean or a disconnect that was lost on the way. The surface empties its cache before it calls, so that the stub's
  record is then wrong until the buffer is sent again.
- `RequestKept`, `NoUnaskedVSync`, `NoSleepOnRequest`, `RequestAnswered`, `ThreadJoins`.
- `VSyncsInOrder`: vsyncs of a listener advance, keep their distance, are fresh, and no wakeup is for
  nothing; `ModeSeen`: the thread does not sleep while there is work, and the section that divides by the period finds
  the one that its test has seen, unless a call changed mode or listeners in between. With a period set back to 0 during
  the timed wait it divides by 0 (`crashed`).
- `CountMatchesQueue`: `bufferAvailableCount_`, posted tasks and listener calls under way
  add up to the queued frames; `HoldsOne`, `NewestKept`, `FramesConsumed`, `ComesToRest`.
- `ToldOfScreens`: between two batches a callback knows of all physical screens, and what it takes for connected
  beyond them was plugged in and out by one batch or removed by a client; `DefaultScreen`: the default screen is there or
  was removed by a client, and there is one unless only late MIPI screens are connected.
- `OwnScreens`: each virtual screen belongs to one connection, free ids are those of no screen;
  `NothingLeft`: a destroyed connection has left nothing behind but the nodes of a transaction that its clean-up overtook; `HeldKept`: no clean-up takes what a living client
  holds; `DeadClientGone`: a dead client's connection is destroyed. The first two except calls that
  were in flight when their connection's clean-up began (`late`), see section 5.
- `RunningIsAnimated`: a running animation is on an animating node; `NotStranded`: queued commands and
  animating nodes have a vsync coming; `AgreeAtRest`: with nothing on its way, both sides have
  each animation in the same state; `TypeOK` bounds the running time of an animation that has not ended, forward and back; `AllTold`: a started animation is reported as finished in the end.

### Fairness

- Queue: the steps inside a call are weakly fair, for a thread that runs a call is scheduled, and so is the return of a
  waiting request that has been notified; that a wait times out is not assumed. The consumer's acquire is strongly fair,
  for it comes back to the queue for each listener call. Starting a call is never assumed.
- Distributor: weakly fair thread, reading receivers, ticks of a generator that has a listener, and the
  destructor's notification; strongly fair timeout of the software vsync, which spurious
  wakeups may interrupt but not for ever.
- Node: weakly fair listener calls, vsync and frames; strongly fair posted tasks, which
  the event runner takes before main loops (IMMEDIATE before IDLE). Flushing and
  transactions are not assumed.
- Service: one weak fairness condition for all its threads together. Clients do a bounded number of
  things, so every thread that has a step gets to take it; calls and deaths are not assumed.
- Render thread: weakly fair flushes (the UI framework flushes every frame and the flush asks for the
  vsync in the same call), processing of messages by the UI task runner, and the thread itself, to which
  a requested vsync comes. What the application does is not assumed.

## 4. Proofs

Every safety property of the passing runs, invariant, action property or refinement, is also a theorem
for all values of the constants. TLC checked each strengthened invariant on the run's instance
before it was proved. Assumptions are those named at the constants; TLC evaluates them in the runs.

### The queue (`BufferQueueProofs`): any threads, configs and sizes, callers without discipline

- `TypeCorrect`: `TypeOK` is inductive, since it includes that the arguments kept across an
  unlock (`ArgsOK`) are valid for the step that uses them.
- `WakeupsKept`: every action that adds to `freeList_` notifies all waiters; the induction
  needs only types and that no other step adds a waiter without looking.
- `NullKeptInside`: strengthened to `HandedOutReal`, which says the same of the steps between a check
  and its effect.

### Clients that keep the contract (`BufferQueueClientsProofs`)

- `OwnershipKept`. `Ownership` is not inductive: a flush or release is two locked
  sections, and the second acts on what the first has checked. `OwnInv` adds `InHand` (the buffer of a call
  in progress is still the caller's, in the state that was checked), that every entry has a
  buffer and an old number (`RealEntries`), and that a detached buffer is no entry (`DetachedGone`); the lists have
  no repetitions and hold what the states say.
- The proof goes through effects. Each action is shown to do one of eleven things to the buffers
  (`Effect`: nothing, to or from a list, from nowhere, replace, drop, empty), and `OwnInv` is shown once
  for each of the eleven, not for each of the actions.
- `GrowthBounded`: a step that makes the cache larger leaves it within the queue size of that moment, although the size
  changes and buffers leave while requests wait.
- `RefinesExchange`: `CSpec => Exchange!XSpec`, step by step. The same effects are mapped: each is one move
  of the exchange or leaves it alone. `Placed` says where the exchange sees each buffer.

### The surface producer (`SurfaceProducerProofs`): any processes, threads and buffers

- `ProducerTypeCorrect`, `LeftOutCached`. Nothing locks both caches, so the invariant `SInv` follows a buffer through
  queue, stub and surface: a reply is about a requested buffer or a deleted one (`Reported`), a buffer is in one reply or
  in the hands of one process (`OneHand`), buffers that are gone are in no hands (`Unknown`), requests are
  those of the connected process (`OneProcess`), the stub finds what it has seen (`Findable`), what a surface has dropped
  with a lost clean or disconnect the stub still has on record (`Recorded`), what was sent
  is cached by the client, or its reply is under way, or it was dropped so, or was lost and the buffer stays requested
  (`SentIsCached`), and what is reused was cached all the way (`ReusedIsCached`).

### VSync distributor (`VSyncDistributorProofs`): any connections, rates and socket sizes

- `TypeCorrect`.
- `RequestsKept`: needs `InHand` (the connections about to be posted to or just failed have given
  up their pending request) and `AheadOK` (a client's unread events bound those sent before
  its request).
- `NothingUnasked`: needs `RateSource` (a rate above 0 was set by the client, which is then exempt).
- `NeverSleepsOnRequest`: needs `SourceOn` (the listener is registered while
  `vsyncEnabled_` says so and there is a controller).

A distributor without a controller is covered by the proofs only.

### VSync generator (`VSyncGeneratorProofs`): any modes, offsets, delays and listeners

- `GeneratorTypeCorrect`, `ModeSeenKept`, `VSyncsAdvance` (`VSyncsInOrder`), from the invariant `GInv`: the thread wakes at
  or after the time it computed (`InTime`), and, as long as nobody has changed mode, listeners or offsets
  since, that time is the next vsync of a listener (`Due`). Period 0 may be set at any time, but that is a
  change after which `Due` is not claimed, and `VSyncsInOrder` leaves out the one vsync that a division by 0 which does not trap may give.
- The rest is arithmetic. The vsyncs of a listener are multiples of the period, shifted by reference, phase
  and offset, so two of them are a period apart at least (`InstantsApart`); the computed one is such a multiple, at
  least three fifths of a period after the last (`ComputedIs`), and the computation of a wakeup, which starts one period
  earlier, gives none that is later than the one waited for (`ComputedNotLater`), so no wakeup is for nothing.
- `ProportionAssumption` is what the constants of the code satisfy: `errorThreshold` 500000, `maxWaleupDelay` 1500000
  and the weight 64 of the average, so the threshold exceeds what one average takes off the delay,
  and 1.5 ms are below three fifths of a period for every display below 400 Hz. For a faster one the spacing is
  not proved.

### Surface nodes (`RSSurfaceNodeProofs`): any buffers, queue sizes and bounds

- `TypeCorrect`: the count is never negative. Inductive with `Hand`: a frame is being left out only
  while two at least are counted, and outside tasks and drops the main thread has no buffer in hand.
- `CountCorrect`: `CountMatchesQueue` is inductive given the types. Each action changes the queue and what
  stands for its frames by as much, or sets `lost`; a task that finds nothing proves that frames
  were lost before.
- `DropsOnlyOlder`: from the count and `Hand`: the frame in hand and the two counted leave one queued.
- `NodeHoldsOne`: `HoldsOne` is inductive with `Hand`.
- `NodeKeepsExchange`: holder and queue are the exchange's own variables; acquiring is its `TakeOldest`, a release is
  `PutBack`, `Withdraw` (marked buffers) or no step (buffers that a clean took away), a resize is `Shrink`.

### Screens and connections (`RSRenderServiceProofs`): any outputs, surfaces, callbacks, clients, calls

- `ScreenTypeCorrect`, `CallbacksKnow`, `DefaultConnected`: the manager's invariant `Inv` adds to the three
  what holds inside a batch (`KnownScreens`): a physical screen is told already or is in `connectedIds_`,
  which is empty outside a batch, and what is told beyond the screens there are is flapped or a free id. Clients remove
  screens by any id, so no free id need be virtual: what the proofs use is that an id never gets lost, for it has a screen
  or is free. Operations that make no physical screen and lose no id share one lemma (`AsideKeeps`).
- `ServiceTypeCorrect`, `NothingStays`, `ScreensOwned`, `HoldingsKept`, from `SInv`, in three layers.
  Who refers to whom: connections that a client or the service can reach are live and the client's own
  (`Linked`), and a living client has no others but one just replaced (`OneConnection`). How far a clean-up is: it
  runs once, for a dead client or an unreachable connection (`Stages`), and its posted task comes after
  the nodes created through the connection (`Posted`), but for those of a transaction that still waits in
  `cacheCommandQueue_` (`overtaken`); so what is listed is taken back (`Taken`). Whose the virtual screens are:
  one connection of a client has calls and screens (`OneUser`), the ids held by connections and calls are
  apart, free ids are those of no screen and are listed once, ids were given out before, and a call's id and
  surface stay valid between its halves (`Ownership`: `HeldIds`, `Distinct`, `EachOnce`, `Numbered`, `Named`).
  The last layer excepts, as the properties do, calls that overlap the clean-up of their own connection.
- The service's `TypeOK` includes `VirtualOK`: clients that name their own screens free the ids of virtual screens only, which the
  manager itself does not ensure.
- `ServiceAssumption` has the clients' surfaces disjoint: a client gives the service surfaces it made. The proof found
  that `OwnScreens` needs it. `SetVirtualScreenSurface` checks and assigns under a lock of the connection
  only, so two clients that shared a surface could both pass the check.

### Animations (`RSRenderThreadProofs`): any finite set of animations, any nodes and durations

- `TypeCorrect`: inductive with the fact (`Untold`) that an animation that is still on its node, or was not
  started, was never told finished, which is why no callback is called twice. `runningTime_` is never wrapped: that it
  stays between 0 and the duration while an animation lasts follows from the test for its end in the same frame
  (`PlayedInTime`).
- `AlwaysAnimated`: every command that makes an animation run registers its node, and a frame keeps
  a node that has one running.
- `NeverStranded`: a command is queued together with the duty to ask for a vsync, a frame that animated
  has asked, and a vsync is given up only by a frame or in the background; inductive with the types.
- `SidesAgree`: `AgreeAtRest` speaks of states with nothing on its way, so the invariant must say what
  is on its way. `Joined`: the batch, the queue and the frame's commands, carried out in that order, take each
  animation of the render thread to what the application believes of it. Such a run of commands is stated without
  recursion, as a history with one view of the animation per command (`Leads`); lemmas drop its first
  command (the thread carries one out), append to its end (the application sends), and regroup it
  (flush, vsync). `Fresh` (an animation is created once) keeps commands from bringing back what has ended, and `Reported` says that what
  has ended was told or is in a message. Animations of a destroyed node are excepted, as in the property.

### Only model-checked

All liveness (`FramesReachConsumer`, `FreedEndsWait`, `RequestAnswered`, `ThreadJoins`, `FramesConsumed`, `ComesToRest`,
`DeadClientGone`, `AllTold`): fairness and `ENABLED` are outside what TLAPS's backends can do here.

## 5. Findings

`surface_attached`: a local request that reuses an attached buffer returns success with
a null pointer, against the comment in `RequestBuffer` that a local call always returns a
non-null pointer.

Also against a comment or a test of the repository, and seen in the models without a run of their own:

- `FlushBuffer` checks in one locked section and queues in another; two overlapping flushes of one
  request both succeed, where the unit test (`buffer_queue_test.cpp:242`) expects the second to fail.
- `AttachBuffer` on a full queue calls `DeleteBuffers`, which locks the mutex it already holds
  (`selfLocked` in `BufferQueue`); the window manager test 30 retries the call until it succeeds.
- `RemoveVirtualScreenLocked`: "Update other screens' mirrorId" is done by a loop whose own `id` hides
  the removed one, so only screens that mirror themselves are reset (`WithoutAll`).
- Animations of a destroyed node: the node map has an "animation fallback node" on both sides, but
  `RSContext` is a plain member of `RSRenderThread` and of `RSMainThread`, so `weak_from_this()` is empty and
  `FallbackAnimationsToRoot` of the render node always ends with "Invalid context". The
  animations are lost, and the UI side keeps them in its fallback node for ever (`DoDestroy`, `AgreeAtRest`).

Weaknesses that no document of the repository rules out are in the hazards' notes; the
most notable: the node's frame count stays too high once the queue itself drops frames
(`CleanCache`, a smaller size, a flush of a marked buffer), after which the service requests
vsyncs for ever and, with a queue of two, drops every new frame; a failed device call leaks
the previous buffer; a release that overlaps `CleanCache` puts an element without a buffer
into the queue; room made without a notification is noticed only at the timeout; a call that is in flight when its dead client's
connection is cleaned may leave a virtual screen, a vsync connection or a node behind, free an id that is
another's by then, or end the service in `screens_.at`; a connection whose client died before the death recipient was
set, or that is inserted after the death was handled, stays for ever; a screen that one batch plugs in and out is
told to be gone and then to be there; `RemoveVirtualScreen` erases a physical screen when a client names it, tells no
callback, leaves it the default and hands its id to the next virtual screen; a transaction that its dead client's clean-up
overtakes creates nodes that stay for ever; `UpdateMode` with period 0, which the sampler sends with the first sample
after `Reset`, makes the generator's thread divide by 0 when it comes during a timed wait; when the call of `CleanCache` or
`Disconnect` is lost, the stub leaves out buffers the surface has thrown away, whose requests then fail while the queue
counts the buffers as requested; finishing a paused animation whose node has left the list never calls its
callback.

Smaller things met while reading: a client that ends without destroying its surface stays connected and nobody else can produce; a virtual screen that became the default is removed without a new default; `handler_` of the render thread is read by the UI thread without a lock; `GetAllScreenIds` walks the screens without one; an image that cannot be created keeps its buffer acquired; two surfaces of one process share the
connection and the record of sent buffers, and a local surface keeps its cache across
`CleanCache`; a producer that connects between the halves of another's `Disconnect` loses its buffer
to the clean; two shrinks may mark too few buffers; a connection of the distributor that is removed with a pending request
and added again is not woken for; a lone connection with rate 2 and no controller waits for ever;
nobody ends the generator's timed wait early, so a new mode or listener may be up to a wait
late; the controller keeps a raw pointer to the distributor; the inner `acquireFence` of
`ConsumeAndUpdateBuffer` hides the outer one; a mirrored display consumes a node twice per frame; a visible node under an invisible parent is counted
and never consumed, which `RSSurfaceNode`, with one window and no parent, does not have; a setter of a node sends no command for the value it has
already, so an application that itself shows the root node of a hidden window leaves `GoForeground` without the command
that asks for a vsync (`SetForeground` has the director as the only one to set it, as it is in the repository);
the sampler divides by a period that equal samples make 0; `Stop` of the legacy vsync
module waits for a thread that only a vsync wakes, which `Trigger` then refuses; a restarted
service knows none of a client's nodes.

## 6. Reading the counterexamples and mutants

Each property has a mutation of the mapped code under which TLC finds it violated; the
mutated operators stand before the originals with a suffix (`CancelEffect_NoNotify`).
They are not used by any specification.

## 7. Plan

Done, in this order: BufferQueue, BufferQueueClients, BufferExchange, VSyncDistributor,
VSyncGenerator, SurfaceProducer, RSSurfaceNode, RSScreenManager, RSRenderService, RSRenderThread.

Next modules:

1. The remote route of transactions: connect hub and the command queues of `RSMainThread`, with lost
   commits and a restarting service. Abstract specification: a queue of commands per sender, each
   processed at most once and in order.
2. The other processors and uni-render next to RSSurfaceNode, and HdiBackend with fences;
   refinement of the exchange by each consumer (`SurfaceImage` too).
3. VSyncSampler composed with the generator.
4. The tree of render nodes.
5. The shared mode of the queue; two producer threads of one queue.

Next theorems: those of the modules to come; for the present ones only liveness is left to TLC.

## 8. Not modelled, and why

Drawing (2d_graphics, 2d_engine, effects, painters, shaders) computes pixels; TLC and
TLAPS have nothing to say about floating point. Marshalling and stubs without state, dump
and logging only move data. The legacy window manager, vsync service, boot animation and
animation server are superseded by or only use the modelled parts. Allocation and
mapping of buffers, EGL and native windows are wrappers around libraries. Components that
are planned but missing are marked `not_modelled` with "Planned" in `PROJECT.json`.
