------------------------- MODULE BufferQueueClients -------------------------
(***************************************************************************)
(* BufferQueue together with clients that keep its calling contract, as    *)
(* the producers and consumers in the repository do                        *)
(* (frameworks/surface/src/producer_surface.cpp, consumer_surface.cpp,     *)
(* rosen/modules/render_service/core/pipeline/rs_render_service_util.cpp): *)
(*                                                                         *)
(*  - a client cancels, flushes, releases or detaches only a buffer that   *)
(*    it got from the queue and has not given back;                        *)
(*  - it attaches only a buffer that was detached, and only to a queue     *)
(*    that is not full (on a full one AttachBuffer locks itself out);      *)
(*  - CleanCache does not overlap a FlushBuffer or a ReleaseBuffer, and    *)
(*    the listener is not unregistered while OnBufferAvailable is called;  *)
(*  - a release listener that detaches the buffer returns GSERROR_OK;      *)
(*  - nobody dumps the queue, which fails on attached buffers.             *)
(*                                                                         *)
(* BufferQueue is checked without any of these.                            *)
(***************************************************************************)
EXTENDS BufferQueue

CONSTANTS
    Producers,      \* threads that request, cancel, flush
    Consumers,      \* threads that acquire, release, register listeners
    MaxSignals,     \* bound: OnBufferAvailable calls not yet answered
    MaxSilent       \* bound: flushes whose listener call was left out

ASSUME RoleAssumption ==
    /\ Producers \cup Consumers = Threads
    /\ MaxSignals \in Nat
    /\ MaxSilent \in Nat

VARIABLES
    held,           \* the buffers each client has in its hands
    detached,       \* buffers taken out of the queue by DetachBuffer
    signalled,      \* OnBufferAvailable calls not yet answered by an Acquire
    silent          \* buffers queued whose flush did not call the listener

clients == <<held, detached, signalled, silent>>
cvars   == <<vars, clients>>

CInit ==
    /\ Init
    /\ held = [t \in Threads |-> {}]
    /\ detached = {}
    /\ signalled = 0 /\ silent = 0

Take(t, S) == held' = [held EXCEPT ![t] = @ \cup S]
Give(t, S) == held' = [held EXCEPT ![t] = @ \ S]

\* The buffer RequestBuffer hands out in this step, if it does.
Granted == {s \in Seqs : state[s] # "requested" /\ state'[s] = "requested"}

-----------------------------------------------------------------------------
(* Producer calls.                                                         *)

Request(t) ==
    /\ \E c \in Configs : RequestBuffer(t, c)
    /\ UNCHANGED clients

RequestReturns(t) ==
    /\ RequestLocked(t) \/ RequestRetry(t) \/ WaitAgain(t)
    /\ Take(t, Granted)
    /\ UNCHANGED <<detached, signalled, silent>>

Cancel(t) ==
    /\ \E s \in held[t] : CancelBuffer(t, s) /\ Give(t, {s})
    /\ UNCHANGED <<detached, signalled, silent>>

Flush(t) ==
    /\ \E s \in held[t] : FlushBuffer(t, s)
    /\ UNCHANGED clients

FlushReadsListener(t) == FlushListener(t) /\ UNCHANGED clients

\* A requested buffer goes back; an attached one stays with its client.
FlushCancelled(t) ==
    /\ FlushCancel(t)
    /\ Give(t, {s \in {seq[t]} : state[s] = "requested"})
    /\ UNCHANGED <<detached, signalled, silent>>

\* After FlushBuffer the producer has given the buffer up, whatever it returns.
Flushed(t) ==
    /\ \/ DoFlushBuffer(t, TRUE) /\ UNCHANGED silent
       \/ /\ At(t, "doFlush") /\ ~isDeleting[seq[t]] /\ DoFlushBuffer(t, FALSE)
          /\ silent < MaxSilent /\ silent' = silent + 1
    /\ Give(t, {seq[t]})
    /\ UNCHANGED <<detached, signalled>>

FlushFindsListener(t) ==
    /\ FlushNotify(t)
    /\ IF listener THEN UNCHANGED silent
                   ELSE silent < MaxSilent /\ silent' = silent + 1
    /\ UNCHANGED <<held, detached, signalled>>

Signal(t) ==
    /\ OnBufferAvailable(t)
    /\ signalled < MaxSignals
    /\ signalled' = signalled + 1
    /\ UNCHANGED <<held, detached, silent>>

\* The caches of all clients are emptied with the queue's.
Clean(t) ==
    /\ \A u \in Threads : pc[u] \notin {"flushChecked", "flushCancel", "doFlush",
                                        "relChecked", "relCallback", "doRelease"}
    /\ CleanCache(t)
    /\ held' = [u \in Threads |-> {}]
    /\ UNCHANGED <<detached, signalled, silent>>

-----------------------------------------------------------------------------
(* Consumer calls.                                                         *)

\* The consumer answers one OnBufferAvailable with one AcquireBuffer.
Acquire(t) ==
    /\ signalled > 0
    /\ \/ \E s \in Seqs : AcquireBuffer(t, s) /\ Take(t, {s})
       \/ AcquireNull(t) /\ UNCHANGED held
    /\ signalled' = signalled - 1
    /\ UNCHANGED <<detached, silent>>

\* GSERROR_NO_BUFFER: the buffer of this call was deleted or cleaned.
AcquireNothing(t) ==
    /\ Lock /\ At(t, "idle")
    /\ signalled > 0 /\ dirtyList = << >>
    /\ signalled' = signalled - 1
    /\ UNCHANGED <<vars, held, detached, silent>>

Release(t) ==
    /\ \E s \in held[t] : ReleaseBuffer(t, s)
    /\ UNCHANGED clients

ReleaseSteps(t) ==
    /\ \/ ReleaseListener(t)
       \/ ReleaseTaken(t)
       \/ seq[t] \in held[t] /\ ReleaseDeclined(t)
    /\ UNCHANGED clients

Released(t) ==
    /\ DoReleaseBuffer(t)
    /\ Give(t, {seq[t]})
    /\ UNCHANGED <<detached, signalled, silent>>

-----------------------------------------------------------------------------
(* Calls of either side.                                                   *)

Detach(t) ==
    /\ \E s \in held[t] : /\ pc[t] = "idle" \/ seq[t] = s
                          /\ DetachBuffer(t, s)
                          /\ Give(t, {s})
                          /\ detached' = detached \cup {s}
    /\ UNCHANGED <<signalled, silent>>

Attach(t) ==
    /\ \E s \in detached, c \in Configs : /\ AttachBuffer(t, s, c)
                                          /\ Take(t, {s})
                                          /\ detached' = detached \ {s}
    /\ UNCHANGED <<signalled, silent>>

Resize(t) ==
    /\ \/ \E n \in 0..(MaxQueueSize + 1) : SetQueueSize(t, n)
       \/ SizeDelete(t)
       \/ SizeWrite(t)
    /\ UNCHANGED clients

SetHooks ==
    /\ \/ RegisterConsumerListener
       \/ /\ \A t \in Threads : pc[t] # "flushCall"
          /\ UnregisterConsumerListener
       \/ RegisterReleaseListener
    /\ UNCHANGED clients

\* What a thread inside a call does next.
ProducerStep(t) ==
    \/ RequestReturns(t) \/ FlushReadsListener(t) \/ FlushCancelled(t)
    \/ Flushed(t) \/ FlushFindsListener(t) \/ Signal(t)
ConsumerStep(t) == ReleaseSteps(t) \/ Released(t)

CNext ==
    \/ SetHooks
    \/ \E t \in Producers : \/ ProducerStep(t)
                            \/ Request(t) \/ Cancel(t) \/ Flush(t) \/ Clean(t)
    \/ \E t \in Consumers : \/ ConsumerStep(t)
                            \/ Acquire(t) \/ AcquireNothing(t) \/ Release(t)
    \/ \E t \in Threads : Detach(t) \/ Attach(t) \/ Resize(t)

CSpec == CInit /\ [][CNext]_cvars

-----------------------------------------------------------------------------
(* Properties.                                                             *)

Distinct(q) == \A i, j \in 1..Len(q) : q[i] = q[j] => i = j

\* No buffer is in two hands, and none is lost: the buffers that are out of the
\* queue's lists are exactly those some one client holds, a buffer is on the free
\* list exactly when it is released and on the dirty list exactly when it is
\* flushed, on each once, although FlushBuffer and ReleaseBuffer let go of the lock
\* between their check and their effect.  So the queue never uses a null pointer.
Ownership ==
    /\ \A t, u \in Threads : t # u => held[t] \cap held[u] = {}
    /\ {s \in Seqs : state[s] \in {"requested", "acquired", "attached"}}
         = UNION {held[t] : t \in Threads}
    /\ Distinct(freeList) /\ Distinct(dirtyList)
    /\ Elems(freeList) = {s \in Seqs : state[s] = "released"}
    /\ Elems(dirtyList) = {s \in Seqs : state[s] = "flushed"}
    /\ ~crashed

\* Allocation and attachment never take the cache beyond the queue size of the
\* moment, although the size changes and buffers leave while requests wait.
GrowthWithinQueueSize ==
    [][Cardinality(Entries') > GetUsedSize => Cardinality(Entries') <= queueSize]_cvars

-----------------------------------------------------------------------------
(* The queue implements the exchange.                                      *)

holderMap ==
    [s \in Seqs |->
        IF \E t \in Threads : s \in held[t]
          THEN CHOOSE t \in Threads : s \in held[t]
          ELSE CASE state[s] = "released" -> "free"
                 [] state[s] = "flushed"  -> "queued"
                 [] OTHER                 -> "gone"]

Exchange == INSTANCE BufferExchange
              WITH Clients <- Threads, Buffers <- Seqs,
                   holder <- holderMap, pending <- dirtyList

\* Seen by its clients, the queue with its two-section calls, waits, marks and
\* resizing behaves like the atomic exchange: each buffer in one place, handed
\* over in order, dropped only when nobody holds it.
ImplementsExchange == Exchange!XSpec

-----------------------------------------------------------------------------
(* Liveness.                                                               *)

\* A thread inside a call is scheduled until the call returns or waits, a waiter that
\* was notified is scheduled too, and a consumer answers OnBufferAvailable, as the
\* render service's main loop does, whatever else it has to do.  The end of the
\* timeout of a wait is not assumed.
Fairness ==
    /\ \A t \in Producers : /\ WF_cvars(pc[t] # "reqWait" /\ ProducerStep(t))
                            /\ WF_cvars(t \in notified /\ RequestReturns(t))
    /\ \A t \in Consumers : /\ WF_cvars(ConsumerStep(t))
                            /\ SF_cvars(Acquire(t))
    /\ \A t \in Threads   : WF_cvars(SizeDelete(t) /\ Resize(t))
                            /\ WF_cvars(SizeWrite(t) /\ Resize(t))

FairCSpec == CSpec /\ Fairness

\* A queued buffer does not stay queued: it is acquired (or dropped by a
\* resize or a cleaning), unless some flush left out its listener call.
FramesReachConsumer ==
    \A s \in Seqs : (state[s] = "flushed" /\ silent = 0)
                        ~> (state[s] # "flushed" \/ silent > 0)

\* A buffer that comes back ends the wait for it at once: a request that waits while
\* the free list has a buffer leaves the wait, unless a resize or a cleaning takes the
\* buffer away, because the call that freed the buffer has notified it; the timeout of
\* the wait is not needed.
FreedEndsWait ==
    \A t \in Producers : (pc[t] = "reqWait" /\ freeList # << >>)
                             ~> (pc[t] # "reqWait" \/ freeList = << >>)
=============================================================================
