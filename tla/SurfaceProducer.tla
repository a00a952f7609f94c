-------------------------- MODULE SurfaceProducer --------------------------
(***************************************************************************)
(* The way from a producer to its buffer queue:                            *)
(* ProducerSurface (producer_surface.cpp) in the client's process, the     *)
(* proxy and stub of IBufferProducer (buffer_client_producer.cpp,          *)
(* buffer_queue_producer.cpp), and the queue in the server's process.      *)
(*                                                                         *)
(* A buffer crosses to another process once.  After that the stub sends    *)
(* only its sequence number, and the client takes the buffer from the      *)
(* cache of its surface.  The stub remembers what it has sent to whom, and *)
(* tells clients with the next reused buffer which ones were deleted.      *)
(*                                                                         *)
(* The queue is reduced to what the stub sees of it (BufferQueue models it *)
(* in full): a buffer is free, requested by a client, attached by one, or  *)
(* used, which is queued or with the consumer.  A process has one surface  *)
(* on the queue at a time, and destroys it when none of its threads uses   *)
(* it.                                                                     *)
(***************************************************************************)
EXTENDS Naturals, FiniteSets

CONSTANTS
    Threads,        \* threads that call a surface
    Pids,           \* their processes
    Proc,           \* the process of each thread
    Server,         \* the process of the queue; in Pids if it produces too
    Seqs,           \* bound: the sequence numbers that may be allocated
    NoPid,          \* connectedPid_ = 0
    MaxAttached     \* bound: the buffers that the local producer has attached

ASSUME ProcessAssumption ==
    /\ Proc \in [Threads -> Pids]
    /\ NoPid \notin Pids
    /\ MaxAttached \in Nat

VARIABLES
    state,          \* what the queue knows of each buffer
    deletingList,   \* deletingList_
    connected,      \* connectedPid_
    cache,          \* cache, of all producers of the server's process
    sended,         \* sendeds, for each process
    producerCache,  \* bufferProducerCache_ of the surface of each process
    surface,        \* processes that have a surface
    dead,           \* processes that have ended
    pc,             \* where each thread is
    reply,          \* the return value of the RequestBuffer it is in
    \* of the buffers that no clean has deleted:
    held,           \* those that each process got and has not given back
    dropped,        \* those sent to its surface and dropped by it, when the clean or
                    \* the disconnect that goes with it did not reach the stub
    attached        \* those that came through AttachBuffer

queue  == <<state, deletingList>>
stub   == <<connected, cache, sended>>
client == <<producerCache, surface, dead, held, dropped>>
vars   == <<queue, stub, client, pc, reply, attached>>

States == {"none", "free", "requested", "attached", "used", "gone"}
Labels == {"idle", "queue", "stub", "surface", "clean", "cleanQueue"}
Live   == {s \in Seqs : state[s] \notin {"none", "gone"}}

Nothing == [seqs |-> {}, buffer |-> FALSE, deleting |-> {}]

Init ==
    /\ state = [s \in Seqs |-> "none"]
    /\ deletingList = {}
    /\ connected = NoPid
    /\ cache = {} /\ sended = [p \in Pids |-> {}]
    /\ producerCache = [p \in Pids |-> {}]
    /\ surface = {} /\ dead = {}
    /\ pc = [t \in Threads |-> "idle"]
    /\ reply = [t \in Threads |-> Nothing]
    /\ held = [p \in Pids |-> {}]
    /\ dropped = [p \in Pids |-> {}]
    /\ attached = {}

At(t, label) == pc[t] = label
Alive(t) == Proc[t] \notin dead
Idle(t) == At(t, "idle") /\ Proc[t] \in surface
Goto(t, label) == pc' = [pc EXCEPT ![t] = label]
Return(t) == Goto(t, "idle") /\ reply' = [reply EXCEPT ![t] = Nothing]

Remote(p) == p # Server
ThreadsOf(p) == {t \in Threads : Proc[t] = p}

-----------------------------------------------------------------------------
(* RequestBuffer: four sections, each under a lock of its own.             *)

\* BufferQueueProducer: one process at a time.
Connect(t) ==
    /\ Idle(t)
    /\ connected \in {NoPid, Proc[t]}
    /\ connected' = Proc[t]
    /\ Goto(t, "queue")
    /\ UNCHANGED <<queue, cache, sended, client, reply, attached>>

Answer(t, s, buffer, deleting) ==
    /\ reply' = [reply EXCEPT ![t] = [seqs |-> {s}, buffer |-> buffer,
                                      deleting |-> deleting]]
    /\ Goto(t, "stub")
    /\ UNCHANGED <<stub, client, attached>>

\* The queue: a free buffer of the right kind goes out without its pointer,
Reuse(t, s) ==
    /\ At(t, "queue") /\ state[s] = "free"
    /\ state' = [state EXCEPT ![s] = "requested"]
    /\ deletingList' = {}
    /\ Answer(t, s, FALSE, deletingList)

\* one of the wrong kind makes way for a new one,
Realloc(t, s, new) ==
    /\ At(t, "queue") /\ state[s] = "free" /\ state[new] = "none"
    /\ state' = [state EXCEPT ![s] = "gone", ![new] = "requested"]
    /\ deletingList' = {}
    /\ Answer(t, new, TRUE, deletingList \cup {s})

\* without a free one a new one is made, and deletions are not reported,
Alloc(t, new) ==
    /\ At(t, "queue") /\ state[new] = "none"
    /\ \A s \in Seqs : state[s] # "free"
    /\ state' = [state EXCEPT ![new] = "requested"]
    /\ UNCHANGED deletingList
    /\ Answer(t, new, TRUE, {})

\* or the request fails.
RequestFails(t) ==
    /\ At(t, "queue")
    /\ Return(t)
    /\ UNCHANGED <<queue, stub, client, attached>>

\* cache[sequence].promote(): the cache holds weak pointers.  The queue and the
\* surface of the server's own process keep a buffer alive; others may.
Promoted(s) ==
    IF s \notin cache THEN {FALSE}
    ELSE IF s \in Live \/ (Server \in Pids /\ s \in producerCache[Server])
           THEN {TRUE} ELSE BOOLEAN

\* The buffer goes along if the queue has just made it, if the caller is local,
\* or if it has not been sent to the caller's process.
StubUpdate(t, known) ==
    LET p == Proc[t]
        s == CHOOSE n \in Seqs : reply[t].seqs = {n}
        deleting == reply[t].deleting
    IN  /\ \E found \in Promoted(s) :
             reply' = [reply EXCEPT ![t].buffer =
                           @ \/ (found /\ (~Remote(p) \/ s \notin known))]
        /\ cache' = (IF reply[t].buffer THEN cache \cup {s} ELSE cache) \ deleting
        /\ sended' = [sended EXCEPT ![p] =
              (IF reply[t].buffer \/ Remote(p) THEN @ \cup {s} ELSE @) \ deleting]
        /\ Goto(t, "surface")
        /\ UNCHANGED <<queue, connected, client, attached>>

Stub_AnyPid(t) ==
    /\ At(t, "stub")
    /\ StubUpdate(t, UNION {sended[p] : p \in Pids})

Stub(t) ==
    /\ At(t, "stub")
    /\ StubUpdate(t, sended[Proc[t]])

\* The reply does not arrive: GSERROR_BINDER.
ReplyLost(t) ==
    /\ At(t, "surface") /\ Alive(t) /\ Remote(Proc[t])
    /\ Return(t)
    /\ UNCHANGED <<queue, stub, client, attached>>

\* ProducerSurface: a buffer that came is cached.
Receive(t) ==
    LET p == Proc[t] IN
    /\ At(t, "surface") /\ Alive(t) /\ reply[t].buffer
    /\ producerCache' = [producerCache EXCEPT ![p] =
                            (@ \cup reply[t].seqs) \ reply[t].deleting]
    /\ held' = [held EXCEPT ![p] = @ \cup reply[t].seqs]
    /\ dropped' = [dropped EXCEPT ![p] = @ \ reply[t].seqs]
    /\ Return(t)
    /\ UNCHANGED <<queue, stub, surface, dead, attached>>

\* One that did not come is in the cache already.
Lookup(t) ==
    LET p == Proc[t] IN
    /\ At(t, "surface") /\ Alive(t) /\ ~reply[t].buffer
    /\ reply[t].seqs \subseteq producerCache[p]
    /\ producerCache' = [producerCache EXCEPT ![p] = @ \ reply[t].deleting]
    /\ held' = [held EXCEPT ![p] = @ \cup reply[t].seqs]
    /\ Return(t)
    /\ UNCHANGED <<queue, stub, surface, dead, dropped, attached>>

\* GSERROR_API_FAILED: the buffer stays requested and the deletions unnoticed.
LookupFails(t) ==
    /\ At(t, "surface") /\ Alive(t) /\ ~reply[t].buffer
    /\ ~(reply[t].seqs \subseteq producerCache[Proc[t]])
    /\ Return(t)
    /\ UNCHANGED <<queue, stub, client, attached>>

-----------------------------------------------------------------------------
(* The other calls.                                                        *)

GiveBack(t, s) ==
    /\ Idle(t) /\ s \in held[Proc[t]]
    /\ held' = [held EXCEPT ![Proc[t]] = @ \ {s}]
    /\ UNCHANGED <<stub, producerCache, surface, dead, dropped, pc, reply, attached>>

\* The queue no longer knows the buffer: GSERROR_NO_ENTRY.
GiveBackUnknown(t, s) ==
    /\ s \notin Live
    /\ GiveBack(t, s)
    /\ UNCHANGED queue

CancelBuffer(t, s) ==
    /\ state[s] = "requested"
    /\ GiveBack(t, s)
    /\ state' = [state EXCEPT ![s] = "free"]
    /\ UNCHANGED deletingList

DeleteInCache_KeepsElement(s) ==
    deletingList' = deletingList \cup {s} /\ UNCHANGED state

\* BufferQueue::DeleteBufferInCache
DeleteInCache(s) ==
    /\ state' = [state EXCEPT ![s] = "gone"]
    /\ deletingList' = deletingList \cup {s}

\* A buffer that the queue has marked for deletion is deleted instead.
FlushBuffer(t, s) ==
    /\ state[s] \in {"requested", "attached"}
    /\ GiveBack(t, s)
    /\ \/ state' = [state EXCEPT ![s] = "used"] /\ UNCHANGED deletingList
       \/ DeleteInCache(s)

\* Only local producers can; the buffer comes with its own sequence number.
AttachBuffer(t, s) ==
    /\ Cardinality(attached) < MaxAttached /\ Idle(t) /\ ~Remote(Proc[t]) /\ state[s] = "none"
    /\ state' = [state EXCEPT ![s] = "attached"]
    /\ held' = [held EXCEPT ![Proc[t]] = @ \cup {s}]
    /\ attached' = attached \cup {s}
    /\ UNCHANGED <<deletingList, stub, producerCache, surface, dead, dropped, pc, reply>>

\* The consumer releases a buffer, or SetQueueSize deletes one.
Recycle(s) ==
    /\ state[s] = "used"
    /\ \/ state' = [state EXCEPT ![s] = "free"] /\ UNCHANGED deletingList
       \/ DeleteInCache(s)
    /\ UNCHANGED <<stub, client, pc, reply, attached>>

DeleteFree(s) ==
    /\ state[s] = "free"
    /\ DeleteInCache(s)
    /\ UNCHANGED <<stub, client, pc, reply, attached>>

\* ProducerSurface::CleanCache: a remote surface empties its own cache first.
CleanCache(t) ==
    /\ Idle(t) /\ Remote(Proc[t])
    /\ producerCache' = [producerCache EXCEPT ![Proc[t]] = {}]
    /\ Goto(t, "clean")
    /\ UNCHANGED <<queue, stub, surface, dead, held, dropped, reply, attached>>

\* The call to the stub fails with GSERROR_BINDER: the surface has dropped its
\* buffers, and the stub still counts them as sent.
CleanLost(t) ==
    LET p == Proc[t] IN
    /\ At(t, "clean") /\ Remote(p)
    /\ dropped' = [dropped EXCEPT ![p] = @ \cup (sended[p] \ producerCache[p])]
    /\ Return(t)
    /\ UNCHANGED <<queue, stub, producerCache, surface, dead, held, attached>>

\* BufferQueueProducer::CleanCache, for the connected process or for nobody; a local
\* surface calls it at once.
StubCleans(t) ==
    /\ At(t, "clean") \/ (Idle(t) /\ ~Remote(Proc[t]))
    /\ IF connected \in {NoPid, Proc[t]}
         THEN Goto(t, "cleanQueue") /\ UNCHANGED reply
         ELSE Return(t)
    /\ UNCHANGED <<queue, stub, client, attached>>

CreateSurface(p) ==
    /\ p \notin surface \cup dead
    /\ surface' = surface \cup {p}
    /\ UNCHANGED <<queue, stub, producerCache, dead, held, dropped, pc, reply, attached>>

\* The destructor of the surface.
SurfaceEnds(t) ==
    LET p == Proc[t] IN
    /\ Idle(t) /\ \A u \in ThreadsOf(p) : pc[u] = "idle"
    /\ surface' = surface \ {p}
    /\ producerCache' = [producerCache EXCEPT ![p] = {}]
    /\ held' = [held EXCEPT ![p] = {}]
    /\ UNCHANGED <<queue, cache, sended, dead, reply, attached>>

\* BufferQueueProducer::Disconnect: the stub forgets the connection under its
\* lock, and cleans the queue after it.
DestroySurface(t) ==
    /\ SurfaceEnds(t)
    /\ IF connected \in {NoPid, Proc[t]}
         THEN connected' = NoPid /\ Goto(t, "cleanQueue")
         ELSE UNCHANGED <<connected, pc>>
    /\ UNCHANGED dropped

\* Disconnect fails with GSERROR_BINDER, which the destructor ignores: the stub
\* keeps the connection and its record.
DisconnectLost(t) ==
    LET p == Proc[t] IN
    /\ SurfaceEnds(t) /\ Remote(p)
    /\ dropped' = [dropped EXCEPT ![p] = @ \cup sended[p]]
    /\ UNCHANGED <<connected, pc>>

\* BufferQueue::CleanCache, called without the stub's lock.
CleanQueue ==
    /\ state' = [s \in Seqs |-> IF s \in Live THEN "gone" ELSE state[s]]
    /\ deletingList' = {}

QueueCleans(t) ==
    /\ At(t, "cleanQueue")
    /\ CleanQueue
    /\ held' = [p \in Pids |-> {}] /\ dropped' = [p \in Pids |-> {}]
    /\ attached' = {}
    /\ Goto(t, "idle")
    /\ UNCHANGED <<stub, producerCache, surface, dead, reply>>

\* The client's process ends.  A call in the server goes on; nobody tells the stub.
Die(p) ==
    /\ Remote(p) /\ p \notin dead
    /\ dead' = dead \cup {p}
    /\ surface' = surface \ {p}
    /\ producerCache' = [producerCache EXCEPT ![p] = {}]
    /\ held' = [held EXCEPT ![p] = {}]
    /\ dropped' = [dropped EXCEPT ![p] = {}]
    /\ UNCHANGED <<queue, stub, pc, reply, attached>>

-----------------------------------------------------------------------------
(* The specification.                                                      *)

Request(t) ==
    \/ Connect(t) \/ RequestFails(t)
    \/ \E s \in Seqs : Reuse(t, s) \/ Alloc(t, s)
    \/ \E s, new \in Seqs : Realloc(t, s, new)
    \/ Stub(t) \/ ReplyLost(t) \/ Receive(t) \/ Lookup(t) \/ LookupFails(t)

Others(t) ==
    \/ \E s \in Seqs : \/ GiveBackUnknown(t, s) \/ CancelBuffer(t, s)
                       \/ FlushBuffer(t, s) \/ AttachBuffer(t, s)
    \/ CleanCache(t) \/ CleanLost(t) \/ StubCleans(t)
    \/ DestroySurface(t) \/ DisconnectLost(t) \/ QueueCleans(t)

Next ==
    \/ \E t \in Threads : Request(t) \/ Others(t)
    \/ \E s \in Seqs : Recycle(s) \/ DeleteFree(s)
    \/ \E p \in Pids : CreateSurface(p) \/ Die(p)

Spec == Init /\ [][Next]_vars

-----------------------------------------------------------------------------
(* Properties.                                                             *)

ReplyValues == [seqs : SUBSET Seqs, buffer : BOOLEAN, deleting : SUBSET Seqs]

QueueOK ==
    /\ state \in [Seqs -> States]
    /\ deletingList \subseteq {s \in Seqs : state[s] = "gone"}
StubOK ==
    /\ connected \in Pids \cup {NoPid}
    /\ cache \subseteq Seqs /\ sended \in [Pids -> SUBSET Seqs]
ClientOK ==
    /\ producerCache \in [Pids -> SUBSET Seqs] /\ held \in [Pids -> SUBSET Seqs]
    /\ dropped \in [Pids -> SUBSET Seqs]
    /\ surface \subseteq Pids /\ dead \subseteq Pids
    /\ attached \subseteq Seqs
CallsOK ==
    /\ pc \in [Threads -> Labels]
    /\ reply \in [Threads -> ReplyValues]
    /\ \A t \in Threads : pc[t] \in {"stub", "surface"} =>
                            \E s \in Seqs : reply[t].seqs = {s}

\* The variables have their types, a reply on its way is about one buffer, and only
\* deleted buffers are reported as deleted.
TypeOK == QueueOK /\ StubOK /\ ClientOK /\ CallsOK

Cleaning(p) == \E t \in ThreadsOf(p) : pc[t] \in {"clean", "cleanQueue"}

\* A buffer that the stub leaves out of its reply is in the cache of the surface
\* that asked: RequestBuffer fails with GSERROR_API_FAILED only for a buffer that
\* was attached (LocalNonNull is about those) or deleted meanwhile, while another
\* thread of the process cleans or destroys a surface, or for one of the buffers
\* that the surface dropped with a clean or disconnect that was lost on the way, as
\* long as it has not been sent again; also when replies get lost, processes change
\* or deletions are reported late.
LeftOutIsCached ==
    \A t \in Threads : At(t, "surface") /\ Alive(t) /\ ~reply[t].buffer =>
        \/ reply[t].seqs \subseteq producerCache[Proc[t]]
        \/ reply[t].seqs \cap Live = {}
        \/ Cleaning(Proc[t])
        \/ reply[t].seqs \subseteq dropped[Proc[t]]
        \/ reply[t].seqs \subseteq attached

\* The comment in BufferQueueProducer::RequestBuffer: a local call always returns
\* a non-null pointer.
LocalNonNull ==
    \A t \in Threads : At(t, "surface") /\ ~Remote(Proc[t]) => reply[t].buffer
=============================================================================
