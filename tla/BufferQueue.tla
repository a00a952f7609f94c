---------------------------- MODULE BufferQueue ----------------------------
(***************************************************************************)
(* frameworks/surface/src/buffer_queue.cpp: the queue of graphic buffers   *)
(* between a producer (the application that draws) and a consumer (the     *)
(* render service), in its ordinary, non-shared mode.                      *)
(*                                                                         *)
(* Any thread may call any operation with any argument at any time: IPC    *)
(* threads of the queue's process call in for the producers, and the       *)
(* consumer calls in from its own threads.  Every section that holds       *)
(* mutex_ is one action; a call that takes the mutex more than once, or    *)
(* that reads a field outside it, is several actions, and the thread's pc  *)
(* says where it is between them.  A call that returns an error before it  *)
(* changes anything changes no variable and has no action.                 *)
(*                                                                         *)
(* Abstractions.  A buffer is its sequence number.  A request config is a  *)
(* member of Configs (the ones CheckRequestConfig accepts); what matters   *)
(* is only whether two are equal.  Pixel data, fences, damage and          *)
(* timestamps are left out.  A failed allocation consumes no number here:  *)
(* a number that is never used is not observable.                          *)
(***************************************************************************)
EXTENDS Integers, Sequences, FiniteSets

CONSTANTS
    Threads,            \* threads that call into the queue
    Configs,            \* valid BufferRequestConfig values
    NoConfig,           \* config of a value-initialised BufferElement
    MaxSeq,             \* bound: SurfaceBufferImpl objects ever created
    MaxQueueSize,       \* SURFACE_MAX_QUEUE_SIZE
    DefaultQueueSize,   \* SURFACE_DEFAULT_QUEUE_SIZE
    MaxListLen          \* bound: length of freeList_ and of dirtyList_

ASSUME ConfigAssumption == NoConfig \notin Configs

ASSUME SizeAssumption ==
    /\ MaxSeq \in Nat \ {0}
    /\ MaxQueueSize \in Nat \ {0}
    /\ DefaultQueueSize \in 1..MaxQueueSize
    /\ MaxListLen \in Nat

VARIABLES
    state,          \* bufferQueueCache_[s].state, "none" if s is not a key
    isDeleting,     \* bufferQueueCache_[s].isDeleting
    config,         \* bufferQueueCache_[s].config, NoConfig iff .buffer is null
    freeList,       \* freeList_
    dirtyList,      \* dirtyList_
    deletingList,   \* deletingList_, whose order nobody uses
    queueSize,      \* queueSize_
    nextSeq,        \* next number of SurfaceBufferImpl's counter
    listener,       \* listener_ or listenerClazz_ is set
    releaseListener,\* onBufferRelease is set
    pc,             \* where each thread is in its call
    seq,            \* the sequence argument of the call in progress
    want,           \* the config argument of the RequestBuffer in progress
    sizing,         \* <<new size, buffers to delete>> of SetQueueSize
    notified,       \* waiters that notify_all has woken
    crashed,        \* a null pointer was used or an exception left the queue
    selfLocked      \* a thread waits for mutex_ while it holds it

entries == <<state, isDeleting, config>>
lists   == <<freeList, dirtyList, deletingList>>
hooks   == <<listener, releaseListener>>
calls   == <<seq, want, sizing>>
fatal   == <<crashed, selfLocked>>
vars    == <<state, isDeleting, config, freeList, dirtyList, deletingList,
             queueSize, nextSeq, listener, releaseListener, pc, seq, want,
             sizing, notified, crashed, selfLocked>>

Seqs   == 1..MaxSeq
States == {"none", "released", "requested", "flushed", "acquired", "attached"}
Labels == {"idle", "reqLock", "reqWait",
           "flushChecked", "flushCancel", "doFlush", "flushDone", "flushCall",
           "relChecked", "relCallback", "doRelease",
           "sizeDelete", "sizeWrite"}

Elems(q) == {q[i] : i \in 1..Len(q)}

\* The keys of bufferQueueCache_, and GetUsedSize().
Entries == {s \in Seqs : state[s] # "none"}
GetUsedSize == Cardinality(Entries)

\* bufferQueueCache_[s].buffer is null: s is absent, and operator[] inserts a
\* value-initialised element, or it is such an element already.
IsNull(s) == config[s] = NoConfig

Waiting == {t \in Threads : pc[t] = "reqWait"}

Init ==
    /\ state = [s \in Seqs |-> "none"]
    /\ isDeleting = [s \in Seqs |-> FALSE]
    /\ config = [s \in Seqs |-> NoConfig]
    /\ freeList = << >> /\ dirtyList = << >> /\ deletingList = {}
    /\ queueSize = DefaultQueueSize
    /\ nextSeq = 1
    /\ listener = FALSE /\ releaseListener = FALSE
    /\ pc = [t \in Threads |-> "idle"]
    /\ seq = [t \in Threads |-> 0]
    /\ want = [t \in Threads |-> NoConfig]
    /\ sizing = [t \in Threads |-> <<0, 0>>]
    /\ notified = {}
    /\ crashed = FALSE /\ selfLocked = FALSE

-----------------------------------------------------------------------------
(* Steps of a call.                                                        *)

Running == ~crashed
Lock    == ~crashed /\ ~selfLocked

At(t, label)   == pc[t] = label
Goto(t, label) == pc' = [pc EXCEPT ![t] = label] /\ UNCHANGED calls
Return(t) ==
    /\ pc' = [pc EXCEPT ![t] = "idle"]
    /\ seq' = [seq EXCEPT ![t] = 0]
    /\ want' = [want EXCEPT ![t] = NoConfig]
    /\ sizing' = [sizing EXCEPT ![t] = <<0, 0>>]

Crash ==
    /\ crashed' = TRUE
    /\ UNCHANGED <<entries, lists, queueSize, nextSeq, hooks, pc, calls,
                   notified, selfLocked>>

\* waitReqCon_.notify_all()
NotifyAll == notified' = Waiting

\* The entries without those of D, which DeleteBufferInCache reports.
DeleteBufferInCache(D) ==
    /\ state' = [s \in Seqs |-> IF s \in D THEN "none" ELSE state[s]]
    /\ isDeleting' = [s \in Seqs |-> s \notin D /\ isDeleting[s]]
    /\ config' = [s \in Seqs |-> IF s \in D THEN NoConfig ELSE config[s]]

PutElement(s, st, c) ==
    /\ state' = [state EXCEPT ![s] = st]
    /\ isDeleting' = [isDeleting EXCEPT ![s] = FALSE]
    /\ config' = [config EXCEPT ![s] = c]

-----------------------------------------------------------------------------
(* RequestBuffer.                                                          *)

\* RequestBuffer returns, and is no longer one of the waiters if it was one.
Resume(t) == Return(t) /\ notified' = notified \ {t}

\* The unlocked part: a listener is needed, and the config is a valid one.
RequestBuffer(t, c) ==
    /\ Running /\ At(t, "idle") /\ listener
    /\ pc' = [pc EXCEPT ![t] = "reqLock"]
    /\ want' = [want EXCEPT ![t] = c]
    /\ UNCHANGED <<entries, lists, queueSize, nextSeq, hooks, seq, sizing,
                   notified, fatal>>

\* PopFromFreeList takes position i: the first element with the wanted config,
\* or the front when there is none.
PopFromFreeList(i, c) ==
    /\ i \in 1..Len(freeList)
    /\ \/ /\ config[freeList[i]] = c
          /\ \A j \in 1..(i - 1) : config[freeList[j]] # c
       \/ /\ i = 1
          /\ \A j \in 1..Len(freeList) : config[freeList[j]] # c

\* The elements PopFromFreeList looks up on its way; operator[] inserts one for
\* each of them that is not a key.
Scanned(i, c) ==
    IF config[freeList[i]] = c THEN {freeList[j] : j \in 1..i}
                               ELSE Elems(freeList)
Touch(S) == [s \in Seqs |-> IF s \in S /\ state[s] = "none" THEN "released"
                                                            ELSE state[s]]

RemoveAt(q, i) == [j \in 1..(Len(q) - 1) |-> IF j < i THEN q[j] ELSE q[j + 1]]

\* The popped buffer has the wanted config and is handed out.
ReuseSame(t, i) ==
    LET s == freeList[i] IN
    /\ PopFromFreeList(i, want[t])
    /\ config[s] = want[t]
    /\ state' = [Touch(Scanned(i, want[t])) EXCEPT ![s] = "requested"]
    /\ freeList' = RemoveAt(freeList, i)
    /\ deletingList' = {}
    /\ Resume(t)
    /\ UNCHANGED <<isDeleting, config, dirtyList, nextSeq, crashed>>

\* The popped buffer has another config: it is deleted and a new one allocated.
ReuseRealloc(t, i) ==
    LET s == freeList[i]
        touched == Touch(Scanned(i, want[t])) IN
    /\ PopFromFreeList(i, want[t])
    /\ ~IsNull(s) /\ config[s] # want[t]
    /\ nextSeq <= MaxSeq
    /\ state' = [touched EXCEPT ![s] = "none", ![nextSeq] = "requested"]
    /\ isDeleting' = [isDeleting EXCEPT ![s] = FALSE, ![nextSeq] = FALSE]
    /\ config' = [config EXCEPT ![s] = NoConfig, ![nextSeq] = want[t]]
    /\ nextSeq' = nextSeq + 1
    /\ freeList' = RemoveAt(freeList, i)
    /\ deletingList' = {}
    /\ Resume(t)
    /\ UNCHANGED <<dirtyList, crashed>>

\* The same, but Alloc or Map fails: the old buffer is gone and stays listed.
ReuseReallocFails(t, i) ==
    LET s == freeList[i]
        touched == Touch(Scanned(i, want[t])) IN
    /\ PopFromFreeList(i, want[t])
    /\ ~IsNull(s) /\ config[s] # want[t]
    /\ state' = [touched EXCEPT ![s] = "none"]
    /\ isDeleting' = [isDeleting EXCEPT ![s] = FALSE]
    /\ config' = [config EXCEPT ![s] = NoConfig]
    /\ freeList' = RemoveAt(freeList, i)
    /\ deletingList' = deletingList \cup {s}
    /\ Resume(t)
    /\ UNCHANGED <<dirtyList, nextSeq, crashed>>

\* The popped element has no buffer: retval.buffer->GetSeqNum() dereferences null.
ReuseNull(t, i) ==
    /\ PopFromFreeList(i, want[t])
    /\ IsNull(freeList[i])
    /\ Crash

ReuseBuffer(t, i) ==
    /\ \/ ReuseSame(t, i)
       \/ ReuseRealloc(t, i)
       \/ ReuseReallocFails(t, i)
       \/ ReuseNull(t, i)
    /\ UNCHANGED <<queueSize, hooks, selfLocked>>

AllocBuffer(t) ==
    /\ nextSeq <= MaxSeq
    /\ PutElement(nextSeq, "requested", want[t])
    /\ nextSeq' = nextSeq + 1
    /\ Resume(t)
    /\ UNCHANGED <<lists, queueSize, hooks, fatal>>

\* GSERROR_NO_BUFFER, or Alloc or Map fails.
RequestFails(t) ==
    /\ Resume(t)
    /\ UNCHANGED <<entries, lists, queueSize, nextSeq, hooks, fatal>>

\* The first try under the lock.  With the free list empty and the queue full
\* the thread waits on waitReqCon_, which releases the lock.
RequestLocked(t) ==
    /\ Lock /\ At(t, "reqLock")
    /\ \/ \E i \in 1..Len(freeList) : ReuseBuffer(t, i)
       \/ /\ freeList = << >> /\ GetUsedSize >= queueSize
          /\ Goto(t, "reqWait")
          /\ UNCHANGED <<entries, lists, queueSize, nextSeq, hooks, notified,
                         fatal>>
       \/ /\ freeList = << >> /\ GetUsedSize < queueSize
          /\ AllocBuffer(t) \/ RequestFails(t)

RequestRetry_NoRecheck(t) ==
    /\ Lock /\ At(t, "reqWait")
    /\ \/ \E i \in 1..Len(freeList) : ReuseBuffer(t, i)
       \/ freeList = << >> /\ (AllocBuffer(t) \/ RequestFails(t))

\* wait_for returns, because the predicate holds or because the timeout is
\* over, and the thread tries again.
RequestRetry(t) ==
    /\ Lock /\ At(t, "reqWait")
    /\ \/ \E i \in 1..Len(freeList) : ReuseBuffer(t, i)
       \/ freeList = << >> /\ GetUsedSize >= queueSize /\ RequestFails(t)
       \/ /\ freeList = << >> /\ GetUsedSize < queueSize
          /\ AllocBuffer(t) \/ RequestFails(t)

\* A woken thread finds the predicate false and waits on.
WaitAgain(t) ==
    /\ Lock /\ At(t, "reqWait") /\ t \in notified
    /\ freeList = << >> /\ GetUsedSize >= queueSize
    /\ notified' = notified \ {t}
    /\ UNCHANGED <<entries, lists, queueSize, nextSeq, hooks, pc, calls, fatal>>

-----------------------------------------------------------------------------
(* CancelBuffer.  A buffer marked isDeleting goes back to the free list     *)
(* all the same.                                                           *)

CancelEffect_NoNotify(s) ==
    /\ state[s] = "requested"
    /\ ~IsNull(s)
    /\ Len(freeList) < MaxListLen
    /\ state' = [state EXCEPT ![s] = "released"]
    /\ freeList' = Append(freeList, s)
    /\ UNCHANGED <<isDeleting, config, dirtyList, deletingList, notified>>

CancelEffect(s) ==
    /\ state[s] = "requested"
    /\ ~IsNull(s)
    /\ Len(freeList) < MaxListLen
    /\ state' = [state EXCEPT ![s] = "released"]
    /\ freeList' = Append(freeList, s)
    /\ NotifyAll
    /\ UNCHANGED <<isDeleting, config, dirtyList, deletingList>>

CancelBuffer(t, s) ==
    /\ Lock /\ At(t, "idle")
    /\ CancelEffect(s)
    /\ UNCHANGED <<queueSize, nextSeq, hooks, pc, calls, fatal>>

-----------------------------------------------------------------------------
(* FlushBuffer.  The state is checked under the lock, the lock is released, *)
(* and DoFlushBuffer takes it again without a second check.                *)

FlushBuffer(t, s) ==
    /\ Lock /\ At(t, "idle")
    /\ state[s] \in {"requested", "attached"}
    /\ pc' = [pc EXCEPT ![t] = "flushChecked"]
    /\ seq' = [seq EXCEPT ![t] = s]
    /\ UNCHANGED <<entries, lists, queueSize, nextSeq, hooks, want, sizing,
                   notified, fatal>>

\* listener_ == nullptr && listenerClazz_ == nullptr, read without the lock
FlushListener(t) ==
    /\ Running /\ At(t, "flushChecked")
    /\ Goto(t, IF listener THEN "doFlush" ELSE "flushCancel")
    /\ UNCHANGED <<entries, lists, queueSize, nextSeq, hooks, notified, fatal>>

\* There is no consumer: CancelBuffer, whose result is ignored.
FlushCancel(t) ==
    /\ Lock /\ At(t, "flushCancel")
    /\ \/ CancelEffect(seq[t])
       \/ state[seq[t]] # "requested" /\ UNCHANGED <<entries, lists, notified>>
    /\ Return(t)
    /\ UNCHANGED <<queueSize, nextSeq, hooks, fatal>>

\* DoFlushBuffer on a buffer that SetQueueSize has marked: it is dropped, and
\* FlushBuffer goes on to call the listener.
FlushDeletes(t) ==
    /\ isDeleting[seq[t]]
    /\ DeleteBufferInCache({seq[t]})
    /\ deletingList' = deletingList \cup {seq[t]}
    /\ Goto(t, "flushDone")
    /\ UNCHANGED <<freeList, dirtyList, crashed>>

\* The buffer is queued.  FlushCache may then fail, and FlushBuffer returns its
\* error without calling the listener.
FlushQueues(t, cacheOk) ==
    /\ ~isDeleting[seq[t]] /\ ~IsNull(seq[t])
    /\ Len(dirtyList) < MaxListLen
    /\ state' = [state EXCEPT ![seq[t]] = "flushed"]
    /\ dirtyList' = Append(dirtyList, seq[t])
    /\ IF cacheOk THEN Goto(t, "flushDone") ELSE Return(t)
    /\ UNCHANGED <<isDeleting, config, freeList, deletingList, crashed>>

\* The buffer has left the cache: SetExtraData is called on a null pointer.
FlushNull(t) == ~isDeleting[seq[t]] /\ IsNull(seq[t]) /\ Crash

DoFlushBuffer(t, cacheOk) ==
    /\ Lock /\ At(t, "doFlush")
    /\ FlushDeletes(t) \/ FlushQueues(t, cacheOk) \/ FlushNull(t)
    /\ UNCHANGED <<queueSize, nextSeq, hooks, notified, selfLocked>>

FlushNotify_Silent(t) ==
    /\ Running /\ At(t, "flushDone")
    /\ Return(t)
    /\ UNCHANGED <<entries, lists, queueSize, nextSeq, hooks, notified, fatal>>

FlushNotify(t) ==
    /\ Running /\ At(t, "flushDone")
    /\ IF listener THEN Goto(t, "flushCall") ELSE Return(t)
    /\ UNCHANGED <<entries, lists, queueSize, nextSeq, hooks, notified, fatal>>

\* OnBufferAvailable().  UnregisterConsumerListener may have cleared the pointer
\* since the test: a data race, whose outcomes are the call and a null pointer.
OnBufferAvailable(t) ==
    /\ Running /\ At(t, "flushCall")
    /\ Return(t)
    /\ UNCHANGED <<entries, lists, queueSize, nextSeq, hooks, notified, fatal>>

ListenerGone(t) == Running /\ At(t, "flushCall") /\ ~listener /\ Crash

-----------------------------------------------------------------------------
(* AcquireBuffer.  A state other than flushed is only a warning.           *)

AcquireEffect_NullMarked(s) ==
    /\ dirtyList # << >> /\ s = Head(dirtyList)
    /\ state' = [state EXCEPT ![s] = "acquired"]
    /\ dirtyList' = Tail(dirtyList)

AcquireEffect_Newest(s) ==
    /\ dirtyList # << >> /\ s = dirtyList[Len(dirtyList)] /\ ~IsNull(s)
    /\ state' = [state EXCEPT ![s] = "acquired"]
    /\ dirtyList' = SubSeq(dirtyList, 1, Len(dirtyList) - 1)

AcquireEffect(s) ==
    /\ dirtyList # << >> /\ s = Head(dirtyList) /\ ~IsNull(s)
    /\ state' = [state EXCEPT ![s] = "acquired"]
    /\ dirtyList' = Tail(dirtyList)

AcquireBuffer(t, s) ==
    /\ Lock /\ At(t, "idle")
    /\ AcquireEffect(s)
    /\ UNCHANGED <<isDeleting, config, freeList, deletingList, queueSize,
                   nextSeq, hooks, pc, calls, notified, fatal>>

\* buffer->GetSeqNum() on the null pointer of an absent element
AcquireNull(t) ==
    /\ Lock /\ At(t, "idle")
    /\ dirtyList # << >> /\ IsNull(Head(dirtyList))
    /\ Crash

-----------------------------------------------------------------------------
(* ReleaseBuffer, like FlushBuffer, checks and acts under two locks.       *)

ReleaseBuffer(t, s) ==
    /\ Lock /\ At(t, "idle")
    /\ state[s] \in {"acquired", "attached"}
    /\ pc' = [pc EXCEPT ![t] = "relChecked"]
    /\ seq' = [seq EXCEPT ![t] = s]
    /\ UNCHANGED <<entries, lists, queueSize, nextSeq, hooks, want, sizing,
                   notified, fatal>>

ReleaseListener(t) ==
    /\ Running /\ At(t, "relChecked")
    /\ Goto(t, IF releaseListener THEN "relCallback" ELSE "doRelease")
    /\ UNCHANGED <<entries, lists, queueSize, nextSeq, hooks, notified, fatal>>

\* onBufferRelease returns GSERROR_OK: the buffer stays as it is.
ReleaseTaken(t) ==
    /\ Running /\ At(t, "relCallback")
    /\ Return(t)
    /\ UNCHANGED <<entries, lists, queueSize, nextSeq, hooks, notified, fatal>>

\* onBufferRelease returns an error.
ReleaseDeclined(t) ==
    /\ Running /\ At(t, "relCallback")
    /\ Goto(t, "doRelease")
    /\ UNCHANGED <<entries, lists, queueSize, nextSeq, hooks, notified, fatal>>

\* The second section.  operator[] inserts an element without a buffer if the
\* key has gone meanwhile.
ReleaseFrees(t) ==
    /\ ~isDeleting[seq[t]]
    /\ Len(freeList) < MaxListLen
    /\ state' = [state EXCEPT ![seq[t]] = "released"]
    /\ freeList' = Append(freeList, seq[t])
    /\ UNCHANGED <<isDeleting, config, dirtyList, deletingList>>

ReleaseDeletes(t) ==
    /\ isDeleting[seq[t]]
    /\ DeleteBufferInCache({seq[t]})
    /\ deletingList' = deletingList \cup {seq[t]}
    /\ UNCHANGED <<freeList, dirtyList>>

DoReleaseBuffer_NoNotify(t) ==
    /\ Lock /\ At(t, "doRelease")
    /\ ReleaseFrees(t) \/ ReleaseDeletes(t)
    /\ Return(t)
    /\ UNCHANGED <<queueSize, nextSeq, hooks, notified, fatal>>

DoReleaseBuffer(t) ==
    /\ Lock /\ At(t, "doRelease")
    /\ ReleaseFrees(t) \/ ReleaseDeletes(t)
    /\ NotifyAll
    /\ Return(t)
    /\ UNCHANGED <<queueSize, nextSeq, hooks, fatal>>

-----------------------------------------------------------------------------
(* SetQueueSize and DeleteBuffers.                                         *)

\* The k smallest members of S: the first k keys of the ordered map.
Smallest(S, k) == {s \in S : Cardinality({r \in S : r < s}) < k}

Least(a, b) == IF a <= b THEN a ELSE b

DeleteBuffers_KeepsDirty(count) ==
    LET nf   == Least(count, Len(freeList))
        nd   == Least(count - nf, Len(dirtyList))
        gone == {freeList[i] : i \in 1..nf} \cup {dirtyList[i] : i \in 1..nd}
        mark == Smallest(Entries \ gone, count - nf - nd) IN
    /\ state' = [s \in Seqs |-> IF s \in gone THEN "none" ELSE state[s]]
    /\ config' = [s \in Seqs |-> IF s \in gone THEN NoConfig ELSE config[s]]
    /\ isDeleting' = [s \in Seqs |-> /\ s \notin gone
                                     /\ isDeleting[s] \/ s \in mark]
    /\ freeList' = SubSeq(freeList, nf + 1, Len(freeList))
    /\ dirtyList' = dirtyList
    /\ deletingList' = deletingList \cup (gone \cap Entries)

\* DeleteBuffers(count): the front of the free list, then the front of the
\* dirty list, then a mark on the first keys that are left.
DeleteBuffers(count) ==
    LET nf   == Least(count, Len(freeList))
        nd   == Least(count - nf, Len(dirtyList))
        gone == {freeList[i] : i \in 1..nf} \cup {dirtyList[i] : i \in 1..nd}
        mark == Smallest(Entries \ gone, count - nf - nd) IN
    /\ state' = [s \in Seqs |-> IF s \in gone THEN "none" ELSE state[s]]
    /\ config' = [s \in Seqs |-> IF s \in gone THEN NoConfig ELSE config[s]]
    /\ isDeleting' = [s \in Seqs |-> /\ s \notin gone
                                     /\ isDeleting[s] \/ s \in mark]
    /\ freeList' = SubSeq(freeList, nf + 1, Len(freeList))
    /\ dirtyList' = SubSeq(dirtyList, nd + 1, Len(dirtyList))
    /\ deletingList' = deletingList \cup (gone \cap Entries)

SetQueueSize_NoRange(t, n) ==
    /\ Running /\ At(t, "idle")
    /\ pc' = [pc EXCEPT ![t] = "sizeWrite"]
    /\ sizing' = [sizing EXCEPT ![t] = <<n, 0>>]
    /\ UNCHANGED <<entries, lists, queueSize, nextSeq, hooks, seq, want,
                   notified, fatal>>

\* The difference is taken without the lock; growing deletes nothing.
SetQueueSize(t, n) ==
    /\ Running /\ At(t, "idle")
    /\ n \in 1..MaxQueueSize
    /\ IF queueSize > n
         THEN /\ pc' = [pc EXCEPT ![t] = "sizeDelete"]
              /\ sizing' = [sizing EXCEPT ![t] = <<n, queueSize - n>>]
         ELSE /\ pc' = [pc EXCEPT ![t] = "sizeWrite"]
              /\ sizing' = [sizing EXCEPT ![t] = <<n, 0>>]
    /\ UNCHANGED <<entries, lists, queueSize, nextSeq, hooks, seq, want,
                   notified, fatal>>

SizeDelete(t) ==
    /\ Lock /\ At(t, "sizeDelete")
    /\ DeleteBuffers(sizing[t][2])
    /\ Goto(t, "sizeWrite")
    /\ UNCHANGED <<queueSize, nextSeq, hooks, notified, fatal>>

SizeWrite(t) ==
    /\ Running /\ At(t, "sizeWrite")
    /\ queueSize' = sizing[t][1]
    /\ Return(t)
    /\ UNCHANGED <<entries, lists, nextSeq, hooks, notified, fatal>>

-----------------------------------------------------------------------------
(* AttachBuffer, DetachBuffer, CleanCache, listeners, Dump.                *)

\* An element for a buffer from elsewhere, built from the buffer's attributes.
AttachBuffer(t, s, c) ==
    /\ Lock /\ At(t, "idle")
    /\ GetUsedSize < queueSize
    /\ PutElement(s, "attached", c)
    /\ UNCHANGED <<lists, queueSize, nextSeq, hooks, pc, calls, notified, fatal>>

\* A full queue with enough free or dirty buffers: DeleteBuffers locks mutex_,
\* which AttachBuffer holds.
AttachWhenFull(t) ==
    /\ Lock /\ At(t, "idle")
    /\ GetUsedSize >= queueSize
    /\ Len(freeList) + Len(dirtyList) >= GetUsedSize - queueSize + 1
    /\ selfLocked' = TRUE
    /\ UNCHANGED <<entries, lists, queueSize, nextSeq, hooks, pc, calls,
                   notified, crashed>>

\* Also called from inside the release callback.
DetachBuffer(t, s) ==
    /\ Lock /\ pc[t] \in {"idle", "relCallback"}
    /\ state[s] \in {"requested", "acquired"}
    /\ DeleteBufferInCache({s})
    /\ UNCHANGED <<lists, queueSize, nextSeq, hooks, pc, calls, notified, fatal>>

CleanCache(t) ==
    /\ Lock /\ At(t, "idle")
    /\ DeleteBufferInCache(Seqs)
    /\ freeList' = << >> /\ dirtyList' = << >> /\ deletingList' = {}
    /\ NotifyAll
    /\ UNCHANGED <<queueSize, nextSeq, hooks, pc, calls, fatal>>

RegisterConsumerListener ==
    /\ Running /\ listener' = TRUE
    /\ UNCHANGED <<entries, lists, queueSize, nextSeq, releaseListener, pc,
                   calls, notified, fatal>>

UnregisterConsumerListener ==
    /\ Running /\ listener' = FALSE
    /\ UNCHANGED <<entries, lists, queueSize, nextSeq, releaseListener, pc,
                   calls, notified, fatal>>

RegisterReleaseListener ==
    /\ Running /\ releaseListener' = TRUE
    /\ UNCHANGED <<entries, lists, queueSize, nextSeq, listener, pc, calls,
                   notified, fatal>>

\* Dump adds up the sizes of all buffers, and DumpCache looks every state up
\* in BufferStateStrs, which has no name for an attached buffer.
DumpFails ==
    /\ Lock
    /\ \E s \in Entries : IsNull(s) \/ state[s] = "attached"
    /\ Crash

-----------------------------------------------------------------------------
(* The specification.                                                      *)

\* The steps that a call in progress takes next.
Step(t) ==
    \/ RequestLocked(t) \/ RequestRetry(t) \/ WaitAgain(t)
    \/ FlushListener(t) \/ FlushCancel(t)
    \/ \E cacheOk \in BOOLEAN : DoFlushBuffer(t, cacheOk)
    \/ FlushNotify(t) \/ OnBufferAvailable(t) \/ ListenerGone(t)
    \/ ReleaseListener(t) \/ ReleaseTaken(t) \/ ReleaseDeclined(t)
    \/ DoReleaseBuffer(t)
    \/ SizeDelete(t) \/ SizeWrite(t)

\* The calls a thread may begin.
Call(t) ==
    \/ \E c \in Configs : RequestBuffer(t, c)
    \/ \E s \in Seqs : \/ CancelBuffer(t, s) \/ FlushBuffer(t, s)
                       \/ AcquireBuffer(t, s) \/ ReleaseBuffer(t, s)
                       \/ DetachBuffer(t, s)
                       \/ \E c \in Configs : AttachBuffer(t, s, c)
    \/ AcquireNull(t)
    \/ \E n \in 0..(MaxQueueSize + 1) : SetQueueSize(t, n)
    \/ AttachWhenFull(t)
    \/ CleanCache(t)

Hooks ==
    \/ RegisterConsumerListener \/ UnregisterConsumerListener
    \/ RegisterReleaseListener \/ DumpFails

Next == Hooks \/ \E t \in Threads : Call(t) \/ Step(t)

Spec == Init /\ [][Next]_vars

-----------------------------------------------------------------------------
(* Properties.                                                             *)

\* The fields of the queue, the calls in progress and the flags.
StoreOK ==
    /\ state \in [Seqs -> States]
    /\ isDeleting \in [Seqs -> BOOLEAN]
    /\ config \in [Seqs -> Configs \cup {NoConfig}]
    /\ freeList \in Seq(Seqs)
    /\ dirtyList \in Seq(Seqs)
    /\ deletingList \subseteq Seqs
    /\ queueSize \in 1..MaxQueueSize
    /\ nextSeq \in 1..(MaxSeq + 1)

\* A thread inside a call carries the arguments that the rest of the call uses:
\* a buffer that FlushBuffer or ReleaseBuffer has found, a config that
\* CheckRequestConfig has accepted, a size that SetQueueSize has accepted.
ArgsOK ==
    \A t \in Threads :
        /\ pc[t] \in {"flushChecked", "flushCancel", "doFlush", "flushDone",
                      "flushCall", "relChecked", "relCallback", "doRelease"}
               => seq[t] \in Seqs
        /\ pc[t] \in {"reqLock", "reqWait"} => want[t] \in Configs
        /\ pc[t] \in {"sizeDelete", "sizeWrite"}
               => sizing[t][1] \in 1..MaxQueueSize

ThreadsOK ==
    /\ pc \in [Threads -> Labels]
    /\ seq \in [Threads -> 0..MaxSeq]
    /\ want \in [Threads -> Configs \cup {NoConfig}]
    /\ sizing \in [Threads -> (0..MaxQueueSize) \X (0..MaxQueueSize)]
    /\ notified \subseteq Threads
    /\ ArgsOK

FlagsOK ==
    /\ listener \in BOOLEAN /\ releaseListener \in BOOLEAN
    /\ crashed \in BOOLEAN /\ selfLocked \in BOOLEAN

\* Every field has its type, queueSize_ is a size SetQueueSize accepts whatever
\* calls overlap, and every thread inside a call has the arguments it needs.
TypeOK == StoreOK /\ ThreadsOK /\ FlagsOK

\* A thread that waits in RequestBuffer without having been woken has nothing
\* to wake up for: the free list is empty.  Every path that puts a buffer on the
\* list (CancelBuffer, FlushBuffer without a listener, ReleaseBuffer) notifies.
NoLostWakeup == \A t \in Waiting \ notified : freeList = << >>

\* An element that operator[] has inserted, which has no buffer, is never handed
\* to a client: it stays released whatever the other threads do, so the only
\* thing that can follow from it is the failure in RequestBuffer or Dump.
NullNeverHandedOut == \A s \in Entries : IsNull(s) => state[s] = "released"
=============================================================================
