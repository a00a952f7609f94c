------------------------- MODULE BufferQueueProofs -------------------------
(***************************************************************************)
(* Proofs about BufferQueue for any threads, configs and bounds, and for   *)
(* callers that keep no contract at all.                                   *)
(***************************************************************************)
EXTENDS BufferQueue, SequenceTheorems, TLAPS

-----------------------------------------------------------------------------
(* Facts about sequences.                                                  *)

LEMMA SameInterval ==
  ASSUME NEW a \in Nat, NEW b \in Nat, 1..a = 1..b
  PROVE  a = b
  <1>1. \A k \in Nat : (k >= 1 /\ k <= a) <=> (k >= 1 /\ k <= b)
    <2> SUFFICES ASSUME NEW k \in Nat
                 PROVE  (k \in 1..a) <=> (k \in 1..b)
      OBVIOUS
    <2> QED
      OBVIOUS
  <1>2. (a >= 1 => a <= b) /\ (b >= 1 => b <= a)
    BY <1>1
  <1> QED
    BY <1>2

\* Erasing position i of a list leaves a list, one shorter.
LEMMA RemoveAtType ==
  ASSUME NEW S, NEW q \in Seq(S), NEW i \in 1..Len(q)
  PROVE  /\ RemoveAt(q, i) \in Seq(S)
         /\ Len(RemoveAt(q, i)) = Len(q) - 1
  <1>1. q \in [1..Len(q) -> S] /\ Len(q) \in Nat /\ Len(q) - 1 \in Nat
    BY LenProperties
  <1>2. RemoveAt(q, i) \in [1..(Len(q) - 1) -> S]
    BY <1>1 DEF RemoveAt
  <1>3. RemoveAt(q, i) \in Seq(S)
    BY <1>1, <1>2, SeqDef
  <1>4. 1..Len(RemoveAt(q, i)) = 1..(Len(q) - 1) /\ Len(RemoveAt(q, i)) \in Nat
    BY <1>2, <1>3, LenProperties
  <1> QED
    BY <1>1, <1>3, <1>4, SameInterval

\* Dropping a prefix of a list leaves a list.
LEMMA DropType ==
  ASSUME NEW S, NEW q \in Seq(S), NEW n \in Nat
  PROVE  SubSeq(q, n + 1, Len(q)) \in Seq(S)
  <1>1. Len(q) \in Nat /\ \A i \in (n + 1)..Len(q) : q[i] \in S
    BY LenProperties, ElementOfSeq
  <1> QED
    BY <1>1, SubSeqProperties

-----------------------------------------------------------------------------
(* Type correctness.                                                       *)

LEMMA InitType == Init => TypeOK
  <1> SUFFICES ASSUME Init PROVE TypeOK
    OBVIOUS
  <1>1. StoreOK
    BY SizeAssumption DEF Init, StoreOK, States
  <1>2. ThreadsOK
    BY SizeAssumption DEF Init, ThreadsOK, ArgsOK, Labels
  <1>3. FlagsOK
    BY DEF Init, FlagsOK
  <1> QED
    BY <1>1, <1>2, <1>3 DEF TypeOK

\* A step that leaves the queue's fields alone, or the flags.
LEMMA StoreUnchanged ==
  ASSUME StoreOK, UNCHANGED <<entries, lists, queueSize, nextSeq>>
  PROVE  StoreOK'
  BY DEF StoreOK, entries, lists

LEMMA FlagsUnchanged ==
  ASSUME FlagsOK, UNCHANGED <<hooks, fatal>>
  PROVE  FlagsOK'
  BY DEF FlagsOK, hooks, fatal

LEMMA ThreadsUnchanged ==
  ASSUME ThreadsOK, UNCHANGED <<pc, calls>>, notified' \subseteq Threads
  PROVE  ThreadsOK'
  BY DEF ThreadsOK, ArgsOK, calls

\* A return from a call, and a step to another place of the same call.
LEMMA ReturnThreads ==
  ASSUME ThreadsOK, NEW t \in Threads, Return(t), notified' \subseteq Threads
  PROVE  ThreadsOK'
  BY SizeAssumption DEF ThreadsOK, ArgsOK, Return, Labels

LEMMA GotoThreads ==
  ASSUME ThreadsOK, NEW t \in Threads, NEW label, Goto(t, label),
         notified' \subseteq Threads,
         \/ pc[t] \in {"flushChecked", "flushCancel", "doFlush", "flushDone",
                       "flushCall", "relChecked", "relCallback", "doRelease"}
            /\ label \in {"flushCancel", "doFlush", "flushDone", "flushCall",
                          "relCallback", "doRelease"}
         \/ pc[t] = "reqLock" /\ label = "reqWait"
         \/ pc[t] = "sizeDelete" /\ label = "sizeWrite"
  PROVE  ThreadsOK'
  BY DEF ThreadsOK, ArgsOK, Goto, calls, Labels

LEMMA WaitersAreThreads == ASSUME NotifyAll PROVE notified' \subseteq Threads
  BY DEF NotifyAll, Waiting

LEMMA CrashType == ASSUME TypeOK, Crash PROVE TypeOK'
  <1>1. StoreOK' /\ ThreadsOK'
    BY StoreUnchanged, ThreadsUnchanged DEF TypeOK, Crash, ThreadsOK
  <1>2. FlagsOK'
    BY DEF TypeOK, Crash, FlagsOK, hooks
  <1> QED
    BY <1>1, <1>2 DEF TypeOK

LEMMA CancelStore ==
  ASSUME StoreOK, NEW s \in Seqs, CancelEffect(s), UNCHANGED <<queueSize, nextSeq>>
  PROVE  StoreOK'
  BY AppendProperties DEF StoreOK, CancelEffect, States

\* RequestBuffer's ways to reuse the buffer at position i of the free list.
LEMMA ReuseType ==
  ASSUME TypeOK, NEW t \in Threads, pc[t] \in {"reqLock", "reqWait"},
         NEW i \in 1..Len(freeList), ReuseBuffer(t, i)
  PROVE  TypeOK'
  <1> USE DEF TypeOK
  <1>1. freeList[i] \in Seqs /\ RemoveAt(freeList, i) \in Seq(Seqs)
    BY RemoveAtType, ElementOfSeq DEF StoreOK
  <1>2. want[t] \in Configs
    BY DEF ThreadsOK, ArgsOK
  <1>3. ASSUME NEW S PROVE Touch(S) \in [Seqs -> States]
    BY DEF Touch, StoreOK, States
  <1>4. ASSUME Resume(t) PROVE ThreadsOK'
    BY <1>4, ReturnThreads DEF Resume, ThreadsOK
  <1>5. CASE ReuseSame(t, i)
    <2>1. StoreOK'
      BY <1>1, <1>3, <1>5 DEF ReuseSame, ReuseBuffer, StoreOK, States
    <2>2. ThreadsOK' /\ FlagsOK'
      BY <1>4, <1>5, FlagsUnchanged DEF ReuseSame, ReuseBuffer, fatal
    <2> QED
      BY <2>1, <2>2
  <1>6. CASE ReuseRealloc(t, i)
    <2>1. StoreOK'
      <3>1. nextSeq \in Seqs /\ nextSeq + 1 \in 1..(MaxSeq + 1)
        BY <1>6, SizeAssumption DEF ReuseRealloc, StoreOK, Seqs
      <3> QED
        BY <1>1, <1>2, <1>3, <1>6, <3>1 DEF ReuseRealloc, ReuseBuffer, StoreOK, States
    <2>2. ThreadsOK' /\ FlagsOK'
      BY <1>4, <1>6, FlagsUnchanged DEF ReuseRealloc, ReuseBuffer, fatal
    <2> QED
      BY <2>1, <2>2
  <1>7. CASE ReuseReallocFails(t, i)
    <2>1. StoreOK'
      BY <1>1, <1>3, <1>7 DEF ReuseReallocFails, ReuseBuffer, StoreOK, States
    <2>2. ThreadsOK' /\ FlagsOK'
      BY <1>4, <1>7, FlagsUnchanged DEF ReuseReallocFails, ReuseBuffer, fatal
    <2> QED
      BY <2>1, <2>2
  <1>8. CASE ReuseNull(t, i)
    BY <1>8, CrashType DEF ReuseNull
  <1> QED
    BY <1>5, <1>6, <1>7, <1>8 DEF ReuseBuffer

LEMMA AllocType ==
  ASSUME TypeOK, NEW t \in Threads, pc[t] \in {"reqLock", "reqWait"}, AllocBuffer(t)
  PROVE  TypeOK'
  <1> USE DEF TypeOK
  <1>1. nextSeq \in Seqs /\ nextSeq + 1 \in 1..(MaxSeq + 1) /\ want[t] \in Configs
    BY SizeAssumption DEF AllocBuffer, StoreOK, ThreadsOK, ArgsOK, Seqs
  <1>2. StoreOK'
    BY <1>1 DEF AllocBuffer, PutElement, StoreOK, States, lists
  <1>3. ThreadsOK' /\ FlagsOK'
    BY ReturnThreads, FlagsUnchanged DEF AllocBuffer, Resume, ThreadsOK
  <1> QED
    BY <1>2, <1>3

LEMMA RequestFailsType ==
  ASSUME TypeOK, NEW t \in Threads, RequestFails(t)
  PROVE  TypeOK'
  BY StoreUnchanged, ReturnThreads, FlagsUnchanged
     DEF TypeOK, RequestFails, Resume, ThreadsOK

LEMMA DeleteType ==
  ASSUME StoreOK, NEW count \in Nat, DeleteBuffers(count),
         UNCHANGED <<queueSize, nextSeq>>
  PROVE  StoreOK'
  <1> DEFINE nf   == Least(count, Len(freeList))
             nd   == Least(count - nf, Len(dirtyList))
             gone == {freeList[i] : i \in 1..nf} \cup {dirtyList[i] : i \in 1..nd}
  <1>1. Len(freeList) \in Nat /\ Len(dirtyList) \in Nat
    BY LenProperties DEF StoreOK
  <1>2. nf \in Nat /\ count - nf \in Nat /\ nd \in Nat
    BY <1>1 DEF Least
  <1>3. freeList' \in Seq(Seqs) /\ dirtyList' \in Seq(Seqs)
    BY <1>2, DropType DEF StoreOK, DeleteBuffers
  <1>4. deletingList' \subseteq Seqs
    BY DEF StoreOK, DeleteBuffers, Entries
  <1>5. state' \in [Seqs -> States]
    BY DEF StoreOK, DeleteBuffers, States
  <1>6. isDeleting' \in [Seqs -> BOOLEAN]
    BY DEF StoreOK, DeleteBuffers
  <1>7. config' \in [Seqs -> Configs \cup {NoConfig}]
    BY DEF StoreOK, DeleteBuffers
  <1> QED
    BY <1>3, <1>4, <1>5, <1>6, <1>7 DEF StoreOK

LEMMA StepType ==
  ASSUME TypeOK, NEW t \in Threads, Step(t)
  PROVE  TypeOK'
  <1> USE DEF TypeOK
  <1>1. CASE RequestLocked(t)
    <2>1. ASSUME NEW i \in 1..Len(freeList), ReuseBuffer(t, i) PROVE TypeOK'
      BY <1>1, <2>1, ReuseType DEF RequestLocked, At
    <2>2. CASE Goto(t, "reqWait") /\ UNCHANGED <<entries, lists, queueSize,
                                                 nextSeq, hooks, notified, fatal>>
      BY <1>1, <2>2, StoreUnchanged, GotoThreads, FlagsUnchanged
         DEF RequestLocked, At, ThreadsOK
    <2>3. CASE AllocBuffer(t) \/ RequestFails(t)
      BY <1>1, <2>3, AllocType, RequestFailsType DEF RequestLocked, At
    <2> QED
      BY <1>1, <2>1, <2>2, <2>3 DEF RequestLocked
  <1>2. CASE RequestRetry(t)
    <2>1. ASSUME NEW i \in 1..Len(freeList), ReuseBuffer(t, i) PROVE TypeOK'
      BY <1>2, <2>1, ReuseType DEF RequestRetry, At
    <2>2. CASE AllocBuffer(t) \/ RequestFails(t)
      BY <1>2, <2>2, AllocType, RequestFailsType DEF RequestRetry, At
    <2> QED
      BY <1>2, <2>1, <2>2 DEF RequestRetry
  <1>3. CASE WaitAgain(t)
    BY <1>3, StoreUnchanged, ThreadsUnchanged, FlagsUnchanged DEF WaitAgain, ThreadsOK
  <1>4. CASE FlushListener(t)
    BY <1>4, StoreUnchanged, GotoThreads, FlagsUnchanged DEF FlushListener, At, ThreadsOK
  <1>5. CASE FlushCancel(t)
    <2>1. seq[t] \in Seqs
      BY <1>5 DEF FlushCancel, At, ThreadsOK, ArgsOK
    <2>2. StoreOK'
      BY <1>5, <2>1, CancelStore, StoreUnchanged DEF FlushCancel
    <2>3. notified' \subseteq Threads
      BY <1>5, WaitersAreThreads DEF FlushCancel, CancelEffect, ThreadsOK
    <2> QED
      BY <1>5, <2>2, <2>3, ReturnThreads, FlagsUnchanged DEF FlushCancel
  <1>6. ASSUME NEW ok \in BOOLEAN, DoFlushBuffer(t, ok) PROVE TypeOK'
    <2>1. seq[t] \in Seqs /\ pc[t] = "doFlush"
      BY <1>6 DEF DoFlushBuffer, At, ThreadsOK, ArgsOK
    <2>2. CASE FlushDeletes(t)
      <3>1. StoreOK'
        BY <1>6, <2>1, <2>2 DEF DoFlushBuffer, FlushDeletes, DeleteBufferInCache,
                                StoreOK, States
      <3>2. ThreadsOK' /\ FlagsOK'
        BY <1>6, <2>1, <2>2, GotoThreads, FlagsUnchanged
           DEF DoFlushBuffer, FlushDeletes, ThreadsOK, fatal
      <3> QED
        BY <3>1, <3>2
    <2>3. CASE FlushQueues(t, ok)
      <3>1. StoreOK'
        BY <1>6, <2>1, <2>3, AppendProperties DEF DoFlushBuffer, FlushQueues,
                                                  StoreOK, States
      <3>2. ThreadsOK'
        BY <1>6, <2>1, <2>3, GotoThreads, ReturnThreads
           DEF DoFlushBuffer, FlushQueues, ThreadsOK
      <3>3. FlagsOK'
        BY <1>6, <2>3, FlagsUnchanged DEF DoFlushBuffer, FlushQueues, fatal
      <3> QED
        BY <3>1, <3>2, <3>3
    <2>4. CASE FlushNull(t)
      BY <2>4, CrashType DEF FlushNull
    <2> QED
      BY <1>6, <2>2, <2>3, <2>4 DEF DoFlushBuffer
  <1>7. CASE FlushNotify(t)
    <2>1. ThreadsOK'
      BY <1>7, GotoThreads, ReturnThreads DEF FlushNotify, At, ThreadsOK
    <2> QED
      BY <1>7, <2>1, StoreUnchanged, FlagsUnchanged DEF FlushNotify
  <1>8. CASE OnBufferAvailable(t)
    BY <1>8, StoreUnchanged, ReturnThreads, FlagsUnchanged DEF OnBufferAvailable, ThreadsOK
  <1>9. CASE ListenerGone(t)
    BY <1>9, CrashType DEF ListenerGone
  <1>10. CASE ReleaseListener(t)
    BY <1>10, StoreUnchanged, GotoThreads, FlagsUnchanged DEF ReleaseListener, At, ThreadsOK
  <1>11. CASE ReleaseTaken(t)
    BY <1>11, StoreUnchanged, ReturnThreads, FlagsUnchanged DEF ReleaseTaken, ThreadsOK
  <1>12. CASE ReleaseDeclined(t)
    BY <1>12, StoreUnchanged, GotoThreads, FlagsUnchanged DEF ReleaseDeclined, At, ThreadsOK
  <1>13. CASE DoReleaseBuffer(t)
    <2>1. seq[t] \in Seqs
      BY <1>13 DEF DoReleaseBuffer, At, ThreadsOK, ArgsOK
    <2>2. ASSUME ReleaseFrees(t) PROVE StoreOK'
      BY <1>13, <2>1, <2>2, AppendProperties
         DEF DoReleaseBuffer, ReleaseFrees, StoreOK, States
    <2>3. ASSUME ReleaseDeletes(t) PROVE StoreOK'
      BY <1>13, <2>1, <2>3 DEF DoReleaseBuffer, ReleaseDeletes, DeleteBufferInCache,
                               StoreOK, States
    <2>4. StoreOK'
      BY <1>13, <2>2, <2>3 DEF DoReleaseBuffer
    <2> QED
      BY <1>13, <2>4, WaitersAreThreads, ReturnThreads, FlagsUnchanged DEF DoReleaseBuffer
  <1>14. CASE SizeDelete(t)
    <2>1. sizing[t][2] \in Nat
      BY SizeAssumption DEF ThreadsOK
    <2>2. StoreOK'
      BY <1>14, <2>1, DeleteType DEF SizeDelete
    <2> QED
      BY <1>14, <2>2, GotoThreads, FlagsUnchanged DEF SizeDelete, At, ThreadsOK
  <1>15. CASE SizeWrite(t)
    <2>1. StoreOK'
      BY <1>15 DEF SizeWrite, At, StoreOK, ThreadsOK, ArgsOK, entries, lists
    <2> QED
      BY <1>15, <2>1, ReturnThreads, FlagsUnchanged DEF SizeWrite, ThreadsOK
  <1> QED
    BY <1>1, <1>2, <1>3, <1>4, <1>5, <1>6, <1>7, <1>8, <1>9, <1>10, <1>11, <1>12,
       <1>13, <1>14, <1>15 DEF Step

LEMMA CallType ==
  ASSUME TypeOK, NEW t \in Threads, Call(t)
  PROVE  TypeOK'
  <1> USE DEF TypeOK
  <1>1. ASSUME NEW c \in Configs, RequestBuffer(t, c) PROVE TypeOK'
    <2>1. ThreadsOK'
      BY <1>1 DEF RequestBuffer, ThreadsOK, ArgsOK, Labels
    <2> QED
      BY <1>1, <2>1, StoreUnchanged, FlagsUnchanged DEF RequestBuffer
  <1>2. ASSUME NEW s \in Seqs, CancelBuffer(t, s) PROVE TypeOK'
    BY <1>2, CancelStore, WaitersAreThreads, ThreadsUnchanged, FlagsUnchanged
       DEF CancelBuffer, CancelEffect
  <1>3. ASSUME NEW s \in Seqs, FlushBuffer(t, s) PROVE TypeOK'
    <2>1. ThreadsOK'
      BY <1>3, SizeAssumption DEF FlushBuffer, ThreadsOK, ArgsOK, Labels, Seqs
    <2> QED
      BY <1>3, <2>1, StoreUnchanged, FlagsUnchanged DEF FlushBuffer
  <1>4. ASSUME NEW s \in Seqs, AcquireBuffer(t, s) PROVE TypeOK'
    <2>1. Tail(dirtyList) \in Seq(Seqs)
      BY <1>4, HeadTailProperties DEF AcquireBuffer, AcquireEffect, StoreOK
    <2>2. StoreOK'
      BY <1>4, <2>1 DEF AcquireBuffer, AcquireEffect, StoreOK, States
    <2> QED
      BY <1>4, <2>2, ThreadsUnchanged, FlagsUnchanged DEF AcquireBuffer, ThreadsOK
  <1>5. ASSUME NEW s \in Seqs, ReleaseBuffer(t, s) PROVE TypeOK'
    <2>1. ThreadsOK'
      BY <1>5, SizeAssumption DEF ReleaseBuffer, ThreadsOK, ArgsOK, Labels, Seqs
    <2> QED
      BY <1>5, <2>1, StoreUnchanged, FlagsUnchanged DEF ReleaseBuffer
  <1>6. ASSUME NEW s \in Seqs, DetachBuffer(t, s) PROVE TypeOK'
    <2>1. StoreOK'
      BY <1>6 DEF DetachBuffer, DeleteBufferInCache, StoreOK, States, lists
    <2> QED
      BY <1>6, <2>1, ThreadsUnchanged, FlagsUnchanged DEF DetachBuffer, ThreadsOK
  <1>7. ASSUME NEW s \in Seqs, NEW c \in Configs, AttachBuffer(t, s, c) PROVE TypeOK'
    <2>1. StoreOK'
      BY <1>7 DEF AttachBuffer, PutElement, StoreOK, States, lists
    <2> QED
      BY <1>7, <2>1, ThreadsUnchanged, FlagsUnchanged DEF AttachBuffer, ThreadsOK
  <1>8. CASE AcquireNull(t)
    BY <1>8, CrashType DEF AcquireNull
  <1>9. ASSUME NEW n \in 0..(MaxQueueSize + 1), SetQueueSize(t, n) PROVE TypeOK'
    <2>1. ThreadsOK'
      <3>1. n \in 1..MaxQueueSize /\ n \in 0..MaxQueueSize
        BY <1>9, SizeAssumption DEF SetQueueSize
      <3>2. 0 \in 0..MaxQueueSize /\ (queueSize > n => queueSize - n \in 0..MaxQueueSize)
        BY <3>1, SizeAssumption DEF StoreOK
      <3> QED
        BY <1>9, <3>1, <3>2 DEF SetQueueSize, ThreadsOK, ArgsOK, Labels
    <2> QED
      BY <1>9, <2>1, StoreUnchanged, FlagsUnchanged DEF SetQueueSize
  <1>10. CASE AttachWhenFull(t)
    <2>1. FlagsOK'
      BY <1>10 DEF AttachWhenFull, FlagsOK, hooks
    <2> QED
      BY <1>10, <2>1, StoreUnchanged, ThreadsUnchanged DEF AttachWhenFull, ThreadsOK
  <1>11. CASE CleanCache(t)
    <2>1. StoreOK'
      BY <1>11, EmptySeq DEF CleanCache, DeleteBufferInCache, StoreOK, States
    <2> QED
      BY <1>11, <2>1, WaitersAreThreads, ThreadsUnchanged, FlagsUnchanged DEF CleanCache
  <1> QED
    BY <1>1, <1>2, <1>3, <1>4, <1>5, <1>6, <1>7, <1>8, <1>9, <1>10, <1>11 DEF Call

LEMMA HooksType ==
  ASSUME TypeOK, Hooks
  PROVE  TypeOK'
  <1> USE DEF TypeOK
  <1>1. CASE DumpFails
    BY <1>1, CrashType DEF DumpFails
  <1>2. CASE RegisterConsumerListener \/ UnregisterConsumerListener \/ RegisterReleaseListener
    <2>1. StoreOK' /\ ThreadsOK'
      BY <1>2, StoreUnchanged, ThreadsUnchanged
         DEF RegisterConsumerListener, UnregisterConsumerListener,
             RegisterReleaseListener, ThreadsOK
    <2>2. FlagsOK'
      BY <1>2 DEF RegisterConsumerListener, UnregisterConsumerListener,
                  RegisterReleaseListener, FlagsOK, fatal
    <2> QED
      BY <2>1, <2>2
  <1> QED
    BY <1>1, <1>2 DEF Hooks

LEMMA NextType == ASSUME TypeOK, [Next]_vars PROVE TypeOK'
  <1>1. CASE Next
    BY <1>1, HooksType, CallType, StepType DEF Next
  <1>2. CASE UNCHANGED vars
    BY <1>2, StoreUnchanged, ThreadsUnchanged, FlagsUnchanged
       DEF TypeOK, vars, entries, lists, calls, hooks, fatal, ThreadsOK
  <1> QED
    BY <1>1, <1>2

\* In every behaviour of the queue, with any number of threads calling it in any
\* way, its fields keep their types, queueSize_ stays a legal size and each call
\* that gave up the lock comes back with valid arguments.
THEOREM TypeCorrect == Spec => []TypeOK
  <1>1. Init => TypeOK
    BY InitType
  <1>2. TypeOK /\ [Next]_vars => TypeOK'
    BY NextType
  <1> QED
    BY <1>1, <1>2, PTL DEF Spec

-----------------------------------------------------------------------------
(* No wakeup is lost.                                                      *)

\* The ways a step can keep NoLostWakeup: no new unwoken waiter and no new free
\* buffer, or a notification that leaves no unwoken waiter.
LEMMA WakeupKept ==
  ASSUME NoLostWakeup,
         (Waiting \ notified)' \subseteq Waiting \ notified,
         freeList = << >> => freeList' = << >>
  PROVE  NoLostWakeup'
  BY DEF NoLostWakeup

LEMMA AllWoken == ASSUME NotifyAll, Waiting' \subseteq Waiting PROVE NoLostWakeup'
  BY DEF NoLostWakeup, NotifyAll

LEMMA SameWaiters == ASSUME UNCHANGED pc PROVE Waiting' = Waiting
  BY DEF Waiting

LEMMA ReturnWaiters ==
  ASSUME ThreadsOK, NEW t \in Threads, Return(t) PROVE Waiting' = Waiting \ {t}
  BY DEF Waiting, Return, ThreadsOK

LEMMA GotoWaiters ==
  ASSUME ThreadsOK, NEW t \in Threads, NEW label, Goto(t, label), label # "reqWait"
  PROVE  Waiting' \subseteq Waiting
  BY DEF Waiting, Goto, ThreadsOK

LEMMA CrashWakeup == ASSUME NoLostWakeup, Crash PROVE NoLostWakeup'
  BY WakeupKept, SameWaiters DEF Crash, lists

LEMMA ResumeWakeup ==
  ASSUME NoLostWakeup, ThreadsOK, NEW t \in Threads, Resume(t),
         freeList = << >> => freeList' = << >>
  PROVE  NoLostWakeup'
  BY WakeupKept, ReturnWaiters DEF Resume

LEMMA ReuseWakeup ==
  ASSUME NoLostWakeup, TypeOK, NEW t \in Threads, NEW i \in 1..Len(freeList),
         ReuseBuffer(t, i)
  PROVE  NoLostWakeup'
  <1>1. freeList # << >>
    BY EmptySeq DEF TypeOK, StoreOK
  <1>2. CASE Resume(t)
    BY <1>1, <1>2, ResumeWakeup DEF TypeOK
  <1>3. CASE Crash
    BY <1>3, CrashWakeup
  <1> QED
    BY <1>2, <1>3 DEF ReuseBuffer, ReuseSame, ReuseRealloc, ReuseReallocFails, ReuseNull

LEMMA StepWakeup ==
  ASSUME NoLostWakeup, TypeOK, NEW t \in Threads, Step(t)
  PROVE  NoLostWakeup'
  <1> USE DEF TypeOK
  <1>1. CASE RequestLocked(t)
    <2>1. CASE freeList = << >> /\ UNCHANGED lists
      BY <2>1 DEF NoLostWakeup, lists
    <2>2. ASSUME NEW i \in 1..Len(freeList), ReuseBuffer(t, i) PROVE NoLostWakeup'
      BY <2>2, ReuseWakeup
    <2> QED
      BY <1>1, <2>1, <2>2 DEF RequestLocked, AllocBuffer, RequestFails
  <1>2. CASE RequestRetry(t)
    <2>1. CASE freeList = << >> /\ UNCHANGED lists
      BY <2>1 DEF NoLostWakeup, lists
    <2>2. ASSUME NEW i \in 1..Len(freeList), ReuseBuffer(t, i) PROVE NoLostWakeup'
      BY <2>2, ReuseWakeup
    <2> QED
      BY <1>2, <2>1, <2>2 DEF RequestRetry, AllocBuffer, RequestFails
  <1>3. CASE WaitAgain(t)
    BY <1>3 DEF WaitAgain, NoLostWakeup, lists
  <1>4. CASE FlushListener(t) \/ ReleaseListener(t) \/ ReleaseDeclined(t)
    BY <1>4, GotoWaiters, WakeupKept
       DEF FlushListener, ReleaseListener, ReleaseDeclined, lists
  <1>5. CASE FlushCancel(t)
    <2>1. Waiting' \subseteq Waiting
      BY <1>5, ReturnWaiters DEF FlushCancel
    <2> QED
      BY <1>5, <2>1, AllWoken, WakeupKept DEF FlushCancel, CancelEffect, lists
  <1>6. ASSUME NEW ok \in BOOLEAN, DoFlushBuffer(t, ok) PROVE NoLostWakeup'
    <2>1. CASE FlushDeletes(t)
      BY <1>6, <2>1, GotoWaiters, WakeupKept DEF DoFlushBuffer, FlushDeletes
    <2>2. CASE FlushQueues(t, ok)
      <3>1. Waiting' \subseteq Waiting
        BY <2>2, GotoWaiters, ReturnWaiters DEF FlushQueues
      <3> QED
        BY <1>6, <2>2, <3>1, WakeupKept DEF DoFlushBuffer, FlushQueues
    <2>3. CASE FlushNull(t)
      BY <2>3, CrashWakeup DEF FlushNull
    <2> QED
      BY <1>6, <2>1, <2>2, <2>3 DEF DoFlushBuffer
  <1>7. CASE FlushNotify(t)
    <2>1. Waiting' \subseteq Waiting
      BY <1>7, GotoWaiters, ReturnWaiters DEF FlushNotify
    <2> QED
      BY <1>7, <2>1, WakeupKept DEF FlushNotify, lists
  <1>8. CASE OnBufferAvailable(t) \/ ReleaseTaken(t)
    BY <1>8, ReturnWaiters, WakeupKept DEF OnBufferAvailable, ReleaseTaken, lists
  <1>9. CASE ListenerGone(t)
    BY <1>9, CrashWakeup DEF ListenerGone
  <1>10. CASE DoReleaseBuffer(t)
    BY <1>10, ReturnWaiters, AllWoken DEF DoReleaseBuffer
  <1>11. CASE SizeDelete(t)
    <2>1. ASSUME freeList = << >> PROVE freeList' = << >>
      <3>1. sizing[t][2] \in Nat
        BY SizeAssumption DEF ThreadsOK
      <3>2. Len(freeList) = 0 /\ Least(sizing[t][2], Len(freeList)) = 0
        BY <2>1, <3>1, EmptySeq DEF Least
      <3> QED
        BY <1>11, <2>1, <3>2, SubSeqEmpty DEF SizeDelete, DeleteBuffers
    <2> QED
      BY <1>11, <2>1, GotoWaiters, WakeupKept DEF SizeDelete
  <1>12. CASE SizeWrite(t)
    BY <1>12, ReturnWaiters, WakeupKept DEF SizeWrite, lists
  <1> QED
    BY <1>1, <1>2, <1>3, <1>4, <1>5, <1>6, <1>7, <1>8, <1>9, <1>10, <1>11, <1>12 DEF Step

LEMMA CallWakeup ==
  ASSUME NoLostWakeup, TypeOK, NEW t \in Threads, Call(t)
  PROVE  NoLostWakeup'
  <1> USE DEF TypeOK
  <1>1. ASSUME NEW c \in Configs, RequestBuffer(t, c) PROVE NoLostWakeup'
    <2>1. Waiting' \subseteq Waiting
      BY <1>1 DEF RequestBuffer, Waiting, ThreadsOK
    <2> QED
      BY <1>1, <2>1, WakeupKept DEF RequestBuffer, lists
  <1>2. ASSUME NEW s \in Seqs, FlushBuffer(t, s) \/ ReleaseBuffer(t, s)
        PROVE  NoLostWakeup'
    <2>1. Waiting' \subseteq Waiting
      BY <1>2 DEF FlushBuffer, ReleaseBuffer, Waiting, ThreadsOK
    <2> QED
      BY <1>2, <2>1, WakeupKept DEF FlushBuffer, ReleaseBuffer, lists
  <1>3. ASSUME NEW n \in 0..(MaxQueueSize + 1), SetQueueSize(t, n)
        PROVE  NoLostWakeup'
    <2>1. Waiting' \subseteq Waiting
      BY <1>3 DEF SetQueueSize, Waiting, ThreadsOK
    <2> QED
      BY <1>3, <2>1, WakeupKept DEF SetQueueSize, lists
  <1>4. ASSUME NEW s \in Seqs, CancelBuffer(t, s) PROVE NoLostWakeup'
    BY <1>4, SameWaiters, AllWoken DEF CancelBuffer, CancelEffect
  <1>5. ASSUME NEW s \in Seqs,
               \/ AcquireBuffer(t, s) \/ DetachBuffer(t, s)
               \/ \E c \in Configs : AttachBuffer(t, s, c)
        PROVE  NoLostWakeup'
    BY <1>5, SameWaiters, WakeupKept DEF AcquireBuffer, DetachBuffer, AttachBuffer, lists
  <1>6. CASE AcquireNull(t)
    BY <1>6, CrashWakeup DEF AcquireNull
  <1>7. CASE AttachWhenFull(t)
    BY <1>7, SameWaiters, WakeupKept DEF AttachWhenFull, lists
  <1>8. CASE CleanCache(t)
    BY <1>8 DEF CleanCache, NoLostWakeup
  <1> QED
    BY <1>1, <1>2, <1>3, <1>4, <1>5, <1>6, <1>7, <1>8 DEF Call

LEMMA HooksWakeup == ASSUME NoLostWakeup, Hooks PROVE NoLostWakeup'
  BY SameWaiters, WakeupKept, CrashWakeup
     DEF Hooks, DumpFails, RegisterConsumerListener, UnregisterConsumerListener,
         RegisterReleaseListener, lists

\* With any number of threads, a RequestBuffer that waits unwoken never misses a
\* free buffer: whichever thread frees one, by whichever call, wakes the waiters.
THEOREM WakeupsKept == Spec => []NoLostWakeup
  <1>1. Init => NoLostWakeup
    BY DEF Init, NoLostWakeup
  <1>2. TypeOK /\ NoLostWakeup /\ [Next]_vars => NoLostWakeup'
    <2> SUFFICES ASSUME TypeOK, NoLostWakeup, [Next]_vars PROVE NoLostWakeup'
      OBVIOUS
    <2>1. CASE Next
      BY <2>1, HooksWakeup, CallWakeup, StepWakeup DEF Next
    <2>2. CASE UNCHANGED vars
      BY <2>2, SameWaiters, WakeupKept DEF vars
    <2> QED
      BY <2>1, <2>2
  <1> QED
    BY <1>1, <1>2, TypeCorrect, PTL DEF Spec

-----------------------------------------------------------------------------
(* Elements without a buffer.                                              *)

\* NullNeverHandedOut, buffer by buffer.
HandedOutReal ==
    \A s \in Seqs : state[s] \notin {"none", "released"} => config[s] # NoConfig

LEMMA HandedOutEquiv == HandedOutReal => NullNeverHandedOut
  BY DEF HandedOutReal, NullNeverHandedOut, Entries, IsNull

LEMMA EntriesUnchanged ==
  ASSUME HandedOutReal, UNCHANGED entries PROVE HandedOutReal'
  BY DEF HandedOutReal, entries

LEMMA DeletedReal ==
  ASSUME HandedOutReal, NEW D, DeleteBufferInCache(D) PROVE HandedOutReal'
  BY DEF HandedOutReal, DeleteBufferInCache

LEMMA ReuseReal ==
  ASSUME HandedOutReal, TypeOK, NEW t \in Threads, want[t] \in Configs,
         NEW i \in 1..Len(freeList), ReuseBuffer(t, i)
  PROVE  HandedOutReal'
  <1> USE DEF TypeOK
  <1>1. freeList[i] \in Seqs /\ want[t] # NoConfig
    BY ElementOfSeq, ConfigAssumption DEF StoreOK
  <1>2. CASE ReuseSame(t, i)
    BY <1>1, <1>2 DEF ReuseSame, Touch, HandedOutReal, StoreOK
  <1>3. CASE ReuseRealloc(t, i)
    BY <1>1, <1>3 DEF ReuseRealloc, Touch, HandedOutReal, StoreOK
  <1>4. CASE ReuseReallocFails(t, i)
    BY <1>1, <1>4 DEF ReuseReallocFails, Touch, HandedOutReal, StoreOK
  <1>5. CASE ReuseNull(t, i)
    BY <1>5, EntriesUnchanged DEF ReuseNull, Crash
  <1> QED
    BY <1>2, <1>3, <1>4, <1>5 DEF ReuseBuffer

LEMMA AllocReal ==
  ASSUME HandedOutReal, TypeOK, NEW t \in Threads, want[t] \in Configs,
         AllocBuffer(t) \/ RequestFails(t)
  PROVE  HandedOutReal'
  <1>1. CASE AllocBuffer(t)
    BY <1>1, ConfigAssumption DEF AllocBuffer, PutElement, HandedOutReal, TypeOK, StoreOK
  <1>2. CASE RequestFails(t)
    BY <1>2, EntriesUnchanged DEF RequestFails
  <1> QED
    BY <1>1, <1>2

LEMMA CancelReal ==
  ASSUME HandedOutReal, TypeOK, NEW s \in Seqs, CancelEffect(s)
  PROVE  HandedOutReal'
  BY DEF CancelEffect, HandedOutReal, TypeOK, StoreOK

LEMMA StepReal ==
  ASSUME HandedOutReal, TypeOK, NEW t \in Threads, Step(t)
  PROVE  HandedOutReal'
  <1> USE DEF TypeOK
  <1>1. CASE RequestLocked(t) \/ RequestRetry(t)
    <2>1. want[t] \in Configs
      BY <1>1 DEF RequestLocked, RequestRetry, At, ThreadsOK, ArgsOK
    <2>2. ASSUME NEW i \in 1..Len(freeList), ReuseBuffer(t, i) PROVE HandedOutReal'
      BY <2>1, <2>2, ReuseReal
    <2>3. CASE AllocBuffer(t) \/ RequestFails(t)
      BY <2>1, <2>3, AllocReal
    <2>4. CASE UNCHANGED entries
      BY <2>4, EntriesUnchanged
    <2> QED
      BY <1>1, <2>2, <2>3, <2>4 DEF RequestLocked, RequestRetry
  <1>2. CASE FlushCancel(t)
    <2>1. seq[t] \in Seqs
      BY <1>2 DEF FlushCancel, At, ThreadsOK, ArgsOK
    <2> QED
      BY <1>2, <2>1, CancelReal, EntriesUnchanged DEF FlushCancel
  <1>3. ASSUME NEW ok \in BOOLEAN, DoFlushBuffer(t, ok) PROVE HandedOutReal'
    <2>1. CASE FlushDeletes(t)
      BY <2>1, DeletedReal DEF FlushDeletes
    <2>2. CASE FlushQueues(t, ok)
      BY <2>2 DEF FlushQueues, HandedOutReal, IsNull, StoreOK
    <2>3. CASE FlushNull(t)
      BY <2>3, EntriesUnchanged DEF FlushNull, Crash
    <2> QED
      BY <1>3, <2>1, <2>2, <2>3 DEF DoFlushBuffer
  <1>4. CASE DoReleaseBuffer(t)
    <2>1. CASE ReleaseFrees(t)
      BY <2>1 DEF ReleaseFrees, HandedOutReal, StoreOK
    <2>2. CASE ReleaseDeletes(t)
      BY <2>2, DeletedReal DEF ReleaseDeletes
    <2> QED
      BY <1>4, <2>1, <2>2 DEF DoReleaseBuffer
  <1>5. CASE SizeDelete(t)
    BY <1>5 DEF SizeDelete, DeleteBuffers, HandedOutReal
  <1>6. CASE \/ WaitAgain(t) \/ FlushListener(t) \/ FlushNotify(t)
             \/ OnBufferAvailable(t) \/ ListenerGone(t) \/ ReleaseListener(t)
             \/ ReleaseTaken(t) \/ ReleaseDeclined(t) \/ SizeWrite(t)
    BY <1>6, EntriesUnchanged
       DEF WaitAgain, FlushListener, FlushNotify, OnBufferAvailable, ListenerGone,
           Crash, ReleaseListener, ReleaseTaken, ReleaseDeclined, SizeWrite
  <1> QED
    BY <1>1, <1>2, <1>3, <1>4, <1>5, <1>6 DEF Step

LEMMA CallReal ==
  ASSUME HandedOutReal, TypeOK, NEW t \in Threads, Call(t)
  PROVE  HandedOutReal'
  <1> USE DEF TypeOK
  <1>1. ASSUME NEW s \in Seqs, CancelBuffer(t, s) PROVE HandedOutReal'
    BY <1>1, CancelReal DEF CancelBuffer
  <1>2. ASSUME NEW s \in Seqs, AcquireBuffer(t, s) PROVE HandedOutReal'
    BY <1>2 DEF AcquireBuffer, AcquireEffect, IsNull, HandedOutReal, StoreOK
  <1>3. ASSUME NEW s \in Seqs, DetachBuffer(t, s) PROVE HandedOutReal'
    BY <1>3, DeletedReal DEF DetachBuffer
  <1>4. ASSUME NEW s \in Seqs, NEW c \in Configs, AttachBuffer(t, s, c)
        PROVE  HandedOutReal'
    BY <1>4, ConfigAssumption DEF AttachBuffer, PutElement, HandedOutReal, StoreOK
  <1>5. CASE CleanCache(t)
    BY <1>5, DeletedReal DEF CleanCache
  <1>6. CASE \/ \E c \in Configs : RequestBuffer(t, c)
             \/ \E s \in Seqs : FlushBuffer(t, s) \/ ReleaseBuffer(t, s)
             \/ AcquireNull(t) \/ AttachWhenFull(t)
             \/ \E n \in 0..(MaxQueueSize + 1) : SetQueueSize(t, n)
    BY <1>6, EntriesUnchanged DEF RequestBuffer, FlushBuffer, ReleaseBuffer,
                                  AcquireNull, Crash, AttachWhenFull, SetQueueSize
  <1> QED
    BY <1>1, <1>2, <1>3, <1>4, <1>5, <1>6 DEF Call

\* However the calls overlap, a client is never handed an element that operator[]
\* inserted without a buffer.
THEOREM NullKeptInside == Spec => []NullNeverHandedOut
  <1>1. Init => HandedOutReal
    BY DEF Init, HandedOutReal
  <1>2. TypeOK /\ HandedOutReal /\ [Next]_vars => HandedOutReal'
    <2> SUFFICES ASSUME TypeOK, HandedOutReal, [Next]_vars PROVE HandedOutReal'
      OBVIOUS
    <2>1. CASE Hooks
      BY <2>1, EntriesUnchanged
         DEF Hooks, DumpFails, Crash, RegisterConsumerListener,
             UnregisterConsumerListener, RegisterReleaseListener
    <2>2. CASE \E t \in Threads : Call(t) \/ Step(t)
      BY <2>2, CallReal, StepReal
    <2>3. CASE UNCHANGED vars
      BY <2>3, EntriesUnchanged DEF vars, entries
    <2> QED
      BY <2>1, <2>2, <2>3 DEF Next
  <1> QED
    BY <1>1, <1>2, HandedOutEquiv, TypeCorrect, PTL DEF Spec
=============================================================================
