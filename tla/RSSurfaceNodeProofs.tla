------------------------ MODULE RSSurfaceNodeProofs ------------------------
(***************************************************************************)
(* Proofs about RSSurfaceNode for any buffers, queue sizes and bounds.     *)
(***************************************************************************)
EXTENDS RSSurfaceNode, SequenceTheorems, TLAPS

-----------------------------------------------------------------------------
(* Facts about the queue.                                                  *)

\* Dropping the k oldest frames leaves the others, in number too.
LEMMA DropOldest ==
  ASSUME NEW q \in Seq(Buffers), NEW k \in 0..Len(q)
  PROVE  /\ SubSeq(q, k + 1, Len(q)) \in Seq(Buffers)
         /\ Len(SubSeq(q, k + 1, Len(q))) = Len(q) - k
  <1>1. Len(q) \in Nat /\ \A i \in (k + 1)..Len(q) : q[i] \in Buffers
    BY LenProperties, ElementOfSeq
  <1> QED
    BY <1>1, SubSeqProperties

\* Acquiring takes one frame.
LEMMA AcquireTakes ==
  ASSUME QueueOK, NEW b \in Buffers, Acquire(b)
  PROVE  /\ holder' \in [Buffers -> {"producer", "node", "free", "queued", "gone"}]
         /\ pending' \in Seq(Buffers)
         /\ Len(pending) >= 1
         /\ Len(pending') = Len(pending) - 1
  <1>1. pending \in Seq(Buffers) /\ pending # << >>
    BY DEF QueueOK, Acquire
  <1>2. Tail(pending) \in Seq(Buffers) /\ Len(Tail(pending)) = Len(pending) - 1
    BY <1>1, HeadTailProperties
  <1>3. Len(pending) >= 1
    BY <1>1, EmptySeq, LenProperties
  <1> QED
    BY <1>2, <1>3 DEF Acquire, QueueOK

\* Submitting adds one.
LEMMA SubmitAdds ==
  ASSUME QueueOK, NEW b \in Buffers, Submit(b)
  PROVE  QueueOK' /\ Len(pending') = Len(pending) + 1
  <1>1. pending' \in Seq(Buffers) /\ Len(pending') = Len(pending) + 1
    BY AppendProperties DEF QueueOK, Submit
  <1> QED
    BY <1>1 DEF QueueOK, Submit

\* A release changes no queued frame.
LEMMA ReleaseType ==
  ASSUME QueueOK, NEW b \in Buffers \cup {NoBuffer}, Release(b),
         UNCHANGED <<pending, queueSize>>
  PROVE  QueueOK'
  BY DEF QueueOK, Release, Free

-----------------------------------------------------------------------------
(* The inductive invariant.                                                *)

\* A frame is dropped only while at least two were counted, and the main thread has
\* a buffer in hand only inside a task or a drop.
Hand ==
    /\ main = "dropped" => available >= 2
    /\ main \notin {"task", "dropped"} => got = NoBuffer

\* The invariants hold before the first frame.
LEMMA InitType == Init => TypeOK /\ Hand /\ CountMatchesQueue /\ HoldsOne
  <1> SUFFICES ASSUME Init PROVE TypeOK /\ Hand /\ CountMatchesQueue /\ HoldsOne
    OBVIOUS
  <1>1. pending = << >> /\ Len(pending) = 0 /\ pending \in Seq(Buffers)
    BY EmptySeq DEF Init, Exchange!XInit
  <1>2. TypeOK
    BY <1>1 DEF Init, Exchange!XInit, TypeOK, QueueOK, CallsOK, HandlerOK, MainOK, HistoryOK
  <1>3. Hand
    BY DEF Init, Hand
  <1>4. CountMatchesQueue
    BY <1>1 DEF Init, CountMatchesQueue, InHand, Frames
  <1>5. HoldsOne
    BY DEF Init, Exchange!XInit, HoldsOne
  <1> QED
    BY <1>2, <1>3, <1>4, <1>5

-----------------------------------------------------------------------------
(* Types, and what the main thread has in hand.                            *)

\* What the producer does keeps them,
LEMMA ProducerType ==
  ASSUME TypeOK, Hand, Producer
  PROVE  TypeOK' /\ Hand'
  <1> USE DEF TypeOK, CallsOK, HandlerOK, MainOK, HistoryOK, Hand, calls, handler,
              history, producerRest
  <1>1. ASSUME NEW b \in Buffers, Request(b) PROVE TypeOK' /\ Hand'
    BY <1>1 DEF Request, QueueOK
  <1>2. ASSUME NEW b \in Buffers, Flush(b) PROVE TypeOK' /\ Hand'
    <2>1. QueueOK'
      BY <1>2, SubmitAdds DEF Flush
    <2> QED
      BY <1>2, <2>1 DEF Flush, Submit, CallListener
  <1>3. ASSUME NEW b \in Buffers, FlushUncounted(b) PROVE TypeOK' /\ Hand'
    <2>1. QueueOK'
      BY <1>3, SubmitAdds DEF FlushUncounted
    <2> QED
      BY <1>3, <2>1 DEF FlushUncounted, Submit
  <1>4. ASSUME NEW b \in Buffers, FlushMarked(b) PROVE TypeOK' /\ Hand'
    BY <1>4 DEF FlushMarked, CallListener, QueueOK
  <1>5. ASSUME NEW size \in Sizes, Resize(size) PROVE TypeOK' /\ Hand'
    <2>1. CASE Shrink(queueSize - size)
      <3>1. PICK F \in SUBSET Exchange!Free, k \in 0..Len(pending), D \in SUBSET Held :
                /\ Exchange!Move(F \cup {pending[i] : i \in 1..k}, {}, "gone")
                /\ pending' = SubSeq(pending, k + 1, Len(pending))
                /\ marked' = marked \cup D
                /\ lost' = (lost \/ k > 0)
        BY <2>1 DEF Shrink
      <3>2. pending' \in Seq(Buffers)
        BY <3>1, DropOldest DEF QueueOK
      <3>3. holder' \in [Buffers -> {"producer", "node", "free", "queued", "gone"}]
        BY <3>1 DEF Exchange!Move, QueueOK
      <3>4. QueueOK'
        BY <1>5, <3>1, <3>2, <3>3 DEF Resize, Held, QueueOK
      <3>5. lost' \in BOOLEAN
        BY <3>1
      <3> QED
        BY <1>5, <3>4, <3>5 DEF Resize
    <2>2. CASE UNCHANGED <<holder, pending, marked, lost>>
      BY <1>5, <2>2 DEF Resize, QueueOK
    <2> QED
      BY <1>5, <2>1, <2>2 DEF Resize
  <1>6. ASSUME CleanCache PROVE TypeOK' /\ Hand'
    <2>1. pending' \in Seq(Buffers)
      BY <1>6, EmptySeq DEF CleanCache, Exchange!Clear
    <2>2. lost' \in BOOLEAN
      BY <1>6 DEF CleanCache
    <2> QED
      BY <1>6, <2>1, <2>2 DEF CleanCache, Exchange!Clear, QueueOK
  <1> QED
    BY <1>1, <1>2, <1>3, <1>4, <1>5, <1>6 DEF Producer

\* what a call of OnBufferAvailable does,
LEMMA CallType ==
  ASSUME TypeOK, Hand, OnBufferAvailable
  PROVE  TypeOK' /\ Hand'
  <1> USE DEF TypeOK, QueueOK, CallsOK, HandlerOK, MainOK, HistoryOK, Hand, queue,
              history, callRest
  <1>1. CASE Look
    BY <1>1 DEF Look
  <1>2. CASE IncreaseAvailableBuffer
    BY <1>2 DEF IncreaseAvailableBuffer
  <1>3. CASE PostTask
    BY <1>3 DEF PostTask
  <1>4. CASE AskForVSync
    BY <1>4 DEF AskForVSync, RequestNextVSync
  <1> QED
    BY <1>1, <1>2, <1>3, <1>4 DEF OnBufferAvailable

\* what a posted task does,
LEMMA TaskType ==
  ASSUME TypeOK, Hand, Task
  PROVE  TypeOK' /\ Hand'
  <1> USE DEF TypeOK, CallsOK, HandlerOK, MainOK, HistoryOK, Hand, calls, handler,
              history, mainRest
  <1>1. CASE RunTask
    <2>1. ASSUME NEW b \in Buffers, Acquire(b), got' = b, main' = "task"
          PROVE  TypeOK' /\ Hand'
      <3>1. QueueOK'
        BY <1>1, <2>1, AcquireTakes DEF RunTask, QueueOK
      <3> QED
        BY <1>1, <2>1, <3>1 DEF RunTask
    <2>2. CASE UNCHANGED <<holder, pending, got, main>>
      BY <1>1, <2>2 DEF RunTask, QueueOK
    <2> QED
      BY <1>1, <2>1, <2>2 DEF RunTask
  <1>2. CASE TaskUpdate
    <2>1. QueueOK'
      <3>1. CASE buffer # got
        BY <1>2, <3>1, ReleaseType DEF TaskUpdate
      <3>2. CASE buffer = got
        BY <1>2, <3>2 DEF TaskUpdate, QueueOK
      <3> QED
        BY <3>1, <3>2
    <2> QED
      BY <1>2, <2>1 DEF TaskUpdate, SetBuffer
  <1> QED
    BY <1>1, <1>2 DEF Task

\* what the main thread does in a frame,
LEMMA FrameType ==
  ASSUME TypeOK, Hand, Frame
  PROVE  TypeOK' /\ Hand'
  <1> USE DEF TypeOK, CallsOK, HandlerOK, MainOK, HistoryOK, Hand, calls, handler,
              history, mainRest, frameRest, composeRest
  <1>1. CASE ProcessCommand
    <2>1. shown' \in BOOLEAN
      BY <1>1 DEF ProcessCommand
    <2>2. main' \in {"idle", "drop"} /\ loops' \in Nat
      <3>1. loops \in Nat /\ loops > 0 /\ loops' = loops - 1
        BY <1>1 DEF ProcessCommand
      <3>2. main' = "idle" \/ main' = "drop"
        BY <1>1, Zenon DEF ProcessCommand
      <3> QED
        BY <3>1, <3>2
    <2>3. commands' \in BOOLEAN
      BY <1>1 DEF ProcessCommand
    <2>4. QueueOK' /\ CallsOK' /\ HandlerOK' /\ HistoryOK'
      BY <1>1 DEF ProcessCommand, queue, QueueOK
    <2>5. UNCHANGED <<tasks, wanted, got>>
      BY <1>1 DEF ProcessCommand
    <2>6. MainOK' /\ Hand'
      <3>1. got = NoBuffer
        BY <1>1 DEF ProcessCommand
      <3>2. wanted' \in BOOLEAN
        BY <2>5
      <3> QED
        BY <2>1, <2>2, <2>5, <2>3, <3>1, <3>2
    <2> QED
      BY <2>4, <2>6
  <1>2. CASE DropFrameProcess
    <2>1. ASSUME NEW b \in Buffers, QueueBlocked, Acquire(b), got' = b, main' = "dropped"
          PROVE  TypeOK' /\ Hand'
      <3>1. QueueOK'
        BY <1>2, <2>1, AcquireTakes DEF DropFrameProcess, QueueOK
      <3> QED
        BY <1>2, <2>1, <3>1 DEF DropFrameProcess, QueueBlocked
    <2>2. CASE main' = "consume" /\ UNCHANGED <<holder, pending, got>>
      BY <1>2, <2>2 DEF DropFrameProcess, QueueOK
    <2> QED
      BY <1>2, <2>1, <2>2 DEF DropFrameProcess
  <1>3. CASE DropRelease
    <2>1. QueueOK'
      BY <1>3, ReleaseType DEF DropRelease
    <2> QED
      BY <1>3, <2>1 DEF DropRelease
  <1>4. CASE ConsumeAndUpdateBuffer
    <2>1. wanted' \in BOOLEAN
      BY <1>4 DEF ConsumeAndUpdateBuffer, RequestNextVSync
    <2>2. CASE KeepBuffer
      BY <1>4, <2>1, <2>2 DEF ConsumeAndUpdateBuffer, KeepBuffer, SetBuffer, QueueOK
    <2>3. ASSUME NEW b \in Buffers, Consume(b) PROVE TypeOK' /\ Hand'
      <3>1. QueueOK'
        BY <1>4, <2>3, AcquireTakes DEF ConsumeAndUpdateBuffer, Consume, QueueOK
      <3> QED
        BY <1>4, <2>1, <2>3, <3>1 DEF ConsumeAndUpdateBuffer, Consume, SetBuffer
    <2> QED
      BY <1>4, <2>2, <2>3 DEF ConsumeAndUpdateBuffer
  <1>5. CASE ConsumeNothing
    BY <1>5 DEF ConsumeNothing, QueueOK
  <1>6. CASE Repaint
    <2>1. QueueOK'
      <3>1. CASE buffer # preBuffer
        BY <1>6, <3>1, ReleaseType DEF Repaint
      <3>2. CASE buffer = preBuffer
        BY <1>6, <3>2 DEF Repaint, QueueOK
      <3> QED
        BY <3>1, <3>2
    <2> QED
      BY <1>6, <2>1 DEF Repaint
  <1>7. CASE RepaintFails
    <2>1. leaked' \subseteq Buffers
      BY <1>7 DEF RepaintFails
    <2> QED
      BY <1>7, <2>1 DEF RepaintFails, QueueOK
  <1>8. CASE ReleaseNodePrevBuffer
    <2>1. QueueOK'
      BY <1>8, ReleaseType DEF ReleaseNodePrevBuffer
    <2> QED
      BY <1>8, <2>1 DEF ReleaseNodePrevBuffer
  <1> QED
    BY <1>1, <1>2, <1>3, <1>4, <1>5, <1>6, <1>7, <1>8 DEF Frame

\* and so every step.
LEMMA StepType == TypeOK /\ Hand /\ [Next]_vars => TypeOK' /\ Hand'
  <1> SUFFICES ASSUME TypeOK, Hand, [Next]_vars PROVE TypeOK' /\ Hand'
    OBVIOUS
  <1>1. CASE OnVsync
    <2> USE DEF OnVsync, queue, calls, handler, history
    <2>1. QueueOK' /\ CallsOK' /\ HandlerOK' /\ HistoryOK'
      BY <1>1 DEF TypeOK, QueueOK, CallsOK, HandlerOK, HistoryOK
    <2>2. wanted' \in BOOLEAN /\ shown' \in BOOLEAN /\ commands' \in BOOLEAN
      BY <1>1 DEF TypeOK, MainOK
    <2>3. loops' \in Nat /\ UNCHANGED <<tasks, main, got>>
      BY <1>1 DEF TypeOK, MainOK
    <2>4. MainOK' /\ Hand'
      BY <1>1, <2>2, <2>3 DEF TypeOK, MainOK, Hand
    <2> QED
      BY <2>1, <2>4 DEF TypeOK
  <1>2. CASE RecvRSTransactionData
    BY <1>2 DEF RecvRSTransactionData, RequestNextVSync, TypeOK, QueueOK, CallsOK,
                HandlerOK, MainOK, HistoryOK, Hand, queue, calls, handler, history
  <1>3. CASE UNCHANGED vars
    BY <1>3 DEF vars, TypeOK, QueueOK, CallsOK, HandlerOK, MainOK, HistoryOK, Hand,
                queue, calls, handler, history
  <1> QED
    BY <1>1, <1>2, <1>3, ProducerType, CallType, TaskType, FrameType DEF Next

\* The fields of the node, the queue and the main thread keep their types whatever
\* the interleaving; bufferAvailableCount_ is never negative.
THEOREM TypeCorrect == Spec => []TypeOK
  <1>1. Init => TypeOK /\ Hand
    BY InitType
  <1>2. TypeOK /\ Hand /\ [Next]_vars => TypeOK' /\ Hand'
    BY StepType
  <1> QED
    BY <1>1, <1>2, PTL DEF Spec

-----------------------------------------------------------------------------
(* The count.                                                              *)

\* What stands for a frame, and the frame in hand, are counted by natural numbers.
LEMMA FramesType == TypeOK => Frames \in Nat /\ InHand \in Nat /\ Len(pending) \in Nat
  BY LenProperties DEF TypeOK, QueueOK, CallsOK, HandlerOK, MainOK, Frames, InHand

\* The count keeps matching when counts and queue change by as much,
LEMMA CountBoth ==
  ASSUME CountMatchesQueue, lost => lost',
         Len(pending) + InHand <= Frames + uncounted =>
             Len(pending') + InHand' <= Frames' + uncounted',
         Len(pending) + InHand = Frames + uncounted =>
             Len(pending') + InHand' = Frames' + uncounted'
  PROVE  CountMatchesQueue'
  BY Zenon DEF CountMatchesQueue

\* when frames are lost and there are no more queued than counted,
LEMMA CountLost ==
  ASSUME lost', Len(pending') + InHand' <= Frames' + uncounted'
  PROVE  CountMatchesQueue'
  BY Zenon DEF CountMatchesQueue

\* and when neither changes.
LEMMA CountSame ==
  ASSUME CountMatchesQueue, UNCHANGED <<Len(pending), InHand, Frames, uncounted, lost>>
  PROVE  CountMatchesQueue'
  BY DEF CountMatchesQueue

\* Every step keeps the count matching the queue.
LEMMA StepCount ==
  ASSUME TypeOK, CountMatchesQueue, [Next]_vars
  PROVE  CountMatchesQueue'
  <1>0. /\ listening \in Nat /\ counting \in Nat /\ posting \in Nat
        /\ available \in Nat /\ tasks \in Nat /\ uncounted \in Nat
        /\ pending \in Seq(Buffers) /\ QueueOK
        /\ Frames \in Nat /\ InHand \in Nat /\ Len(pending) \in Nat
        /\ Len(pending) + InHand <= Frames + uncounted
    BY FramesType
    DEF TypeOK, QueueOK, CallsOK, HandlerOK, MainOK, HistoryOK, CountMatchesQueue
  <1> USE <1>0
  <1>1. ASSUME NEW b \in Buffers, Request(b) PROVE CountMatchesQueue'
    BY <1>1, CountSame DEF Request, calls, producerRest, handler, history, Frames, InHand
  <1>2. ASSUME NEW b \in Buffers, Flush(b) PROVE CountMatchesQueue'
    <2>1. Len(pending') = Len(pending) + 1
      BY <1>2, SubmitAdds DEF Flush
    <2>2. Frames' = Frames + 1
      BY <1>2 DEF Flush, Submit, CallListener, producerRest, handler, Frames
    <2>3. InHand' = InHand /\ uncounted' = uncounted /\ lost' = lost
      BY <1>2 DEF Flush, Submit, producerRest, InHand
    <2> QED
      BY <2>1, <2>2, <2>3, CountBoth
  <1>3. ASSUME NEW b \in Buffers, FlushUncounted(b) PROVE CountMatchesQueue'
    <2>1. Len(pending') = Len(pending) + 1
      BY <1>3, SubmitAdds DEF FlushUncounted
    <2>2. Frames' = Frames /\ InHand' = InHand /\ lost' = lost
      BY <1>3 DEF FlushUncounted, Submit, calls, producerRest, handler, Frames, InHand
    <2>3. uncounted' = uncounted + 1
      BY <1>3 DEF FlushUncounted
    <2> QED
      BY <2>1, <2>2, <2>3, CountBoth
  <1>4. ASSUME NEW b \in Buffers, FlushMarked(b) PROVE CountMatchesQueue'
    <2>1. Frames' = Frames + 1
      BY <1>4 DEF FlushMarked, CallListener, producerRest, handler, Frames
    <2>2. Len(pending') = Len(pending) /\ InHand' = InHand /\ uncounted' = uncounted
      BY <1>4 DEF FlushMarked, producerRest, InHand
    <2>3. lost'
      BY <1>4 DEF FlushMarked
    <2> QED
      BY <2>1, <2>2, <2>3, CountLost
  <1>5. ASSUME NEW size \in Sizes, Resize(size) PROVE CountMatchesQueue'
    <2>1. UNCHANGED <<Frames, uncounted, InHand>>
      BY <1>5 DEF Resize, calls, producerRest, handler, Frames, InHand
    <2>2. CASE Shrink(queueSize - size)
      <3>1. PICK k \in 0..Len(pending) :
                /\ pending' = SubSeq(pending, k + 1, Len(pending))
                /\ lost' = (lost \/ k > 0)
        BY <2>2 DEF Shrink
      <3>2. Len(pending') = Len(pending) - k
        BY <3>1, DropOldest
      <3>3. CASE k = 0
        <4>1. lost => lost'
          BY <3>1, Zenon
        <4>2. Len(pending') = Len(pending)
          BY <3>2, <3>3
        <4> QED
          BY <2>1, <4>1, <4>2, CountBoth
      <3>4. CASE k > 0
        <4>1. lost'
          BY <3>1, <3>4, Zenon
        <4> QED
          BY <2>1, <3>2, <4>1, CountLost
      <3> QED
        BY <3>3, <3>4
    <2>3. CASE UNCHANGED <<holder, pending, marked, lost>>
      BY <2>1, <2>3, CountSame
    <2> QED
      BY <1>5, <2>2, <2>3 DEF Resize
  <1>6. ASSUME CleanCache PROVE CountMatchesQueue'
    <2>1. pending' = << >> /\ Len(pending') = 0
      BY <1>6, EmptySeq DEF CleanCache, Exchange!Clear
    <2>2. UNCHANGED <<Frames, uncounted, InHand>>
      BY <1>6 DEF CleanCache, calls, producerRest, handler, Frames, InHand
    <2>3. CASE pending = << >>
      <3>1. lost => lost'
        BY <1>6, Zenon DEF CleanCache
      <3>2. Len(pending') = Len(pending)
        BY <2>1, <2>3
      <3> QED
        BY <2>2, <3>1, <3>2, CountBoth
    <2>4. CASE pending # << >>
      <3>1. lost'
        BY <1>6, <2>4, Zenon DEF CleanCache
      <3> QED
        BY <2>1, <2>2, <3>1, CountLost
    <2> QED
      BY <2>3, <2>4
  <1>7. CASE OnBufferAvailable
    <2>1. UNCHANGED <<pending, InHand, uncounted, lost>>
      BY <1>7 DEF OnBufferAvailable, Look, IncreaseAvailableBuffer, PostTask,
                  AskForVSync, callRest, queue, history, InHand
    <2>2. UNCHANGED Frames
      <3>1. CASE Look
        BY <3>1 DEF Look, Frames
      <3>2. CASE IncreaseAvailableBuffer
        BY <3>2 DEF IncreaseAvailableBuffer, Frames
      <3>3. CASE PostTask
        BY <3>3 DEF PostTask, Frames
      <3>4. CASE AskForVSync
        BY <3>4 DEF AskForVSync, Frames
      <3> QED
        BY <1>7, <3>1, <3>2, <3>3, <3>4 DEF OnBufferAvailable
    <2> QED
      BY <2>1, <2>2, CountSame
  <1>8. CASE RunTask
    <2>1. UNCHANGED <<uncounted, lost>>
      BY <1>8 DEF RunTask, history
    <2>2. Frames' = Frames - 1
      BY <1>8 DEF RunTask, mainRest, calls, handler, Frames
    <2>3. ASSUME NEW b \in Buffers, Acquire(b), main' = "task"
          PROVE  CountMatchesQueue'
      <3>1. Len(pending') = Len(pending) - 1
        BY <2>3, AcquireTakes
      <3>2. UNCHANGED InHand
        BY <1>8, <2>3 DEF RunTask, InHand
      <3> QED
        BY <2>1, <2>2, <3>1, <3>2, CountBoth
    <2>4. CASE pending = << >> /\ UNCHANGED <<holder, pending, got, main>>
      <3>1. Len(pending) = 0 /\ Len(pending') = 0
        BY <2>4, EmptySeq
      <3>2. InHand = 0 /\ InHand' = 0
        BY <1>8, <2>4 DEF RunTask, InHand
      <3>3. tasks > 0 /\ Frames >= tasks
        BY <1>8 DEF RunTask, Frames
      <3>4. Frames + uncounted # 0
        BY <3>3
      <3>5. lost
        BY <3>1, <3>2, <3>4 DEF CountMatchesQueue
      <3>6. lost'
        BY <2>1, <3>5
      <3> QED
        BY <2>1, <2>2, <3>1, <3>2, <3>3, <3>6, CountLost
    <2> QED
      BY <1>8, <2>3, <2>4 DEF RunTask
  <1>9. CASE TaskUpdate
    BY <1>9, CountSame
    DEF TaskUpdate, mainRest, calls, history, Frames, InHand
  <1>10. CASE DropFrameProcess
    <2>1. UNCHANGED <<Frames, uncounted, lost>>
      BY <1>10 DEF DropFrameProcess, frameRest, mainRest, calls, handler, history, Frames
    <2>2. ASSUME NEW b \in Buffers, Acquire(b), main' = "dropped"
          PROVE  CountMatchesQueue'
      <3>1. Len(pending') = Len(pending) - 1
        BY <2>2, AcquireTakes
      <3>2. InHand' = InHand + 1
        BY <1>10, <2>2 DEF DropFrameProcess, InHand
      <3> QED
        BY <2>1, <3>1, <3>2, CountBoth
    <2>3. CASE main' = "consume" /\ UNCHANGED <<holder, pending, got>>
      <3>1. UNCHANGED InHand
        BY <1>10, <2>3 DEF DropFrameProcess, InHand
      <3> QED
        BY <2>1, <2>3, <3>1, CountSame
    <2> QED
      BY <1>10, <2>2, <2>3 DEF DropFrameProcess
  <1>11. CASE DropRelease
    <2>1. InHand = 1 /\ InHand' = InHand - 1
      BY <1>11 DEF DropRelease, InHand
    <2>2. Frames' = Frames - 1
      BY <1>11 DEF DropRelease, frameRest, mainRest, calls, Frames
    <2>3. UNCHANGED <<pending, uncounted, lost>>
      BY <1>11 DEF DropRelease, history
    <2> QED
      BY <2>1, <2>2, <2>3, CountBoth
  <1>12. CASE ConsumeAndUpdateBuffer
    <2>1. UNCHANGED <<listening, counting, posting, tasks, uncounted, lost>>
      BY <1>12 DEF ConsumeAndUpdateBuffer, frameRest, mainRest, calls, history
    <2>2. UNCHANGED InHand
      BY <1>12 DEF ConsumeAndUpdateBuffer, InHand
    <2>3. CASE KeepBuffer
      BY <2>1, <2>2, <2>3, CountSame DEF KeepBuffer, Frames
    <2>4. ASSUME NEW b \in Buffers, Consume(b) PROVE CountMatchesQueue'
      <3>1. Len(pending') = Len(pending) - 1
        BY <2>4, AcquireTakes DEF Consume
      <3>2. Frames' = Frames - 1
        BY <2>1, <2>4 DEF Consume, Frames
      <3> QED
        BY <2>1, <2>2, <3>1, <3>2, CountBoth
    <2> QED
      BY <1>12, <2>3, <2>4 DEF ConsumeAndUpdateBuffer
  <1>13. CASE ProcessCommand
    BY <1>13, CountSame DEF ProcessCommand, calls, handler, history, queue, Frames, InHand
  <1>14. CASE ConsumeNothing
    BY <1>14, CountSame
    DEF ConsumeNothing, frameRest, mainRest, calls, handler, history, Frames, InHand
  <1>15. CASE Repaint \/ RepaintFails \/ ReleaseNodePrevBuffer
    BY <1>15, CountSame
    DEF Repaint, RepaintFails, ReleaseNodePrevBuffer, composeRest, frameRest, mainRest,
        calls, handler, Frames, InHand
  <1>16. CASE OnVsync \/ RecvRSTransactionData \/ UNCHANGED vars
    BY <1>16, CountSame
    DEF OnVsync, RecvRSTransactionData, vars, queue, calls, handler, history, Frames,
        InHand
  <1> QED
    BY <1>1, <1>2, <1>3, <1>4, <1>5, <1>6, <1>7, <1>8, <1>9, <1>10, <1>11, <1>12,
       <1>13, <1>14, <1>15, <1>16
    DEF Next, Producer, Task, Frame

\* The frames that the node knows of are the frames in the queue, for any number of
\* listener calls, tasks and frames in flight.
THEOREM CountCorrect == Spec => []CountMatchesQueue
  <1>1. Init => TypeOK /\ Hand /\ CountMatchesQueue
    BY InitType
  <1>2. TypeOK /\ Hand /\ CountMatchesQueue /\ [Next]_vars
            => TypeOK' /\ Hand' /\ CountMatchesQueue'
    BY StepType, StepCount
  <1> QED
    BY <1>1, <1>2, PTL DEF Spec

-----------------------------------------------------------------------------
(* What DropFrameProcess drops.                                            *)

\* The main thread is about to give back the frame it left out: of the two that were
\* counted one at least is still queued.
LEMMA NewerQueued ==
  ASSUME TypeOK, Hand, CountMatchesQueue, DropRelease
  PROVE  pending # << >> \/ lost
  <1> SUFFICES ASSUME ~lost PROVE pending # << >>
    OBVIOUS
  <1>1. main = "dropped" /\ available >= 2
    BY DEF DropRelease, Hand
  <1>2. InHand = 1
    BY <1>1 DEF InHand
  <1>3. Len(pending) + 1 = Frames + uncounted
    BY <1>2 DEF CountMatchesQueue
  <1>4. Frames >= available
    BY DEF TypeOK, CallsOK, HandlerOK, MainOK, Frames
  <1>5. Len(pending) \in Nat /\ Frames \in Nat /\ uncounted \in Nat /\ available \in Nat
    BY FramesType DEF TypeOK, HistoryOK, HandlerOK
  <1>6. Len(pending) # 0
    BY <1>1, <1>3, <1>4, <1>5
  <1> QED
    BY <1>6, EmptySeq

\* DropFrameProcess never leaves out the newest frame, however flushes, listener
\* calls and tasks interleave with it, unless the queue itself lost frames.
THEOREM DropsOnlyOlder == Spec => NewestKept
  <1>1. Init => TypeOK /\ Hand /\ CountMatchesQueue
    BY InitType
  <1>2. TypeOK /\ Hand /\ CountMatchesQueue /\ [Next]_vars
            => TypeOK' /\ Hand' /\ CountMatchesQueue'
    BY StepType, StepCount
  <1>3. TypeOK /\ Hand /\ CountMatchesQueue /\ [Next]_vars
            => [DropRelease => pending # << >> \/ lost]_vars
    BY NewerQueued
  <1> QED
    BY <1>1, <1>2, <1>3, PTL DEF Spec, NewestKept

-----------------------------------------------------------------------------
(* What the node holds.                                                    *)

\* The producer takes nothing from the exchange for the node.
LEMMA ProducerHolds ==
  ASSUME TypeOK, HoldsOne, Producer
  PROVE  HoldsOne'
  <1>0. holder \in [Buffers -> {"producer", "node", "free", "queued", "gone"}]
    BY DEF TypeOK, QueueOK
  <1>1. UNCHANGED <<main, buffer, preBuffer, got>>
    BY DEF Producer, Request, Flush, FlushUncounted, FlushMarked, Resize, CleanCache,
           Submit, producerRest, handler
  <1>2. CASE CleanCache
    <2>1. \A b \in Buffers : holder'[b] # "node"
      BY <1>0, <1>2 DEF CleanCache, Exchange!Clear
    <2> QED
      BY <2>1 DEF HoldsOne
  <1>3. CASE ~CleanCache
    <2>1. leaked' = leaked
      BY <1>3 DEF Producer, Request, Flush, FlushUncounted, FlushMarked, Resize,
                  Submit, history
    <2>2. \A b \in Buffers : holder'[b] = "node" => holder[b] = "node"
      <3>1. ASSUME NEW b \in Buffers,
                   Request(b) \/ Flush(b) \/ FlushUncounted(b) \/ FlushMarked(b)
            PROVE  \A c \in Buffers : holder'[c] = "node" => holder[c] = "node"
        BY <1>0, <3>1 DEF Request, Flush, FlushUncounted, FlushMarked, Submit
      <3>2. ASSUME NEW size \in Sizes, Resize(size)
            PROVE  \A c \in Buffers : holder'[c] = "node" => holder[c] = "node"
        BY <1>0, <3>2 DEF Resize, Shrink, Exchange!Move
      <3> QED
        BY <1>3, <3>1, <3>2 DEF Producer
    <2> QED
      BY <1>1, <2>1, <2>2 DEF HoldsOne
  <1> QED
    BY <1>2, <1>3

\* Giving back b, if the node has it, leaves what else it has.
LEMMA ReleaseHolds ==
  ASSUME TypeOK, NEW b, Release(b)
  PROVE  \A c \in Buffers : holder'[c] = "node" => holder[c] = "node" /\ c # b
  BY DEF TypeOK, QueueOK, Release, Free

\* Acquiring b adds b.
LEMMA AcquireHolds ==
  ASSUME TypeOK, NEW b \in Buffers, Acquire(b)
  PROVE  \A c \in Buffers : holder'[c] = "node" => holder[c] = "node" \/ c = b
  BY DEF TypeOK, QueueOK, Acquire

\* Every step keeps the node from holding more than it uses.
LEMMA StepHolds ==
  ASSUME TypeOK, Hand, HoldsOne, [Next]_vars
  PROVE  HoldsOne'
  <1> USE DEF HoldsOne
  <1>1. CASE OnBufferAvailable \/ OnVsync \/ RecvRSTransactionData \/ UNCHANGED vars
    <2>1. UNCHANGED <<holder, buffer, preBuffer, main, got, leaked>>
      BY <1>1 DEF OnBufferAvailable, Look, IncreaseAvailableBuffer, PostTask,
                  AskForVSync, OnVsync, RecvRSTransactionData, callRest, vars, queue,
                  handler, history
    <2> QED
      BY <2>1
  <1>2. CASE RunTask
    <2>1. UNCHANGED <<buffer, leaked>> /\ main = "idle" /\ got = NoBuffer
      BY <1>2 DEF RunTask, handler, history, Hand
    <2>2. ASSUME NEW b \in Buffers, Acquire(b), got' = b, main' = "task"
          PROVE  HoldsOne'
      BY <2>1, <2>2, AcquireHolds, NodeAssumption
    <2>3. CASE UNCHANGED <<holder, pending, got, main>>
      BY <2>1, <2>3
    <2> QED
      BY <1>2, <2>2, <2>3 DEF RunTask
  <1>3. CASE TaskUpdate
    <2>1. main = "task" /\ main' = "idle" /\ buffer' = got /\ leaked' = leaked
      BY <1>3 DEF TaskUpdate, SetBuffer, history
    <2>2. \A c \in Buffers : holder'[c] = "node" => holder[c] = "node" /\ (c # buffer \/ c = got)
      BY <1>3, ReleaseHolds DEF TaskUpdate
    <2> QED
      BY <2>1, <2>2
  <1>4. CASE ProcessCommand
    <2>1. UNCHANGED <<holder, buffer, got, leaked>> /\ main = "idle"
      BY <1>4 DEF ProcessCommand, queue, handler, history
    <2>2. main' # "compose"
      BY <1>4, Zenon DEF ProcessCommand
    <2> QED
      BY <2>1, <2>2
  <1>5. CASE DropFrameProcess
    <2>1. UNCHANGED <<buffer, leaked>> /\ main = "drop" /\ got = NoBuffer
      BY <1>5 DEF DropFrameProcess, handler, history, Hand
    <2>2. ASSUME NEW b \in Buffers, Acquire(b), got' = b, main' = "dropped"
          PROVE  HoldsOne'
      BY <2>1, <2>2, AcquireHolds, NodeAssumption
    <2>3. CASE main' = "consume" /\ UNCHANGED <<holder, pending, got>>
      BY <2>1, <2>3
    <2> QED
      BY <1>5, <2>2, <2>3 DEF DropFrameProcess
  <1>6. CASE DropRelease
    <2>1. main = "dropped" /\ main' = "consume" /\ UNCHANGED <<buffer, leaked>>
      BY <1>6 DEF DropRelease, history
    <2>2. \A c \in Buffers : holder'[c] = "node" => holder[c] = "node" /\ c # got
      BY <1>6, ReleaseHolds DEF DropRelease
    <2> QED
      BY <2>1, <2>2
  <1>7. CASE ConsumeAndUpdateBuffer
    <2>1. /\ main = "consume" /\ main' = "compose" /\ leaked' = leaked
          /\ got = NoBuffer
      BY <1>7 DEF ConsumeAndUpdateBuffer, history, Hand
    <2>2. CASE KeepBuffer
      <3>1. buffer' = buffer /\ holder' = holder
        BY <2>2 DEF KeepBuffer, SetBuffer
      <3> QED
        BY <2>1, <3>1, NodeAssumption
    <2>3. ASSUME NEW b \in Buffers, Consume(b) PROVE HoldsOne'
      <3>1. buffer' = b /\ (buffer # NoBuffer => preBuffer' = buffer)
        BY <2>3 DEF Consume, SetBuffer
      <3>2. \A c \in Buffers : holder'[c] = "node" => holder[c] = "node" \/ c = b
        BY <2>3, AcquireHolds DEF Consume
      <3> QED
        BY <2>1, <3>1, <3>2, NodeAssumption
    <2> QED
      BY <1>7, <2>2, <2>3 DEF ConsumeAndUpdateBuffer
  <1>8. CASE ConsumeNothing
    BY <1>8 DEF ConsumeNothing, handler, history
  <1>9. CASE Repaint \/ RepaintFails \/ ReleaseNodePrevBuffer
    <2>1. main = "compose" /\ main' = "idle" /\ UNCHANGED <<buffer, preBuffer, got>>
      BY <1>9 DEF Repaint, RepaintFails, ReleaseNodePrevBuffer, composeRest, handler
    <2>2. CASE Repaint \/ ReleaseNodePrevBuffer
      <3>1. leaked' = leaked
        BY <2>2 DEF Repaint, ReleaseNodePrevBuffer
      <3>2. \A c \in Buffers : holder'[c] = "node" =>
                holder[c] = "node" /\ (c # preBuffer \/ c = buffer)
        BY <2>2, ReleaseHolds DEF Repaint, ReleaseNodePrevBuffer
      <3> QED
        BY <2>1, <3>1, <3>2
    <2>3. CASE RepaintFails
      <3>1. /\ holder' = holder
            /\ leaked' = leaked \cup {b \in {preBuffer} \ {buffer, NoBuffer} : holder[b] = "node"}
        BY <2>3 DEF RepaintFails
      <3> QED
        BY <2>1, <3>1, NodeAssumption
    <2> QED
      BY <1>9, <2>2, <2>3
  <1> QED
    BY <1>1, <1>2, <1>3, <1>4, <1>5, <1>6, <1>7, <1>8, <1>9, ProducerHolds
    DEF Next, Task, Frame

\* Whatever the node acquires it gives back once it shows another buffer, except
\* where a Repaint failed: the producer is never starved by buffers that a race
\* between a task, a dropped frame and the layer left behind.
THEOREM NodeHoldsOne == Spec => []HoldsOne
  <1>1. Init => TypeOK /\ Hand /\ HoldsOne
    BY InitType
  <1>2. TypeOK /\ Hand /\ HoldsOne /\ [Next]_vars => TypeOK' /\ Hand' /\ HoldsOne'
    BY StepType, StepHolds
  <1> QED
    BY <1>1, <1>2, PTL DEF Spec

-----------------------------------------------------------------------------
(* The exchange.                                                           *)

\* Acquiring is the exchange's taking of the oldest buffer,
LEMMA AcquireMaps ==
  ASSUME NEW b, Acquire(b)
  PROVE  Exchange!XNext
  <1>1. Exchange!TakeOldest("node")
    BY DEF Acquire, Exchange!TakeOldest
  <1> QED
    BY <1>1 DEF Exchange!XNext

\* and releasing gives a buffer of the node back, takes it out if it is marked, and does
\* nothing to a buffer that the node no longer has.
LEMMA ReleaseMaps ==
  ASSUME NEW b, Release(b), UNCHANGED pending
  PROVE  [Exchange!XNext]_(Exchange!xvars)
  <1>1. CASE b \in Buffers /\ holder[b] = "node" /\ b \in marked
    <2>1. Exchange!Withdraw("node")
      BY <1>1 DEF Release, Free, Exchange!Withdraw
    <2> QED
      BY <2>1 DEF Exchange!XNext
  <1>2. CASE b \in Buffers /\ holder[b] = "node" /\ b \notin marked
    <2>1. Exchange!PutBack("node")
      BY <1>2 DEF Release, Free, Exchange!PutBack
    <2> QED
      BY <2>1 DEF Exchange!XNext
  <1>3. CASE ~(b \in Buffers /\ holder[b] = "node")
    BY <1>3 DEF Release, Exchange!xvars
  <1> QED
    BY <1>1, <1>2, <1>3

\* What the producer does are steps of the exchange: a resize drops no held buffer.
LEMMA ProducerMaps ==
  ASSUME TypeOK, Producer
  PROVE  [Exchange!XNext]_(Exchange!xvars)
  <1>0. holder \in [Buffers -> {"producer", "node", "free", "queued", "gone"}]
    BY DEF TypeOK, QueueOK
  <1>1. ASSUME NEW b \in Buffers, Request(b) PROVE Exchange!XNext
    <2>1. holder[b] \in {"free", "gone"} /\ UNCHANGED pending
      BY <1>1 DEF Request
    <2>2. Exchange!Move({}, {b}, "producer")
      BY <1>0, <1>1 DEF Request, Exchange!Move
    <2>3. Exchange!Grant("producer")
      BY <2>1, <2>2 DEF Exchange!Grant
    <2> QED
      BY <2>3 DEF Exchange!XNext
  <1>2. ASSUME NEW b \in Buffers, Flush(b) \/ FlushUncounted(b) PROVE Exchange!XNext
    <2>1. Exchange!Submit("producer")
      BY <1>2 DEF Flush, FlushUncounted, Submit, Exchange!Submit
    <2> QED
      BY <2>1 DEF Exchange!XNext
  <1>3. ASSUME NEW b \in Buffers, FlushMarked(b) PROVE Exchange!XNext
    <2>1. Exchange!Withdraw("producer")
      BY <1>3 DEF FlushMarked, Exchange!Withdraw
    <2> QED
      BY <2>1 DEF Exchange!XNext
  <1>4. ASSUME NEW size \in Sizes, Resize(size)
        PROVE  [Exchange!XNext]_(Exchange!xvars)
    <2>1. CASE Shrink(queueSize - size)
      <3>1. Exchange!Shrink
        BY <2>1 DEF Shrink, Exchange!Shrink
      <3> QED
        BY <3>1 DEF Exchange!XNext
    <2>2. CASE UNCHANGED <<holder, pending, marked, lost>>
      BY <2>2 DEF Exchange!xvars
    <2> QED
      BY <1>4, <2>1, <2>2 DEF Resize
  <1>5. CASE CleanCache
    BY <1>5 DEF CleanCache, Exchange!XNext
  <1> QED
    BY <1>1, <1>2, <1>3, <1>4, <1>5 DEF Producer

\* The main thread takes from the exchange and gives back to it, one buffer at a time.
LEMMA MainMaps ==
  ASSUME Task \/ Frame
  PROVE  [Exchange!XNext]_(Exchange!xvars)
  <1>1. CASE RunTask \/ DropFrameProcess
    <2>1. (\E b \in Buffers : Acquire(b)) \/ UNCHANGED <<holder, pending>>
      BY <1>1 DEF RunTask, DropFrameProcess
    <2> QED
      BY <2>1, AcquireMaps DEF Exchange!xvars
  <1>2. CASE ConsumeAndUpdateBuffer
    <2>1. (\E b \in Buffers : Acquire(b)) \/ UNCHANGED <<holder, pending>>
      BY <1>2 DEF ConsumeAndUpdateBuffer, KeepBuffer, Consume
    <2> QED
      BY <2>1, AcquireMaps DEF Exchange!xvars
  <1>3. CASE TaskUpdate \/ DropRelease \/ Repaint \/ ReleaseNodePrevBuffer
    <2>1. /\ UNCHANGED pending
          /\ Release(buffer) \/ Release(got) \/ Release(preBuffer) \/ UNCHANGED holder
      BY <1>3 DEF TaskUpdate, DropRelease, Repaint, ReleaseNodePrevBuffer, composeRest
    <2> QED
      BY <2>1, ReleaseMaps DEF Exchange!xvars
  <1>4. CASE ProcessCommand \/ ConsumeNothing \/ RepaintFails
    BY <1>4 DEF ProcessCommand, ConsumeNothing, RepaintFails, queue, composeRest,
                Exchange!xvars
  <1> QED
    BY <1>1, <1>2, <1>3, <1>4 DEF Task, Frame

\* Whatever the listener calls, tasks and frames do, producer and node pass buffers as the
\* exchange allows: the node takes frames in the order they were flushed, and gives back
\* only what it holds, even when it names a buffer that a clean took away (ReleaseBuffer).
THEOREM NodeKeepsExchange == Spec => KeepsExchange
  <1>1. Init => Exchange!XInit
    BY DEF Init
  <1>2. TypeOK /\ [Next]_vars => [Exchange!XNext]_(Exchange!xvars)
    <2> SUFFICES ASSUME TypeOK, [Next]_vars PROVE [Exchange!XNext]_(Exchange!xvars)
      OBVIOUS
    <2>1. CASE OnBufferAvailable \/ OnVsync \/ RecvRSTransactionData \/ UNCHANGED vars
      BY <2>1 DEF OnBufferAvailable, Look, IncreaseAvailableBuffer, PostTask, AskForVSync,
                  OnVsync, RecvRSTransactionData, callRest, queue, vars, Exchange!xvars
    <2> QED
      BY <2>1, ProducerMaps, MainMaps DEF Next
  <1> QED
    BY <1>1, <1>2, TypeCorrect, PTL DEF Spec, KeepsExchange, Exchange!XSpec
=============================================================================
