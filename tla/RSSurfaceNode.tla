--------------------------- MODULE RSSurfaceNode ---------------------------
(***************************************************************************)
(* The render service as the consumer of one window's buffer queue:        *)
(* RSRenderServiceListener on the threads that flush, and on the main      *)
(* thread the node's RSSurfaceHandler, RsRenderServiceUtil, the hardware   *)
(* processor and the release of buffers by the HDI layer.                  *)
(*                                                                         *)
(* The queue is the atomic exchange that BufferQueueClients implements,    *)
(* and a vsync follows every request, as VSyncDistributor has it.  Calls   *)
(* of OnBufferAvailable are counted by the step they are in: they have     *)
(* nothing of their own but their place.  A step of the main thread ends   *)
(* where another thread could tell the difference.  The display of the     *)
(* node is on and not secured, and composes in hardware.                   *)
(***************************************************************************)
EXTENDS Integers, Sequences, FiniteSets

CONSTANTS
    Buffers,        \* bound: buffers that may exist at a time
    NoBuffer,       \* nullptr
    Sizes,          \* sizes the producer gives the queue
    MaxFrames,      \* bound: frames counted or in a listener call
    MaxUncounted,   \* bound: flushes whose listener call was left out
    MaxLoops        \* bound: main loops posted and not yet run

ASSUME NodeAssumption ==
    /\ NoBuffer \notin Buffers
    /\ Sizes \subseteq Nat \ {0}
    /\ MaxFrames \in Nat /\ MaxUncounted \in Nat /\ MaxLoops \in Nat \ {0}

VARIABLES
    holder,         \* "producer", "node", "free", "queued" or "gone"
    pending,        \* the queued buffers, oldest first
    queueSize,      \* queueSize_
    marked,         \* isDeleting: held buffers that a smaller queue has no room for
    listening, counting, posting, asking,
                    \* calls of OnBufferAvailable: not yet looked at the node, about
                    \* to count, about to post a task, about to request a vsync
    available,      \* bufferAvailableCount_
    buffer,         \* buffer_
    preBuffer,      \* preBuffer_
    shown,          \* on the tree and visible
    commands,       \* cacheCommandQueue_ has some that show or hide the node
    tasks,          \* posted tasks that acquire a buffer
    wanted,         \* a vsync was requested and has not come
    loops,          \* main loops posted
    main,           \* where the main thread is in a frame or a task
    got,            \* the buffer it has acquired there
    leaked,         \* buffers whose release a failed Repaint left out
    uncounted,      \* flushes whose listener call was left out
    lost            \* the queue has dropped frames the node knows of

queue   == <<holder, pending, queueSize, marked>>
calls   == <<listening, counting, posting, asking>>
handler == <<available, buffer, preBuffer>>
history == <<leaked, uncounted, lost>>
vars    == <<queue, calls, handler, shown, commands, tasks, wanted, loops, main,
             got, history>>

Exchange == INSTANCE BufferExchange WITH Clients <- {"producer", "node"}

Init ==
    /\ Exchange!XInit
    /\ queueSize \in Sizes /\ marked = {}
    /\ listening = 0 /\ counting = 0 /\ posting = 0 /\ asking = 0
    /\ available = 0 /\ buffer = NoBuffer /\ preBuffer = NoBuffer
    /\ shown = FALSE /\ commands = FALSE
    /\ tasks = 0 /\ wanted = FALSE /\ loops = 0 /\ main = "idle" /\ got = NoBuffer
    /\ leaked = {} /\ uncounted = 0 /\ lost = FALSE

RequestNextVSync == wanted' = TRUE

Frames == available + tasks + listening + counting + posting

-----------------------------------------------------------------------------
(* The producer, through the exchange.                                     *)

producerRest == <<handler, shown, commands, tasks, wanted, loops, main, got>>

\* A new buffer is none that the node still points to.
Request(b) ==
    /\ \/ holder[b] = "free"
       \/ /\ holder[b] = "gone" /\ b \notin {buffer, preBuffer, got}
          /\ Cardinality({s \in Buffers : holder[s] # "gone"}) < queueSize
    /\ holder' = [holder EXCEPT ![b] = "producer"]
    /\ UNCHANGED <<pending, queueSize, marked, calls, producerRest, history>>

Submit(b) ==
    /\ holder[b] = "producer" /\ b \notin marked
    /\ holder' = [holder EXCEPT ![b] = "queued"]
    /\ pending' = Append(pending, b)
    /\ UNCHANGED <<queueSize, marked, producerRest, leaked, lost>>

\* The listener is called for a frame that FlushBuffer has dealt with.
CallListener ==
    /\ Frames + asking < MaxFrames
    /\ listening' = listening + 1
    /\ UNCHANGED <<counting, posting, asking>>

Flush(b) ==
    /\ Submit(b)
    /\ CallListener
    /\ UNCHANGED uncounted

\* FlushCache fails: the frame is queued, and FlushBuffer returns.
FlushUncounted(b) ==
    /\ Submit(b)
    /\ uncounted < MaxUncounted /\ uncounted' = uncounted + 1
    /\ UNCHANGED calls

\* A marked buffer is deleted and not queued, and the listener called all the same.
FlushMarked(b) ==
    /\ holder[b] = "producer" /\ b \in marked
    /\ holder' = [holder EXCEPT ![b] = "gone"]
    /\ marked' = marked \ {b}
    /\ CallListener
    /\ lost' = TRUE
    /\ UNCHANGED <<pending, queueSize, producerRest, leaked, uncounted>>

Held == {b \in Buffers : holder[b] \in {"producer", "node"}}

\* SetQueueSize: a smaller queue drops free buffers, then the oldest frames, and
\* then marks held buffers, as many as it is smaller.
Shrink(n) ==
    \E F \in SUBSET Exchange!Free, k \in 0..Len(pending), M \in SUBSET Held :
        /\ Cardinality(F) + k + Cardinality(M) <= n
        /\ k > 0 => F = Exchange!Free
        /\ M # {} => k = Len(pending) /\ F = Exchange!Free
        /\ Cardinality(F) + k + Cardinality(M) < n =>
               F = Exchange!Free /\ k = Len(pending) /\ M = Held
        /\ Exchange!Move(F \cup {pending[i] : i \in 1..k}, {}, "gone")
        /\ pending' = SubSeq(pending, k + 1, Len(pending))
        /\ marked' = marked \cup M
        /\ lost' = (lost \/ k > 0)

Resize(size) ==
    /\ queueSize' = size
    /\ \/ size < queueSize /\ Shrink(queueSize - size)
       \/ size > queueSize /\ UNCHANGED <<holder, pending, marked, lost>>
    /\ UNCHANGED <<calls, producerRest, leaked, uncounted>>

CleanCache ==
    /\ Exchange!Clear
    /\ lost' = (lost \/ pending # << >>)
    /\ leaked' = {} /\ marked' = {}
    /\ UNCHANGED <<queueSize, calls, producerRest, uncounted>>

-----------------------------------------------------------------------------
(* RSRenderServiceListener::OnBufferAvailable, on the thread that flushes. *)

callRest == <<queue, buffer, preBuffer, shown, commands, loops, main, got,
              history>>

\* It looks at the node without a lock,
Look ==
    /\ listening > 0 /\ listening' = listening - 1
    /\ IF shown THEN counting' = counting + 1 /\ UNCHANGED posting
                ELSE posting' = posting + 1 /\ UNCHANGED counting
    /\ UNCHANGED <<callRest, available, asking, tasks, wanted>>

IncreaseAvailableBuffer_Racy ==
    /\ counting > 0 /\ counting' = 0
    /\ available' = available + 1
    /\ asking' = asking + counting
    /\ UNCHANGED <<callRest, listening, posting, tasks, wanted>>

\* counts the frame,
IncreaseAvailableBuffer ==
    /\ counting > 0 /\ counting' = counting - 1
    /\ available' = available + 1
    /\ asking' = asking + 1
    /\ UNCHANGED <<callRest, listening, posting, tasks, wanted>>

\* or has the main thread take it,
PostTask ==
    /\ posting > 0 /\ posting' = posting - 1
    /\ tasks' = tasks + 1
    /\ asking' = asking + 1
    /\ UNCHANGED <<callRest, listening, counting, available, wanted>>

AskForVSync_Never ==
    /\ asking > 0 /\ asking' = asking - 1
    /\ UNCHANGED <<callRest, listening, counting, posting, available, tasks, wanted>>

\* and asks for a vsync.
AskForVSync ==
    /\ asking > 0 /\ asking' = asking - 1
    /\ RequestNextVSync
    /\ UNCHANGED <<callRest, listening, counting, posting, available, tasks>>

-----------------------------------------------------------------------------
(* The main thread.                                                        *)

\* AcquireBuffer hands out the oldest frame.
Acquire(b) ==
    /\ pending # << >> /\ b = Head(pending)
    /\ holder' = [holder EXCEPT ![b] = "node"]
    /\ pending' = Tail(pending)

Free(b) ==
    /\ holder' = [holder EXCEPT ![b] = IF b \in marked THEN "gone" ELSE "free"]
    /\ marked' = marked \ {b}

Release_Unchecked(b) ==
    IF b \in Buffers THEN Free(b) ELSE UNCHANGED <<holder, marked>>

\* ReleaseBuffer fails unless the buffer is acquired; a marked one is deleted.
Release(b) ==
    IF b \in Buffers /\ holder[b] = "node" THEN Free(b) ELSE UNCHANGED <<holder, marked>>

SetBuffer(b) ==
    /\ preBuffer' = IF buffer # NoBuffer THEN buffer ELSE preBuffer
    /\ buffer' = b

mainRest == <<queueSize, calls, commands, loops>>

\* The task of a node that was not shown takes a frame,
RunTask ==
    /\ main = "idle"
    /\ tasks > 0 /\ tasks' = tasks - 1
    /\ \/ \E b \in Buffers : Acquire(b) /\ got' = b /\ main' = "task"
       \/ pending = << >> /\ UNCHANGED <<holder, pending, got, main>>
    /\ UNCHANGED <<mainRest, marked, handler, shown, wanted, history>>

TaskUpdate_KeepsOld ==
    /\ main = "task" /\ main' = "idle"
    /\ SetBuffer(got) /\ got' = NoBuffer
    /\ UNCHANGED <<holder, marked, mainRest, pending, available, shown, tasks, wanted, history>>

\* and gives back the one it replaces.
TaskUpdate ==
    /\ main = "task" /\ main' = "idle"
    /\ IF buffer # got THEN Release(buffer) ELSE UNCHANGED <<holder, marked>>
    /\ SetBuffer(got) /\ got' = NoBuffer
    /\ UNCHANGED <<mainRest, pending, available, shown, tasks, wanted, history>>

\* A transaction of the window manager or the application.
RecvRSTransactionData ==
    /\ commands' = TRUE
    /\ RequestNextVSync
    /\ UNCHANGED <<queue, calls, handler, shown, tasks, loops, main, got, history>>

OnVsync ==
    /\ wanted /\ wanted' = FALSE
    /\ loops < MaxLoops /\ loops' = loops + 1
    /\ UNCHANGED <<queue, calls, handler, shown, commands, tasks, main, got, history>>

\* mainLoop_ up to Render.
ProcessCommand ==
    /\ main = "idle" /\ loops > 0 /\ loops' = loops - 1
    /\ commands' = FALSE
    /\ shown' \in IF commands THEN BOOLEAN ELSE {shown}
    /\ main' = IF shown' THEN "drop" ELSE "idle"
    /\ UNCHANGED <<queue, calls, handler, tasks, wanted, got, history>>

frameRest == <<mainRest, shown, tasks>>

QueueBlocked_AnyCount == available >= 1

QueueBlocked == available >= 2 /\ queueSize = available

\* A full queue would block the producer, so its oldest frame is left out.
DropFrameProcess ==
    /\ main = "drop"
    /\ \/ /\ QueueBlocked
          /\ \E b \in Buffers : Acquire(b) /\ got' = b
          /\ main' = "dropped"
       \/ /\ ~QueueBlocked \/ pending = << >>
          /\ main' = "consume"
          /\ UNCHANGED <<holder, pending, got>>
    /\ UNCHANGED <<frameRest, marked, handler, wanted, history>>

DropRelease ==
    /\ main = "dropped" /\ main' = "consume"
    /\ Release(got) /\ got' = NoBuffer
    /\ available' = available - 1
    /\ UNCHANGED <<frameRest, pending, buffer, preBuffer, wanted, history>>

Consume_Uncounted(b) ==
    /\ Acquire(b)
    /\ available' = available - 1
    /\ SetBuffer(b)

\* ConsumeAndUpdateBuffer takes the next frame,
Consume(b) ==
    /\ available > 0
    /\ Acquire(b)
    /\ available' = available - 1
    /\ SetBuffer(b)

NoFrame == available = 0 \/ pending = << >>

\* or goes on with the buffer it has, which SetBuffer makes the previous one too,
KeepBuffer ==
    /\ NoFrame /\ buffer # NoBuffer
    /\ SetBuffer(buffer)
    /\ UNCHANGED <<holder, pending, available>>

ConsumeAndUpdateBuffer_AsksAlways ==
    /\ main = "consume" /\ main' = "compose"
    /\ KeepBuffer \/ \E b \in Buffers : Consume(b)
    /\ RequestNextVSync
    /\ UNCHANGED <<frameRest, marked, got, history>>

ConsumeAndUpdateBuffer ==
    /\ main = "consume" /\ main' = "compose"
    /\ KeepBuffer \/ \E b \in Buffers : Consume(b)
    /\ IF available' > 0 THEN RequestNextVSync ELSE UNCHANGED wanted
    /\ UNCHANGED <<frameRest, marked, got, history>>

\* or has none, and the node is not drawn.
ConsumeNothing ==
    /\ main = "consume" /\ main' = "idle"
    /\ NoFrame /\ buffer = NoBuffer
    /\ UNCHANGED <<frameRest, holder, pending, marked, handler, wanted, got, history>>

composeRest == <<frameRest, pending, handler, wanted, got, uncounted, lost>>

\* The layer is committed, and releases the buffer it had before.
Repaint ==
    /\ main = "compose" /\ main' = "idle"
    /\ IF buffer # preBuffer THEN Release(preBuffer) ELSE UNCHANGED <<holder, marked>>
    /\ UNCHANGED <<composeRest, leaked>>

\* The device fails to create the layer, to prepare the screen or to give its
\* fences: nothing is released.
RepaintFails ==
    /\ main = "compose" /\ main' = "idle"
    /\ leaked' = leaked \cup {b \in {preBuffer} \ {buffer, NoBuffer} : holder[b] = "node"}
    /\ UNCHANGED <<composeRest, holder, marked>>

\* Outside the screen, or without an output or a size, there is no layer.  If there
\* was no new frame, the previous buffer is the current one.
ReleaseNodePrevBuffer ==
    /\ main = "compose" /\ main' = "idle"
    /\ Release(preBuffer)
    /\ UNCHANGED <<composeRest, leaked>>

-----------------------------------------------------------------------------
(* The specification.                                                      *)

Producer ==
    \/ \E b \in Buffers : Request(b) \/ Flush(b) \/ FlushUncounted(b) \/ FlushMarked(b)
    \/ \E size \in Sizes : Resize(size)
    \/ CleanCache

OnBufferAvailable == Look \/ IncreaseAvailableBuffer \/ PostTask \/ AskForVSync

Task == RunTask \/ TaskUpdate

Frame ==
    \/ ProcessCommand
    \/ DropFrameProcess \/ DropRelease \/ ConsumeAndUpdateBuffer \/ ConsumeNothing
    \/ Repaint \/ RepaintFails \/ ReleaseNodePrevBuffer

Next ==
    \/ Producer \/ OnBufferAvailable \/ Task \/ OnVsync \/ Frame
    \/ RecvRSTransactionData

Spec == Init /\ [][Next]_vars

-----------------------------------------------------------------------------
(* Properties.                                                             *)

QueueOK ==
    /\ holder \in [Buffers -> {"producer", "node", "free", "queued", "gone"}]
    /\ pending \in Seq(Buffers)
    /\ queueSize \in Sizes /\ marked \subseteq Buffers

CallsOK == listening \in Nat /\ counting \in Nat /\ posting \in Nat /\ asking \in Nat

HandlerOK ==
    /\ available \in Nat
    /\ buffer \in Buffers \cup {NoBuffer} /\ preBuffer \in Buffers \cup {NoBuffer}

MainOK ==
    /\ shown \in BOOLEAN /\ commands \in BOOLEAN /\ wanted \in BOOLEAN
    /\ tasks \in Nat /\ loops \in Nat
    /\ main \in {"idle", "task", "drop", "dropped", "consume", "compose"}
    /\ got \in Buffers \cup {NoBuffer}

HistoryOK == leaked \subseteq Buffers /\ uncounted \in Nat /\ lost \in BOOLEAN

\* The variables have their types; in particular the count of available frames,
\* which two threads change, is never negative.
TypeOK == QueueOK /\ CallsOK /\ HandlerOK /\ MainOK /\ HistoryOK

\* DropFrameProcess has acquired a frame and not yet reduced the count.
InHand == IF main = "dropped" THEN 1 ELSE 0

\* bufferAvailableCount_, the posted tasks and the listener calls under way stand for
\* the queued frames, one each, although they change on different threads and under
\* no common lock.  Frames whose flush failed after queueing are in nobody's count,
\* and a queue that drops frames itself leaves the count too high, never too low.
CountMatchesQueue ==
    /\ Len(pending) + InHand <= Frames + uncounted
    /\ ~lost => Len(pending) + InHand = Frames + uncounted

\* Between frames the node holds no buffer but the one it shows, so the producer has
\* all others to draw into: whatever the node acquired it has released, except where
\* a Repaint failed.
HoldsOne ==
    LET inUse == IF main = "compose" THEN {buffer, preBuffer} ELSE {buffer, got}
    IN  {b \in Buffers : holder[b] = "node"} \subseteq inUse \cup leaked

\* DropFrameProcess leaves out a frame only when a newer one is queued, so that what
\* the producer drew last is shown; as long as the queue itself dropped nothing.
NewestKept == [][DropRelease => pending # << >> \/ lost]_vars

\* What producer and node do with the buffers is what the exchange allows.
KeepsExchange == Exchange!XSpec

-----------------------------------------------------------------------------
(* Liveness.                                                               *)

\* Flushing threads and the main thread are scheduled, and a requested vsync comes.
Fairness ==
    /\ WF_vars(OnBufferAvailable) /\ WF_vars(OnVsync) /\ WF_vars(Frame) /\ SF_vars(Task)

FairSpec == Spec /\ Fairness

\* The frames of a shown node are taken: its queue is empty again and again, or gets
\* shorter again and again, first in first out, so that no frame stays; unless frames were
\* queued without a call of the listener.
FramesConsumed ==
    \/ []<>(pending = << >> \/ ~shown \/ uncounted > 0)
    \/ []<><<Len(pending') < Len(pending)>>_vars

\* Once nothing is flushed and no transaction comes, the main thread stops asking for
\* vsyncs; unless the queue dropped frames that the node still counts.
ComesToRest ==
    \/ []<><<\E b \in Buffers : Flush(b)>>_vars
    \/ []<><<RecvRSTransactionData>>_vars
    \/ <>[]~wanted
    \/ <>lost
=============================================================================
