--------------------------- MODULE RSRenderThread ---------------------------
(***************************************************************************)
(* Animations of an application that draws itself: the UI thread with its  *)
(* RSAnimation objects and the batched commands of RSTransactionProxy, and *)
(* RSRenderThread with its command queue, its RSRenderAnimation objects,   *)
(* the list of animating nodes and the frames that vsyncs start.           *)
(*                                                                         *)
(* One window, whose root node is set, and nodes whose animations are of   *)
(* one property.  Time is counted in frames.  A frame processes all the    *)
(* transactions there are, so the queue holds their commands.  A vsync     *)
(* follows every request, as VSyncDistributor has it.                      *)
(***************************************************************************)
EXTENDS Integers, Sequences, FiniteSets

CONSTANTS
    Animations,
    Nodes,
    Root,           \* the root node of the window
    NodeOf,         \* the node an animation is started on
    Total,          \* frames an animation runs, 0 when its duration is 0; those of one
                    \* cycle when it is endless
    Endless,        \* animations whose repeatCount_ is INFINITE
    MaxInputs,      \* bound: what the application does
    MaxElapsed      \* bound: how far the running time of an endless animation is counted

ASSUME AnimationAssumption ==
    /\ IsFiniteSet(Animations)
    /\ NodeOf \in [Animations -> Nodes]
    /\ Total \in [Animations -> Nat]
    /\ Endless \subseteq {a \in Animations : Total[a] > 0}
    /\ MaxInputs \in Nat
    /\ MaxElapsed \in Nat

VARIABLES
    ui,             \* state_ of the RSAnimation
    uiReversed,     \* isReversed_
    home,           \* whose animations_ has it: its RSNode "node", the "fallback" node, "none"
    told,           \* how often its finish callback was called
    uiNodes,        \* the RSNodes that exist
    foreground,     \* isActive_ of the RSUIDirector, and so whether activeWindowCnt_ > 0
    batch,          \* implicitCommonTransactionData_
    asking,         \* RecvTransactionData has queued and is about to ask for a vsync
    messages,       \* the transactions posted to the UI task runner: finished animations
    inputs,         \* what the application has done so far
    thread,         \* the render thread: "new", "handler", "running" or "failed"
    cmds,           \* cmds_
    posted,         \* a task that requests a vsync is posted
    wanted,         \* the receiver has requested a vsync that has not come
    missed,         \* the last transaction came before handler_ was set
    frame,          \* "idle", or the part of mainFunc_ that comes next
    todo,           \* the commands that this frame has taken
    state,          \* state_ of the RSRenderAnimation; "none" before it is created, and
                    \* "gone" when its RSAnimationManager no longer has it
    elapsed,        \* runningTime_
    first,          \* firstToRunning_
    reversed,       \* direction_ is REVERSE
    animating       \* animatingNodeList_

uiVars     == <<ui, uiReversed, home, told, uiNodes, foreground, inputs>>
animVars   == <<state, elapsed, first, reversed, animating>>
threadVars == <<thread, posted, wanted, missed>>
vars == <<uiVars, batch, asking, messages, cmds, frame, todo, animVars, threadVars>>

Command(op, subject, arg) == [op |-> op, subject |-> subject, arg |-> arg]
Started == {"RUNNING", "PAUSED", "FINISHED"}

Init ==
    /\ ui = [a \in Animations |-> "INITIALIZED"]
    /\ uiReversed = [a \in Animations |-> FALSE]
    /\ home = [a \in Animations |-> "none"]
    /\ told = [a \in Animations |-> 0]
    /\ uiNodes = Nodes /\ foreground = TRUE
    /\ batch = <<>> /\ asking = FALSE /\ messages = <<>> /\ inputs = 0
    /\ thread = "new" /\ cmds = <<>> /\ posted = FALSE /\ wanted = FALSE /\ missed = FALSE
    /\ frame = "idle" /\ todo = <<>>
    /\ state = [a \in Animations |-> "none"]
    /\ elapsed = [a \in Animations |-> 0]
    /\ first = [a \in Animations |-> FALSE]
    /\ reversed = [a \in Animations |-> FALSE]
    /\ animating = {}

-----------------------------------------------------------------------------
(* The application on the UI thread. *)

Input == ~asking /\ inputs < MaxInputs /\ inputs' = inputs + 1
Send(more) == batch' = batch \o more
RenderSide == <<asking, messages, cmds, frame, todo, animVars, threadVars>>

\* The target_ of an animation is gone with its node.
HasTarget(a) == NodeOf[a] \in uiNodes
Unfinished(n) ==
    {a \in Animations : NodeOf[a] = n /\ home[a] = "node" /\ ui[a] \in {"RUNNING", "PAUSED"}}
Finished(S) == [a \in Animations |-> IF a \in S THEN "FINISHED" ELSE ui[a]]

\* AddAnimation and StartInner.  An animation without duration finishes those there are,
\* in the order of the node's map.
Start(a) ==
    /\ Input /\ HasTarget(a) /\ ui[a] = "INITIALIZED"
    /\ LET ended == IF Total[a] = 0 THEN Unfinished(NodeOf[a]) ELSE {}
       IN  /\ ui' = [Finished(ended) EXCEPT ![a] = "RUNNING"]
           /\ \E order \in [1 .. Cardinality(ended) -> ended] :
                /\ \A b \in ended : \E i \in DOMAIN order : order[i] = b
                /\ Send([i \in DOMAIN order |-> Command("finish", order[i], 0)]
                            \o <<Command("create", a, 0)>>)
    /\ home' = [home EXCEPT ![a] = "node"]
    /\ UNCHANGED <<uiReversed, told, uiNodes, foreground, RenderSide>>

Pause(a) ==
    /\ Input /\ ui[a] = "RUNNING" /\ HasTarget(a)
    /\ ui' = [ui EXCEPT ![a] = "PAUSED"]
    /\ Send(<<Command("pause", a, 0)>>)
    /\ UNCHANGED <<uiReversed, home, told, uiNodes, foreground, RenderSide>>

Resume(a) ==
    /\ Input /\ ui[a] = "PAUSED" /\ HasTarget(a)
    /\ ui' = [ui EXCEPT ![a] = "RUNNING"]
    /\ Send(<<Command("resume", a, 0)>>)
    /\ UNCHANGED <<uiReversed, home, told, uiNodes, foreground, RenderSide>>

Finish(a) ==
    /\ Input /\ ui[a] \in {"RUNNING", "PAUSED"} /\ HasTarget(a)
    /\ ui' = [ui EXCEPT ![a] = "FINISHED"]
    /\ Send(<<Command("finish", a, 0)>>)
    /\ UNCHANGED <<uiReversed, home, told, uiNodes, foreground, RenderSide>>

Reverse(a) ==
    /\ Input /\ ui[a] \in {"RUNNING", "PAUSED"} /\ HasTarget(a)
    /\ uiReversed' = [uiReversed EXCEPT ![a] = ~@]
    /\ Send(<<Command("reverse", a, IF uiReversed[a] THEN 0 ELSE 1)>>)
    /\ UNCHANGED <<ui, home, told, uiNodes, foreground, RenderSide>>

SetFraction(a, e) ==
    /\ Input /\ ui[a] = "PAUSED" /\ HasTarget(a)
    /\ Send(<<Command("fraction", a, e)>>)
    /\ UNCHANGED <<ui, uiReversed, home, told, uiNodes, foreground, RenderSide>>

\* ~RSNode moves the animations to the fallback node, ~RSBaseNode sends the command.
DestroyNode(n) ==
    /\ Input /\ n \in uiNodes
    /\ uiNodes' = uiNodes \ {n}
    /\ home' = [a \in Animations |->
                  IF home[a] = "node" /\ NodeOf[a] = n THEN "fallback" ELSE home[a]]
    /\ Send(<<Command("destroy", n, 0)>>)
    /\ UNCHANGED <<ui, uiReversed, told, foreground, RenderSide>>

\* GoForeground without the command for the root node.
SetForeground_Silent(active) ==
    /\ Input /\ foreground # active
    /\ foreground' = active
    /\ UNCHANGED <<ui, uiReversed, home, told, uiNodes, batch, RenderSide>>

\* GoForeground and GoBackground: the window is counted at once, and the root node is
\* shown or hidden by a command.  Nothing else in the repository sets the visibility of the
\* root node, so its staged value changes each time and the setter never returns early.
SetForeground(active) ==
    /\ Input /\ foreground # active
    /\ foreground' = active
    /\ Send(<<Command("visible", Root, 0)>>)
    /\ UNCHANGED <<ui, uiReversed, home, told, uiNodes, RenderSide>>

\* FlushImplicitTransaction: RecvTransactionData queues the commands ...
Flush ==
    /\ ~asking /\ batch # <<>>
    /\ cmds' = cmds \o batch
    /\ batch' = <<>>
    /\ asking' = TRUE
    /\ UNCHANGED <<uiVars, messages, frame, todo, animVars, threadVars>>

HasHandler == thread # "new"

\* ... and asks for a vsync, when the thread has its handler.
RequestNextVSync ==
    /\ asking
    /\ asking' = FALSE
    /\ posted' = (posted \/ HasHandler)
    /\ missed' = ~HasHandler
    /\ UNCHANGED <<uiVars, batch, messages, cmds, frame, todo, animVars, thread, wanted>>

\* ProcessMessages: AnimationFinish of the RSNode that a message names, if there is one.
ProcessMessages ==
    /\ ~asking /\ messages # <<>>
    /\ LET over == {a \in Head(messages) : HasTarget(a) /\ home[a] = "node"}
       IN  /\ told' = [a \in Animations |-> IF a \in over THEN told[a] + 1 ELSE told[a]]
           /\ ui' = Finished(over)
           /\ home' = [a \in Animations |-> IF a \in over THEN "none" ELSE home[a]]
    /\ messages' = Tail(messages)
    /\ UNCHANGED <<uiReversed, uiNodes, foreground, inputs, batch, asking, cmds, frame, todo,
                   animVars, threadVars>>

Application ==
    \/ \E a \in Animations : \/ Start(a) \/ Pause(a) \/ Resume(a) \/ Finish(a) \/ Reverse(a)
                             \/ \E e \in {0, Total[a]} : SetFraction(a, e)
    \/ \E n \in Nodes : DestroyNode(n)
    \/ \E active \in BOOLEAN : SetForeground(active)

-----------------------------------------------------------------------------
(* The render thread. *)

UISide == <<uiVars, batch, asking>>

\* RenderLoop sets handler_, then creates the receiver, which may fail.
RenderLoop ==
    /\ \/ thread = "new" /\ thread' = "handler"
       \/ thread = "handler" /\ thread' \in {"running", "failed"}
    /\ UNCHANGED <<UISide, messages, cmds, frame, todo, animVars, posted, wanted, missed>>

\* The posted task of RequestNextVSync.
AskReceiver ==
    /\ thread = "running" /\ frame = "idle" /\ posted
    /\ posted' = FALSE /\ wanted' = TRUE
    /\ UNCHANGED <<UISide, messages, cmds, frame, todo, animVars, thread, missed>>

\* The commands are taken before the windows are counted, and lost if none is active.
OnVsync_TakesFirst ==
    /\ thread = "running" /\ frame = "idle" /\ wanted
    /\ wanted' = FALSE
    /\ cmds' = <<>>
    /\ \/ foreground /\ todo' = cmds /\ frame' = "commands"
       \/ ~foreground /\ UNCHANGED <<todo, frame>>
    /\ UNCHANGED <<UISide, messages, animVars, thread, posted, missed>>

\* OnVsync starts mainFunc_, which takes all the commands, unless no window is active.
OnVsync ==
    /\ thread = "running" /\ frame = "idle" /\ wanted
    /\ wanted' = FALSE
    /\ \/ /\ foreground
          /\ todo' = cmds /\ cmds' = <<>> /\ frame' = "commands"
       \/ /\ ~foreground
          /\ UNCHANGED <<todo, cmds, frame>>
    /\ UNCHANGED <<UISide, messages, animVars, thread, posted, missed>>

Is(op)  == frame = "commands" /\ todo # <<>> /\ Head(todo).op = op
Subject == Head(todo).subject
Done    == /\ todo' = Tail(todo)
           /\ UNCHANGED <<UISide, messages, cmds, frame, threadVars>>

CreateAnimation ==
    /\ Is("create") /\ Done
    /\ state' = [state EXCEPT ![Subject] = "RUNNING"]
    /\ first' = [first EXCEPT ![Subject] = TRUE]
    /\ elapsed' = [elapsed EXCEPT ![Subject] = 0]
    /\ animating' = animating \cup {NodeOf[Subject]}
    /\ UNCHANGED reversed

\* AnimOp and AnimOpReg find the node, and the animation in its RSAnimationManager.
Found == state[Subject] \in Started

DoPause ==
    /\ Is("pause") /\ Done
    /\ state' = IF Found /\ state[Subject] = "RUNNING"
                  THEN [state EXCEPT ![Subject] = "PAUSED"] ELSE state
    /\ UNCHANGED <<elapsed, first, reversed, animating>>

\* Resume through AnimOp.
DoResume_Unregistered ==
    /\ Is("resume") /\ Done
    /\ state' = IF Found /\ state[Subject] = "PAUSED"
                  THEN [state EXCEPT ![Subject] = "RUNNING"] ELSE state
    /\ UNCHANGED <<elapsed, first, reversed, animating>>

\* AnimOpReg: the node is registered again.
DoResume ==
    /\ Is("resume") /\ Done
    /\ \/ /\ Found /\ state[Subject] = "PAUSED"
          /\ state' = [state EXCEPT ![Subject] = "RUNNING"]
          /\ first' = [first EXCEPT ![Subject] = TRUE]
       \/ /\ ~(Found /\ state[Subject] = "PAUSED")
          /\ UNCHANGED <<state, first>>
    /\ animating' = IF Found THEN animating \cup {NodeOf[Subject]} ELSE animating
    /\ UNCHANGED <<elapsed, reversed>>

DoFinish ==
    /\ Is("finish") /\ Done
    /\ state' = IF Found THEN [state EXCEPT ![Subject] = "FINISHED"] ELSE state
    /\ UNCHANGED <<elapsed, first, reversed, animating>>

DoReverse ==
    /\ Is("reverse") /\ Done
    /\ reversed' = IF Found /\ state[Subject] # "FINISHED"
                     THEN [reversed EXCEPT ![Subject] = Head(todo).arg = 1] ELSE reversed
    /\ UNCHANGED <<state, elapsed, first, animating>>

\* curRepeatCount_ * duration_: where the cycle started that curRepeatCount_ counts.
\* Until the next frame counts it, a fraction of 1 leaves an animation in its old cycle.
CycleStarts(a) ==
    IF a \in Endless
      THEN {c \in 0 .. elapsed[a] : c % Total[a] = 0 /\ elapsed[a] - c <= Total[a]}
      ELSE {0}
Capped(a, t) == IF a \in Endless /\ t > MaxElapsed THEN MaxElapsed ELSE t

\* UpdateRemainTimeFraction: the running time is put into the current cycle.
DoSetFraction ==
    /\ Is("fraction") /\ Done
    /\ \/ /\ Found /\ state[Subject] = "PAUSED"
          /\ \E c \in CycleStarts(Subject) :
                elapsed' = [elapsed EXCEPT ![Subject] = Capped(Subject, c + Head(todo).arg)]
       \/ /\ ~(Found /\ state[Subject] = "PAUSED")
          /\ UNCHANGED elapsed
    /\ UNCHANGED <<state, first, reversed, animating>>

OnNode(n) == {a \in Animations : NodeOf[a] = n /\ state[a] \in Started}

\* ~RSRenderNode: FallbackAnimationsToRoot would move the animations to the fallback node,
\* but no shared_ptr owns the RSContext of the thread, so the weak pointer the node was
\* given is empty, and the animations go with the node.  The list keeps a dead entry.
DoDestroy ==
    /\ Is("destroy") /\ Done
    /\ state' = [a \in Animations |-> IF a \in OnNode(Subject) THEN "gone" ELSE state[a]]
    /\ UNCHANGED <<elapsed, first, reversed, animating>>

\* RSProperties::SetVisible: nothing of what is modelled here depends on it.
DoVisible == Is("visible") /\ Done /\ UNCHANGED animVars

ProcessCommand ==
    \/ CreateAnimation \/ DoPause \/ DoResume \/ DoFinish \/ DoReverse \/ DoSetFraction
    \/ DoDestroy \/ DoVisible

CommandsDone ==
    /\ frame = "commands" /\ todo = <<>>
    /\ frame' = "animate"
    /\ UNCHANGED <<UISide, messages, cmds, todo, animVars, threadVars>>

\* The running time after a frame, which GetAnimationFraction neither wraps nor clamps: the
\* first frame takes no time, a reversed animation runs back, and below 0 in its last frame.
Played(a) ==
    IF first[a] \/ Total[a] = 0 THEN elapsed[a]
    ELSE IF reversed[a] THEN elapsed[a] - 1
    ELSE Capped(a, elapsed[a] + 1)

\* The direction is ignored.
IsFinished_ForwardOnly(a) ==
    Total[a] = 0 \/ (a \notin Endless /\ Played(a) >= Total[a])

IsFinished(a) ==
    \/ Total[a] = 0
    \/ reversed[a] /\ Played(a) <= 0
    \/ ~reversed[a] /\ a \notin Endless /\ Played(a) >= Total[a]

\* The animations on animating nodes, and those of them that Animate says are finished.
Ticking == UNION {OnNode(n) : n \in animating}
Ending == {a \in Ticking : state[a] = "FINISHED" \/ (state[a] = "RUNNING" /\ IsFinished(a))}
HasRunningAnimation(n) == \E a \in OnNode(n) \ Ending : state[a] = "RUNNING"

\* firstToRunning_ is never reset.
Animate_AlwaysFirst ==
    /\ frame = "animate"
    /\ frame' = "idle"
    /\ elapsed' = [a \in Animations |->
                     IF a \in Ticking /\ state[a] = "RUNNING" THEN Played(a) ELSE elapsed[a]]
    /\ state' = [a \in Animations |-> IF a \in Ending THEN "gone" ELSE state[a]]
    /\ animating' = {n \in animating : HasRunningAnimation(n)}
    /\ posted' = (posted \/ animating # {})
    /\ messages' = IF Ending = {} THEN messages ELSE Append(messages, Ending)
    /\ UNCHANGED <<UISide, first, cmds, todo, reversed, thread, wanted, missed>>

\* Animate of every animating node; a node without a running animation leaves the list,
\* and the next vsync is requested if there was a node.  SendCommands then posts the
\* finish messages to the UI thread.
Animate ==
    /\ frame = "animate"
    /\ frame' = "idle"
    /\ elapsed' = [a \in Animations |->
                     IF a \in Ticking /\ state[a] = "RUNNING" THEN Played(a) ELSE elapsed[a]]
    /\ first' = [a \in Animations |->
                     IF a \in Ticking /\ state[a] = "RUNNING" THEN FALSE ELSE first[a]]
    /\ state' = [a \in Animations |-> IF a \in Ending THEN "gone" ELSE state[a]]
    /\ animating' = {n \in animating : HasRunningAnimation(n)}
    /\ posted' = (posted \/ animating # {})
    /\ messages' = IF Ending = {} THEN messages ELSE Append(messages, Ending)
    /\ UNCHANGED <<UISide, cmds, todo, reversed, thread, wanted, missed>>

RenderThread ==
    RenderLoop \/ AskReceiver \/ OnVsync \/ ProcessCommand \/ CommandsDone \/ Animate

UIThread == Flush \/ RequestNextVSync \/ ProcessMessages

Next == Application \/ UIThread \/ RenderThread

Spec == Init /\ [][Next]_vars

\* The application flushes in every frame of its own, its task runner runs what is posted,
\* and the render thread goes on: its vsyncs come as they are requested.
FairSpec ==
    /\ Spec
    /\ WF_vars(Flush \/ RequestNextVSync)
    /\ WF_vars(ProcessMessages)
    /\ WF_vars(RenderThread)

-----------------------------------------------------------------------------
(* Properties. *)

CommandType ==
    UNION {[op : {"create", "pause", "resume", "finish"}, subject : Animations, arg : {0}],
           [op : {"reverse"}, subject : Animations, arg : {0, 1}],
           UNION {[op : {"fraction"}, subject : {a}, arg : {0, Total[a]}] : a \in Animations},
           [op : {"destroy"}, subject : Nodes, arg : {0}],
           [op : {"visible"}, subject : {Root}, arg : {0}]}

UIOK ==
    /\ ui \in [Animations -> {"INITIALIZED"} \cup Started]
    /\ uiReversed \in [Animations -> BOOLEAN]
    /\ home \in [Animations -> {"none", "node", "fallback"}]
    /\ told \in [Animations -> 0 .. 1]
    /\ uiNodes \subseteq Nodes
    /\ foreground \in BOOLEAN
    /\ inputs \in 0 .. MaxInputs
QueuesOK ==
    /\ batch \in Seq(CommandType)
    /\ cmds \in Seq(CommandType)
    /\ todo \in Seq(CommandType)
    /\ messages \in Seq(SUBSET Animations)
ThreadOK ==
    /\ asking \in BOOLEAN /\ posted \in BOOLEAN /\ wanted \in BOOLEAN /\ missed \in BOOLEAN
    /\ thread \in {"new", "handler", "running", "failed"}
    /\ frame \in {"idle", "commands", "animate"}
\* The running time of an animation that has not ended stays between 0 and what it runs.
InTime(a) == elapsed[a] >= 0 /\ (a \notin Endless => elapsed[a] <= Total[a])
AnimOK ==
    /\ state \in [Animations -> {"none", "gone"} \cup Started]
    /\ elapsed \in [Animations -> Int]
    /\ \A a \in Animations : state[a] # "gone" => InTime(a)
    /\ first \in [Animations -> BOOLEAN]
    /\ reversed \in [Animations -> BOOLEAN]
    /\ animating \subseteq Nodes

\* The type invariant.  No finish callback is called twice (AnimationFinish), and no
\* animation goes on beyond its time, forward or back (RSAnimationFraction::IsFinished).
TypeOK == UIOK /\ QueuesOK /\ ThreadOK /\ AnimOK

\* A running animation is on a node that is animated: no order of pause, resume and frames
\* leaves it out of animatingNodeList_ (RSRenderThread::Animate, AnimOpReg).
RunningIsAnimated ==
    \A a \in Animations : state[a] = "RUNNING" => NodeOf[a] \in animating

Work == cmds # <<>> \/ (animating # {} /\ frame = "idle")
Coming == posted \/ wanted \/ asking \/ batch # <<>>

\* Queued commands and animating nodes never wait for a vsync that nobody asks for: one is
\* requested, or a flush that asks is due.  The exceptions are the thread without handler
\* or receiver (RequestNextVSync, RenderLoop) and a window in the background, whose vsyncs
\* OnVsync uses up; when the window comes back the command for its root node asks again.
NotStranded == Work /\ foreground /\ ~missed => Coming

\* No command, message or frame is on its way.
AtRest ==
    batch = <<>> /\ cmds = <<>> /\ todo = <<>> /\ messages = <<>> /\ frame = "idle"

\* When nothing is on its way, the two sides agree: an animation that the application sees
\* running, paused or reversed is so on the render thread, one that it has not started is
\* not there, and one that has ended there was reported, unless its RSNode is gone.
AgreeAtRest ==
    AtRest => \A a \in Animations :
        \/ home[a] = "fallback"
        \/ ui[a] = "INITIALIZED" /\ state[a] = "none"
        \/ ui[a] \in {"RUNNING", "PAUSED"} /\ state[a] = ui[a] /\ reversed[a] = uiReversed[a]
        \/ ui[a] = "FINISHED" /\ (state[a] = "gone" <=> told[a] = 1)

\* What keeps an animation from ending: it is paused or endless, no vsync is served, or
\* nothing animates its node when the application finishes it.
Waits(a) ==
    \/ thread = "failed" \/ missed \/ ~foreground
    \/ state[a] = "PAUSED"
    \/ state[a] = "RUNNING" /\ a \in Endless /\ ~reversed[a]
Orphaned(a) == state[a] = "FINISHED" /\ NodeOf[a] \notin animating

\* Every started animation is finished on the UI thread in the end, through the commands,
\* the frames and the message back (AnimationFinish), when its RSNode lives on.
AllTold ==
    \A a \in Animations :
        <>[](\/ ui[a] = "INITIALIZED" \/ told[a] = 1
             \/ Waits(a) \/ Orphaned(a) \/ home[a] = "fallback")
=============================================================================
