------------------------ MODULE RSRenderThreadProofs ------------------------
(***************************************************************************)
(* Theorems about RSRenderThread, for any animations, nodes and number of  *)
(* inputs.                                                                 *)
(***************************************************************************)
EXTENDS RSRenderThread, SequenceTheorems, FiniteSetTheorems, TLAPS

-----------------------------------------------------------------------------
(* A running animation is animated. *)

\* What the argument needs of the types: the states are a function on the animations.
StateOK == state = [a \in Animations |-> state[a]]
AnimatedInv == StateOK /\ RunningIsAnimated

\* Only the render thread changes its animations.
LEMMA UILeavesAnimations ==
    Application \/ UIThread => UNCHANGED animVars
<1>1. Application => UNCHANGED animVars
  BY DEF Application, Start, Pause, Resume, Finish, Reverse, SetFraction, DestroyNode,
         SetForeground, RenderSide, animVars
<1>2. UIThread => UNCHANGED animVars
  BY DEF UIThread, Flush, RequestNextVSync, ProcessMessages, animVars
<1> QED BY <1>1, <1>2

LEMMA AnimatedStep == AnimatedInv /\ [Next]_vars => AnimatedInv'
<1> SUFFICES ASSUME AnimatedInv, [Next]_vars PROVE AnimatedInv'
  OBVIOUS
<1> USE DEF AnimatedInv, StateOK, RunningIsAnimated
<1>1. CASE UNCHANGED animVars
  BY <1>1 DEF animVars
<1>2. CASE CreateAnimation
  BY <1>2 DEF CreateAnimation
<1>3. CASE DoPause
  BY <1>3 DEF DoPause
<1>4. CASE DoResume
  BY <1>4 DEF DoResume
<1>5. CASE DoFinish
  BY <1>5 DEF DoFinish
<1>6. CASE DoReverse \/ DoSetFraction
  BY <1>6 DEF DoReverse, DoSetFraction
<1>7. CASE DoDestroy
  BY <1>7 DEF DoDestroy
<1>8. CASE Animate
  BY <1>8 DEF Animate, HasRunningAnimation, OnNode, Started
<1>9. RenderLoop \/ AskReceiver \/ OnVsync \/ CommandsDone \/ DoVisible => UNCHANGED animVars
  BY DEF RenderLoop, AskReceiver, OnVsync, CommandsDone, DoVisible, animVars
<1>10. vars' = vars => UNCHANGED animVars
  BY DEF vars
<1> QED
  BY <1>1, <1>2, <1>3, <1>4, <1>5, <1>6, <1>7, <1>8, <1>9, <1>10, UILeavesAnimations
     DEF Next, RenderThread, ProcessCommand

\* No order of pauses, resumes, destructions and frames leaves a running animation on a
\* node that RSRenderThread::Animate does not visit.
THEOREM AlwaysAnimated == Spec => []RunningIsAnimated
<1>1. Init => AnimatedInv
  BY DEF Init, AnimatedInv, StateOK, RunningIsAnimated
<1>2. AnimatedInv => RunningIsAnimated
  BY DEF AnimatedInv
<1> QED BY <1>1, <1>2, AnimatedStep, PTL DEF Spec

-----------------------------------------------------------------------------
(* Types. *)

\* An animation that a node has, or that is not started, has not been told of its finish.
Untold == \A a \in Animations : home[a] = "node" \/ ui[a] = "INITIALIZED" => told[a] = 0
TypeInv == TypeOK /\ Untold

LEMMA SeqOfFunction ==
    ASSUME NEW S, NEW n \in Nat, NEW f \in [1 .. n -> S]
    PROVE  f \in Seq(S)
BY SeqDef, Zenon

LEMMA AnimationCommands ==
    ASSUME NEW a \in Animations, NEW op \in {"create", "pause", "resume", "finish"}
    PROVE  Command(op, a, 0) \in CommandType
BY DEF Command, CommandType

LEMMA OtherCommands ==
    ASSUME NEW a \in Animations, NEW n \in Nodes
    PROVE  /\ Command("reverse", a, 0) \in CommandType
           /\ Command("reverse", a, 1) \in CommandType
           /\ Command("fraction", a, 0) \in CommandType
           /\ Command("fraction", a, Total[a]) \in CommandType
           /\ Command("destroy", n, 0) \in CommandType
BY DEF Command, CommandType

LEMMA RootCommand == Command("visible", Root, 0) \in CommandType
BY DEF Command, CommandType

\* A command that names an animation, by its operation.
LEMMA SubjectType ==
    ASSUME NEW c \in CommandType
    PROVE  /\ c.op \in {"create", "pause", "resume", "finish", "reverse", "fraction"}
                => c.subject \in Animations
           /\ c.op = "fraction" => c.arg \in {0, Total[c.subject]}
           /\ c.op = "destroy" => c.subject \in Nodes
BY DEF CommandType

\* A batch to which commands are sent stays a sequence of commands, and is not empty.
LEMMA SendType ==
    ASSUME QueuesOK, NEW more \in Seq(CommandType), Send(more)
    PROVE  batch' \in Seq(CommandType) /\ Len(batch') = Len(batch) + Len(more)
BY ConcatProperties DEF QueuesOK, Send

LEMMA SendOne ==
    ASSUME QueuesOK, NEW c \in CommandType, Send(<<c>>)
    PROVE  batch' \in Seq(CommandType) /\ batch' # <<>>
<1>1. <<c>> \in Seq(CommandType) /\ Len(<<c>>) = 1
  OBVIOUS
<1>2. batch' \in Seq(CommandType) /\ Len(batch') = Len(batch) + 1
  BY <1>1, SendType
<1>3. Len(batch) \in Nat
  BY DEF QueuesOK
<1> QED BY <1>2, <1>3, EmptySeq

\* Every input of the application keeps the types of the UI side, and puts a command into
\* the batch.
LEMMA ApplicationTypes ==
    ASSUME TypeInv, Application
    PROVE  UIOK' /\ Untold' /\ batch' \in Seq(CommandType) /\ batch' # <<>>
<1> USE AnimationAssumption DEF TypeInv, TypeOK, UIOK, Untold, Input, Started
<1>1. ASSUME NEW a \in Animations, Start(a)
      PROVE  UIOK' /\ Untold' /\ batch' \in Seq(CommandType) /\ batch' # <<>>
  <2>1. PICK ended \in SUBSET Animations :
               /\ ui' = [Finished(ended) EXCEPT ![a] = "RUNNING"]
               /\ \E order \in [1 .. Cardinality(ended) -> ended] :
                    Send([i \in DOMAIN order |-> Command("finish", order[i], 0)]
                            \o <<Command("create", a, 0)>>)
    BY <1>1 DEF Start, Unfinished
  <2>2. UIOK' /\ Untold'
    BY <1>1, <2>1 DEF Start, Finished
  <2>3. PICK order \in [1 .. Cardinality(ended) -> ended] :
               Send([i \in DOMAIN order |-> Command("finish", order[i], 0)]
                       \o <<Command("create", a, 0)>>)
    BY <2>1
  <2> DEFINE finishes == [i \in DOMAIN order |-> Command("finish", order[i], 0)]
  <2>4. finishes \in Seq(CommandType)
    <3>1. Cardinality(ended) \in Nat
      BY FS_Subset, FS_CardinalityType
    <3>2. \A i \in 1 .. Cardinality(ended) : Command("finish", order[i], 0) \in CommandType
      BY AnimationCommands
    <3>3. finishes \in [1 .. Cardinality(ended) -> CommandType]
      BY <3>2
    <3> HIDE DEF finishes
    <3> QED BY <3>1, <3>3, SeqOfFunction
  <2>5. <<Command("create", a, 0)>> \in Seq(CommandType)
    BY AnimationCommands
  <2> HIDE DEF finishes
  <2>6. /\ finishes \o <<Command("create", a, 0)>> \in Seq(CommandType)
        /\ Len(finishes \o <<Command("create", a, 0)>>) = Len(finishes) + 1
    BY <2>4, <2>5, ConcatProperties
  <2>7. Send(finishes \o <<Command("create", a, 0)>>)
    BY <2>3 DEF finishes
  <2>8. /\ batch' \in Seq(CommandType)
        /\ Len(batch') = Len(batch) + (Len(finishes) + 1)
    BY <2>6, <2>7, SendType
  <2>9. Len(batch) \in Nat /\ Len(finishes) \in Nat
    BY <2>4 DEF QueuesOK
  <2> QED BY <2>2, <2>8, <2>9, EmptySeq
<1>2. ASSUME NEW a \in Animations, Pause(a) \/ Resume(a) \/ Finish(a)
      PROVE  UIOK' /\ Untold' /\ batch' \in Seq(CommandType) /\ batch' # <<>>
  <2>1. UIOK' /\ Untold'
    BY <1>2 DEF Pause, Resume, Finish
  <2>2. \E op \in {"create", "pause", "resume", "finish"} : Send(<<Command(op, a, 0)>>)
    BY <1>2 DEF Pause, Resume, Finish
  <2> QED BY <2>1, <2>2, AnimationCommands, SendOne
<1>3. ASSUME NEW a \in Animations, Reverse(a)
      PROVE  UIOK' /\ Untold' /\ batch' \in Seq(CommandType) /\ batch' # <<>>
  <2>1. UIOK' /\ Untold'
    BY <1>3 DEF Reverse
  <2>2. Send(<<Command("reverse", a, 0)>>) \/ Send(<<Command("reverse", a, 1)>>)
    BY <1>3 DEF Reverse
  <2>3. Command("reverse", a, 0) \in CommandType /\ Command("reverse", a, 1) \in CommandType
    BY OtherCommands
  <2> QED BY <2>1, <2>2, <2>3, SendOne
<1>4. ASSUME NEW a \in Animations, NEW e \in {0, Total[a]}, SetFraction(a, e)
      PROVE  UIOK' /\ Untold' /\ batch' \in Seq(CommandType) /\ batch' # <<>>
  <2>1. UIOK' /\ Untold'
    BY <1>4 DEF SetFraction
  <2>2. Send(<<Command("fraction", a, e)>>) /\ Command("fraction", a, e) \in CommandType
    BY <1>4, OtherCommands DEF SetFraction
  <2> QED BY <2>1, <2>2, SendOne
<1>5. ASSUME NEW n \in Nodes, DestroyNode(n)
      PROVE  UIOK' /\ Untold' /\ batch' \in Seq(CommandType) /\ batch' # <<>>
  <2>1. UIOK' /\ Untold'
    BY <1>5 DEF DestroyNode
  <2>2. Send(<<Command("destroy", n, 0)>>)
    BY <1>5 DEF DestroyNode
  <2>3. Command("destroy", n, 0) \in CommandType
    BY DEF Command, CommandType
  <2> QED BY <2>1, <2>2, <2>3, SendOne
<1>6. ASSUME NEW active \in BOOLEAN, SetForeground(active)
      PROVE  UIOK' /\ Untold' /\ batch' \in Seq(CommandType) /\ batch' # <<>>
  <2>1. UIOK' /\ Untold'
    BY <1>6 DEF SetForeground
  <2> QED BY <1>6, <2>1, RootCommand, SendOne DEF SetForeground
<1> QED BY <1>1, <1>2, <1>3, <1>4, <1>5, <1>6 DEF Application

\* What the application leaves alone.
LEMMA ApplicationLeaves == Application => UNCHANGED RenderSide
BY DEF Application, Start, Pause, Resume, Finish, Reverse, SetFraction, DestroyNode,
       SetForeground, RenderSide

\* A flush and a message keep the types; the queue of commands grows by the batch.
LEMMA UIThreadTypes == ASSUME TypeInv, UIThread PROVE TypeInv'
<1> USE AnimationAssumption DEF TypeInv, TypeOK
<1>1. CASE Flush
  <2>1. cmds' \in Seq(CommandType)
    BY <1>1, ConcatProperties DEF Flush, QueuesOK
  <2>2. QueuesOK'
    BY <1>1, <2>1, EmptySeq DEF Flush, QueuesOK
  <2>3. UIOK' /\ Untold'
    BY <1>1 DEF Flush, uiVars, UIOK, Untold
  <2>4. ThreadOK' /\ AnimOK'
    BY <1>1 DEF Flush, threadVars, animVars, ThreadOK, AnimOK, InTime
  <2> QED BY <2>2, <2>3, <2>4
<1>2. CASE RequestNextVSync
  <2>1. AnimOK'
    BY <1>2 DEF RequestNextVSync, animVars, AnimOK, InTime
  <2>2. UIOK' /\ Untold' /\ QueuesOK' /\ ThreadOK'
    BY <1>2, Zenon DEF RequestNextVSync, HasHandler, uiVars, UIOK, Untold, QueuesOK, ThreadOK
  <2> QED BY <2>1, <2>2
<1>3. CASE ProcessMessages
  <2>1. PICK over \in SUBSET Animations :
          /\ \A a \in over : home[a] = "node"
          /\ told' = [a \in Animations |-> IF a \in over THEN told[a] + 1 ELSE told[a]]
          /\ ui' = Finished(over)
          /\ home' = [a \in Animations |-> IF a \in over THEN "none" ELSE home[a]]
    <3>1. Head(messages) \subseteq Animations
      BY <1>3, HeadTailProperties DEF ProcessMessages, QueuesOK
    <3> QED BY <1>3, <3>1 DEF ProcessMessages
  <2>2. UIOK' /\ Untold'
    BY <1>3, <2>1 DEF ProcessMessages, Finished, UIOK, Untold, Started
  <2>3. QueuesOK'
    BY <1>3, HeadTailProperties DEF ProcessMessages, QueuesOK
  <2>4. ThreadOK' /\ AnimOK'
    BY <1>3 DEF ProcessMessages, threadVars, animVars, ThreadOK, AnimOK, InTime
  <2> QED BY <2>2, <2>3, <2>4
<1> QED BY <1>1, <1>2, <1>3 DEF UIThread

\* A command keeps the types of the animations; only a fraction sets the running time.
LEMMA CommandTypesKept == ASSUME TypeInv, ProcessCommand PROVE TypeInv'
<1> USE AnimationAssumption DEF TypeInv, TypeOK
<1>1. /\ todo # <<>> /\ Done
      /\ Head(todo).op \in {"create", "pause", "resume", "finish", "reverse", "fraction",
                            "destroy", "visible"}
  BY DEF ProcessCommand, CreateAnimation, DoPause, DoResume, DoFinish, DoReverse,
         DoSetFraction, DoDestroy, DoVisible, Is
<1>2. Head(todo) \in CommandType /\ Tail(todo) \in Seq(CommandType)
  BY <1>1, HeadTailProperties DEF QueuesOK
<1>3. UIOK' /\ Untold' /\ ThreadOK' /\ QueuesOK'
  BY <1>1, <1>2 DEF Done, UISide, uiVars, threadVars, UIOK, Untold, ThreadOK, QueuesOK
<1>4. AnimOK'
  <2> USE DEF AnimOK, InTime, Started
  <2>1. CASE CreateAnimation
    <3>1. Subject \in Animations
      BY <1>2, <2>1, SubjectType DEF CreateAnimation, Is, Subject
    <3> QED BY <2>1, <3>1 DEF CreateAnimation
  <2>2. CASE DoPause
    BY <2>2 DEF DoPause
  <2>3. CASE DoResume
    <3>1. Subject \in Animations
      BY <1>2, <2>3, SubjectType DEF DoResume, Is, Subject
    <3> QED BY <2>3, <3>1 DEF DoResume
  <2>4. CASE DoFinish
    BY <2>4 DEF DoFinish, Found
  <2>5. CASE DoReverse
    BY <2>5 DEF DoReverse
  <2>6. CASE DoSetFraction
    <3>1. Subject \in Animations /\ Head(todo).arg \in {0, Total[Subject]}
      BY <1>2, <2>6, SubjectType DEF DoSetFraction, Is, Subject
    <3>2. state' = state /\ first' = first /\ reversed' = reversed /\ animating' = animating
      BY <2>6 DEF DoSetFraction
    <3>3. CASE elapsed' = elapsed
      BY <3>2, <3>3 DEF InTime
    <3>4. ASSUME NEW c \in CycleStarts(Subject),
                 elapsed' = [elapsed EXCEPT ![Subject] = Capped(Subject, c + Head(todo).arg)]
          PROVE  AnimOK'
      <4>1. c \in Nat /\ (Subject \notin Endless => c = 0)
        BY <3>1 DEF CycleStarts
      <4>2. Capped(Subject, c + Head(todo).arg) \in Nat
        BY <3>1, <4>1 DEF Capped
      <4>3. Subject \notin Endless => Capped(Subject, c + Head(todo).arg) <= Total[Subject]
        BY <3>1, <4>1 DEF Capped
      <4> QED BY <3>1, <3>2, <3>4, <4>2, <4>3 DEF InTime
    <3> QED BY <2>6, <3>3, <3>4 DEF DoSetFraction
  <2>7. CASE DoDestroy
    BY <2>7 DEF DoDestroy
  <2>8. CASE DoVisible
    BY <2>8 DEF DoVisible, animVars
  <2> QED BY <2>1, <2>2, <2>3, <2>4, <2>5, <2>6, <2>7, <2>8 DEF ProcessCommand
<1> QED BY <1>3, <1>4

\* A running animation that a frame does not finish stays in its time.
LEMMA PlayedInTime ==
    ASSUME AnimOK, NEW a \in Animations, state[a] = "RUNNING"
    PROVE  /\ Played(a) \in Int
           /\ \/ IsFinished(a)
              \/ Played(a) >= 0 /\ (a \notin Endless => Played(a) <= Total[a])
<1> USE AnimationAssumption
<1>1. elapsed[a] \in Int /\ Total[a] \in Nat /\ InTime(a) /\ reversed[a] \in BOOLEAN
  BY DEF AnimOK
<1>2. Played(a) \in Int
  BY <1>1 DEF Played, Capped
<1>3. ASSUME ~IsFinished(a)
      PROVE  Played(a) >= 0 /\ (a \notin Endless => Played(a) <= Total[a])
  BY <1>1, <1>2, <1>3 DEF IsFinished, Played, Capped, InTime
<1> QED BY <1>2, <1>3

LEMMA AnimateTypes == ASSUME TypeInv, Animate PROVE TypeInv'
<1> USE AnimationAssumption DEF TypeInv, TypeOK
<1>1. UIOK' /\ Untold'
  BY DEF Animate, UISide, uiVars, UIOK, Untold
<1>2. Ending \in SUBSET Animations
  BY DEF Ending, Ticking, OnNode
<1>3. messages' \in Seq(SUBSET Animations)
  BY <1>2, AppendProperties DEF Animate, QueuesOK
<1>4. QueuesOK'
  BY <1>3 DEF Animate, UISide, QueuesOK
<1>5. ThreadOK'
  <2>1. asking' \in BOOLEAN /\ posted' \in BOOLEAN /\ wanted' \in BOOLEAN /\ missed' \in BOOLEAN
    BY Zenon DEF Animate, UISide, ThreadOK
  <2> QED BY <2>1 DEF Animate, ThreadOK
<1>6. /\ elapsed' \in [Animations -> Int]
      /\ \A a \in Animations : state'[a] # "gone" => InTime(a)'
  <2>1. elapsed' \in [Animations -> Int]
    BY PlayedInTime DEF Animate, AnimOK
  <2>2. ASSUME NEW a \in Animations, state'[a] # "gone" PROVE InTime(a)'
    <3>1. a \notin Ending /\ state[a] # "gone" /\ InTime(a)
      BY <2>2 DEF Animate, AnimOK
    <3>2. CASE a \in Ticking /\ state[a] = "RUNNING"
      <4>1. ~IsFinished(a) /\ elapsed'[a] = Played(a)
        BY <3>1, <3>2 DEF Ending, Animate
      <4> QED BY <3>2, <4>1, PlayedInTime DEF InTime
    <3>3. CASE ~(a \in Ticking /\ state[a] = "RUNNING")
      BY <3>1, <3>3 DEF Animate, InTime
    <3> QED BY <3>2, <3>3
  <2> QED BY <2>1, <2>2
<1>7. AnimOK'
  BY <1>6 DEF Animate, AnimOK, InTime, Started
<1> QED BY <1>1, <1>4, <1>5, <1>7

LEMMA RenderThreadTypes == ASSUME TypeInv, RenderThread PROVE TypeInv'
<1> USE DEF TypeInv, TypeOK
<1>1. CASE RenderLoop \/ AskReceiver \/ CommandsDone
  BY <1>1 DEF RenderLoop, AskReceiver, CommandsDone, UISide, uiVars, animVars, threadVars,
              UIOK, Untold, QueuesOK, ThreadOK, AnimOK, InTime
<1>2. CASE OnVsync
  BY <1>2, EmptySeq DEF OnVsync, UISide, uiVars, animVars, UIOK, Untold, QueuesOK, ThreadOK,
                        AnimOK, InTime
<1> QED BY <1>1, <1>2, CommandTypesKept, AnimateTypes DEF RenderThread

LEMMA TypeStep == TypeInv /\ [Next]_vars => TypeInv'
<1> SUFFICES ASSUME TypeInv, [Next]_vars PROVE TypeInv'
  OBVIOUS
<1>1. CASE Application
  <2>1. UNCHANGED <<asking, messages, cmds, frame, todo, animVars, threadVars>>
    BY <1>1, ApplicationLeaves DEF RenderSide
  <2> QED BY <1>1, <2>1, ApplicationTypes
          DEF TypeInv, TypeOK, QueuesOK, ThreadOK, AnimOK, InTime, animVars, threadVars
<1>2. CASE UNCHANGED vars
  BY <1>2 DEF TypeInv, TypeOK, UIOK, Untold, QueuesOK, ThreadOK, AnimOK, InTime, vars, uiVars,
              animVars, threadVars
<1> QED BY <1>1, <1>2, UIThreadTypes, RenderThreadTypes DEF Next

LEMMA TypeInit == Init => TypeInv
<1> SUFFICES ASSUME Init PROVE TypeInv
  OBVIOUS
<1>1. UIOK /\ Untold
  BY AnimationAssumption DEF Init, UIOK, Untold
<1>2. QueuesOK
  BY EmptySeq DEF Init, QueuesOK
<1>3. ThreadOK
  BY DEF Init, ThreadOK
<1>4. AnimOK
  BY AnimationAssumption DEF Init, AnimOK, InTime
<1> QED BY <1>1, <1>2, <1>3, <1>4 DEF TypeInv, TypeOK

\* The variables have their types, and no finish callback is called twice, whatever the
\* application and the frames do (RSNode::AnimationFinish).
THEOREM TypeCorrect == Spec => []TypeOK
<1>1. TypeInv => TypeOK
  BY DEF TypeInv
<1> QED BY <1>1, TypeInit, TypeStep, PTL DEF Spec

-----------------------------------------------------------------------------
(* No work waits for a vsync that nobody asks for. *)

LEMMA StrandedStep ==
    TypeInv /\ NotStranded /\ [Next]_vars => NotStranded'
<1> SUFFICES ASSUME TypeInv, NotStranded, [Next]_vars PROVE NotStranded'
  OBVIOUS
<1> USE DEF NotStranded, Work, Coming
<1>1. CASE Application
  BY <1>1, ApplicationTypes
<1>2. CASE Flush
  BY <1>2 DEF Flush
<1>3. CASE RequestNextVSync
  BY <1>3, Zenon DEF RequestNextVSync
<1>4. CASE ProcessMessages
  BY <1>4 DEF ProcessMessages, animVars, threadVars
<1>5. CASE RenderLoop \/ CommandsDone
  BY <1>5 DEF RenderLoop, CommandsDone, UISide, uiVars, animVars, threadVars
<1>6. CASE AskReceiver
  BY <1>6 DEF AskReceiver
<1>7. CASE OnVsync
  BY <1>7 DEF OnVsync, UISide, uiVars
<1>8. CASE ProcessCommand
  <2>1. Done /\ frame = "commands"
    BY <1>8 DEF ProcessCommand, CreateAnimation, DoPause, DoResume, DoFinish, DoReverse,
                DoSetFraction, DoDestroy, DoVisible, Is
  <2> QED BY <2>1 DEF Done, UISide, uiVars, threadVars
<1>9. CASE Animate
  <2>1. animating' # {} => posted'
    BY <1>9 DEF Animate
  <2>2. posted => posted'
    BY <1>9 DEF Animate
  <2> QED BY <1>9, <2>1, <2>2 DEF Animate, UISide, uiVars
<1>10. CASE UNCHANGED vars
  BY <1>10 DEF vars, uiVars, animVars, threadVars
<1> QED BY <1>1, <1>2, <1>3, <1>4, <1>5, <1>6, <1>7, <1>8, <1>9, <1>10
        DEF Next, UIThread, RenderThread

\* Whatever the application and the thread do, commands and animating nodes never wait for
\* a vsync that nobody has asked for and no flush will ask for (RequestNextVSync, OnVsync).
THEOREM NeverStranded == Spec => []NotStranded
<1>1. Init => NotStranded
  BY DEF Init, NotStranded, Work
<1> QED BY <1>1, TypeInit, TypeStep, StrandedStep, PTL DEF Spec

-----------------------------------------------------------------------------
(* The two sides agree at rest. *)

\* The commands on their way, in the order in which they are carried out.
Pipe == todo \o (cmds \o batch)

\* What the argument follows of an animation of the render thread: its state and direction.
Views == [st : {"none"} \cup Started, rev : {0, 1}]
Sign(b) == IF b THEN 1 ELSE 0
View(a) == [st |-> state[a], rev |-> Sign(reversed[a])]

About(a, c) ==
    \/ /\ c.op \in {"create", "pause", "resume", "finish", "reverse", "fraction"}
       /\ c.subject = a
    \/ c.op = "destroy" /\ c.subject = NodeOf[a]

\* Command c takes animation a from v to w.  A create finds no animation, and a node that
\* still owns the animation on the UI side is not destroyed under it.
Does(a, c, v, w) ==
    /\ ~About(a, c) \/ c.op = "fraction" => w = v
    /\ About(a, c) /\ c.op = "create" =>
         v.st = "none" /\ w = [st |-> "RUNNING", rev |-> v.rev]
    /\ About(a, c) /\ c.op = "pause" =>
         w = [st |-> IF v.st = "RUNNING" THEN "PAUSED" ELSE v.st, rev |-> v.rev]
    /\ About(a, c) /\ c.op = "resume" =>
         w = [st |-> IF v.st = "PAUSED" THEN "RUNNING" ELSE v.st, rev |-> v.rev]
    /\ About(a, c) /\ c.op = "finish" =>
         w = [st |-> IF v.st \in Started THEN "FINISHED" ELSE v.st, rev |-> v.rev]
    /\ About(a, c) /\ c.op = "reverse" =>
         w = [st |-> v.st, rev |-> IF v.st \in {"RUNNING", "PAUSED"} THEN c.arg ELSE v.rev]
    /\ About(a, c) /\ c.op = "destroy" => v.st = "none" /\ w = v

\* The commands of s take a from v to w: there is a view after each of them.
Leads(a, s, v, w) ==
    \E h \in [0 .. Len(s) -> Views] :
        /\ h[0] = v /\ h[Len(s)] = w
        /\ \A i \in 1 .. Len(s) : Does(a, s[i], h[i - 1], h[i])

LEMMA LeadsNil ==
    ASSUME NEW a, NEW v, NEW w, Leads(a, <<>>, v, w)
    PROVE  v = w
BY DEF Leads

LEMMA LeadsHead ==
    ASSUME NEW a, NEW s \in Seq(CommandType), s # <<>>, NEW v, NEW w, Leads(a, s, v, w)
    PROVE  \E u \in Views : Does(a, Head(s), v, u) /\ Leads(a, Tail(s), u, w)
<1>1. PICK h \in [0 .. Len(s) -> Views] :
         /\ h[0] = v /\ h[Len(s)] = w
         /\ \A i \in 1 .. Len(s) : Does(a, s[i], h[i - 1], h[i])
  BY DEF Leads
<1>2. /\ Len(s) \in Nat /\ Len(s) > 0 /\ Head(s) = s[1]
      /\ Len(Tail(s)) = Len(s) - 1
      /\ \A i \in 1 .. Len(Tail(s)) : Tail(s)[i] = s[i + 1]
  BY HeadTailProperties, EmptySeq, LenProperties
<1>3. h[1] \in Views /\ Does(a, Head(s), v, h[1])
  <2>1. 1 \in 1 .. Len(s) /\ 1 - 1 = 0 /\ 1 \in 0 .. Len(s)
    BY <1>2
  <2> QED BY <1>1, <1>2, <2>1
<1> DEFINE g == [i \in 0 .. Len(Tail(s)) |-> h[i + 1]]
<1>4. g \in [0 .. Len(Tail(s)) -> Views] /\ g[0] = h[1] /\ g[Len(Tail(s))] = w
  BY <1>1, <1>2
<1>5. ASSUME NEW i \in 1 .. Len(Tail(s)) PROVE Does(a, Tail(s)[i], g[i - 1], g[i])
  <2>1. i + 1 \in 1 .. Len(s) /\ i - 1 \in 0 .. Len(Tail(s)) /\ i \in 0 .. Len(Tail(s))
    BY <1>2
  <2>2. Tail(s)[i] = s[i + 1]
    BY <1>2
  <2>3. (i + 1) - 1 = i /\ (i - 1) + 1 = i
    OBVIOUS
  <2>4. g[i - 1] = h[i] /\ g[i] = h[i + 1]
    BY <2>1, <2>3
  <2>5. Does(a, s[i + 1], h[(i + 1) - 1], h[i + 1])
    BY <1>1, <2>1
  <2> QED BY <2>2, <2>3, <2>4, <2>5
<1> HIDE DEF g
<1>6. Leads(a, Tail(s), h[1], w)
  BY <1>4, <1>5 DEF Leads
<1> QED BY <1>3, <1>6

LEMMA LeadsConcat ==
    ASSUME NEW a, NEW s \in Seq(CommandType), NEW t \in Seq(CommandType),
           NEW v, NEW u, NEW w, Leads(a, s, v, u), Leads(a, t, u, w)
    PROVE  Leads(a, s \o t, v, w)
<1>1. PICK h \in [0 .. Len(s) -> Views] :
         /\ h[0] = v /\ h[Len(s)] = u
         /\ \A i \in 1 .. Len(s) : Does(a, s[i], h[i - 1], h[i])
  BY DEF Leads
<1>2. PICK g \in [0 .. Len(t) -> Views] :
         /\ g[0] = u /\ g[Len(t)] = w
         /\ \A i \in 1 .. Len(t) : Does(a, t[i], g[i - 1], g[i])
  BY DEF Leads
<1>3. /\ Len(s) \in Nat /\ Len(t) \in Nat /\ Len(s \o t) = Len(s) + Len(t)
      /\ \A i \in 1 .. Len(s) + Len(t) : (s \o t)[i] =
            IF i <= Len(s) THEN s[i] ELSE t[i - Len(s)]
  BY ConcatProperties, LenProperties
<1> DEFINE f == [i \in 0 .. Len(s \o t) |-> IF i <= Len(s) THEN h[i] ELSE g[i - Len(s)]]
<1>4. f \in [0 .. Len(s \o t) -> Views]
  BY <1>3
<1>5. f[0] = v /\ f[Len(s \o t)] = w
  <2>1. CASE Len(t) = 0
    BY <1>1, <1>2, <1>3, <2>1
  <2>2. CASE Len(t) > 0
    BY <1>1, <1>2, <1>3, <2>2
  <2> QED BY <1>3, <2>1, <2>2
<1>6. ASSUME NEW i \in 1 .. Len(s \o t) PROVE Does(a, (s \o t)[i], f[i - 1], f[i])
  <2>1. CASE i <= Len(s)
    <3>1. i \in 1 .. Len(s) /\ (s \o t)[i] = s[i]
      BY <1>3, <2>1
    <3>2. f[i - 1] = h[i - 1] /\ f[i] = h[i]
      BY <1>3, <2>1
    <3> QED BY <1>1, <3>1, <3>2
  <2>2. CASE i > Len(s)
    <3>1. i - Len(s) \in 1 .. Len(t) /\ (s \o t)[i] = t[i - Len(s)]
      BY <1>3, <2>2
    <3>2. f[i] = g[i - Len(s)]
      BY <1>3, <2>2
    <3>3. f[i - 1] = g[(i - Len(s)) - 1]
      <4>1. CASE i = Len(s) + 1
        BY <1>1, <1>2, <1>3, <4>1
      <4>2. CASE i > Len(s) + 1
        <5>1. /\ (i - 1) - Len(s) = (i - Len(s)) - 1
              /\ i - 1 \in 0 .. Len(s \o t) /\ ~(i - 1 <= Len(s))
          BY <1>3, <4>2
        <5> QED BY <5>1
      <4>3. i = Len(s) + 1 \/ i > Len(s) + 1
        BY <1>3, <2>2
      <4> QED BY <4>1, <4>2, <4>3
    <3> QED BY <1>2, <3>1, <3>2, <3>3
  <2> QED BY <1>3, <2>1, <2>2
<1> HIDE DEF f
<1> QED BY <1>4, <1>5, <1>6 DEF Leads

LEMMA LeadsOne ==
    ASSUME NEW a, NEW c, NEW v \in Views, NEW w \in Views, Does(a, c, v, w)
    PROVE  Leads(a, <<c>>, v, w)
<1> DEFINE h == [i \in 0 .. 1 |-> IF i = 0 THEN v ELSE w]
<1>1. Len(<<c>>) = 1 /\ <<c>>[1] = c
  OBVIOUS
<1>2. h \in [0 .. 1 -> Views] /\ h[0] = v /\ h[1] = w
  OBVIOUS
<1>3. \A i \in 1 .. 1 : i = 1 /\ i - 1 = 0
  OBVIOUS
<1> HIDE DEF h
<1>4. \A i \in 1 .. 1 : Does(a, <<c>>[i], h[i - 1], h[i])
  BY <1>1, <1>2, <1>3
<1> QED BY <1>1, <1>2, <1>4 DEF Leads

\* Views follow the finishes of an animation without duration: those in its list are
\* finished after their place in it, whatever the order is.
LEMMA LeadsFinishes ==
    ASSUME NEW n \in Nat, NEW order \in [1 .. n -> Animations], NEW b \in Animations,
           NEW s, s = [i \in 1 .. n |-> Command("finish", order[i], 0)], Len(s) = n,
           NEW v \in Views, v.st \in Started \/ \A i \in 1 .. n : order[i] # b,
           NEW w, w = [st |-> IF \E i \in 1 .. n : order[i] = b THEN "FINISHED" ELSE v.st,
                       rev |-> v.rev]
    PROVE  w \in Views /\ Leads(b, s, v, w)
<1> DEFINE Past(i) == \E j \in 1 .. i : order[j] = b
           At(i) == [st |-> IF Past(i) THEN "FINISHED" ELSE v.st, rev |-> v.rev]
           h == [i \in 0 .. n |-> At(i)]
<1>1. v = [st |-> v.st, rev |-> v.rev] /\ v.st \in {"none"} \cup Started /\ v.rev \in {0, 1}
  BY DEF Views
<1>2. \A i \in 0 .. n : At(i) \in Views
  BY <1>1 DEF Views, Started
<1>3. ~Past(0)
  OBVIOUS
<1>4. At(0) = v /\ At(n) = w
  BY <1>1, <1>3
<1>5. ASSUME NEW i \in 1 .. n PROVE Does(b, s[i], At(i - 1), At(i))
  <2>1. s[i] = Command("finish", order[i], 0)
    OBVIOUS
  <2>2. Past(i) <=> Past(i - 1) \/ order[i] = b
    OBVIOUS
  <2>3. CASE order[i] = b
    <3>1. Past(i) /\ v.st \in Started
      BY <2>2, <2>3
    <3>2. At(i).st = "FINISHED" /\ At(i).rev = v.rev
      BY <3>1
    <3>3. At(i - 1).st \in Started /\ At(i - 1).rev = v.rev
      BY <3>1 DEF Started
    <3>4. At(i) = [st |-> "FINISHED", rev |-> v.rev]
      BY <3>1
    <3> HIDE DEF At
    <3> QED BY <2>1, <2>3, <3>3, <3>4 DEF Does, About, Command
  <2>4. CASE order[i] # b
    <3>1. Past(i) <=> Past(i - 1)
      BY <2>2, <2>4
    <3>2. At(i) = At(i - 1)
      BY <3>1
    <3>3. ~About(b, s[i])
      BY <2>1, <2>4 DEF About, Command
    <3>4. s[i].op = "finish"
      BY <2>1 DEF Command
    <3> HIDE DEF At
    <3> QED BY <3>2, <3>3, <3>4 DEF Does
  <2> QED BY <2>3, <2>4
<1> HIDE DEF At
<1>6. h \in [0 .. n -> Views] /\ h[0] = v /\ h[n] = w
  BY <1>2, <1>4
<1>7. \A i \in 1 .. n : Does(b, s[i], h[i - 1], h[i])
  <2> SUFFICES ASSUME NEW i \in 1 .. n PROVE Does(b, s[i], h[i - 1], h[i])
    OBVIOUS
  <2>1. h[i - 1] = At(i - 1) /\ h[i] = At(i)
    OBVIOUS
  <2> QED BY <1>5, <2>1
<1> HIDE DEF h
<1>8. w \in Views
  BY <1>6
<1> QED BY <1>6, <1>7, <1>8 DEF Leads

-----------------------------------------------------------------------------

\* What the application believes of an animation whose state and direction are w.
Matches(a, w) ==
    /\ w.st = IF ui[a] = "INITIALIZED" THEN "none" ELSE ui[a]
    /\ ui[a] # "FINISHED" => w.rev = Sign(uiReversed[a])

\* The commands on their way take each animation to what the application believes.
Joined ==
    \A a \in Animations : home[a] # "fallback" /\ state[a] # "gone" =>
        \E w \in Views : Leads(a, Pipe, View(a), w) /\ Matches(a, w)

Creates(a, s) == {i \in 1 .. Len(s) : s[i].op = "create" /\ s[i].subject = a}

\* An animation that is not started has left no trace, and one is created once.
Fresh ==
    \A a \in Animations :
        /\ ui[a] = "INITIALIZED" => home[a] = "none" /\ state[a] = "none" /\ Creates(a, Pipe) = {}
        /\ \A i \in Creates(a, Pipe) :
             state[a] = "none" /\ \A j \in Creates(a, Pipe) : i = j

\* What has ended on the render thread is told, or a message about it is on its way.
Told(a) == told[a] = 1 \/ \E i \in 1 .. Len(messages) : a \in messages[i]
Reported ==
    \A a \in Animations :
        /\ home[a] = "node" => NodeOf[a] \in uiNodes
        /\ home[a] = "none" => ui[a] = "INITIALIZED" \/ told[a] = 1
        /\ told[a] = 1 => ui[a] = "FINISHED"
        /\ Told(a) => state[a] = "gone"
        /\ state[a] = "gone" /\ home[a] # "fallback" => Told(a)

Between == frame # "commands" => todo = <<>>

AgreeInv == TypeInv /\ Joined /\ Fresh /\ Reported /\ Between

LEMMA PipeType ==
    ASSUME QueuesOK
    PROVE  Pipe \in Seq(CommandType) /\ cmds \o batch \in Seq(CommandType)
BY ConcatProperties DEF QueuesOK, Pipe

LEMMA CommandsAssociate ==
    ASSUME NEW s \in Seq(CommandType), NEW t \in Seq(CommandType), NEW u \in Seq(CommandType)
    PROVE  (s \o t) \o u = s \o (t \o u)
BY ConcatAssociative

\* Sent commands come last.
LEMMA PipeSend ==
    ASSUME QueuesOK, NEW more \in Seq(CommandType), Send(more), UNCHANGED <<todo, cmds>>
    PROVE  Pipe' = Pipe \o more
<1>1. (cmds \o batch) \o more = cmds \o (batch \o more)
  BY CommandsAssociate, Zenon DEF QueuesOK
<1>2. (todo \o (cmds \o batch)) \o more = todo \o ((cmds \o batch) \o more)
  BY CommandsAssociate, PipeType, Zenon DEF QueuesOK
<1> QED BY <1>1, <1>2 DEF Pipe, Send

\* A flush and the start of a frame pass the commands on.
LEMMA PipeFlush == ASSUME QueuesOK, Flush PROVE Pipe' = Pipe
<1>1. (cmds \o batch) \o <<>> = cmds \o batch
  BY PipeType, ConcatEmptySeq
<1> QED BY <1>1 DEF Flush, Pipe

LEMMA PipeVsync == ASSUME QueuesOK, Between, OnVsync PROVE Pipe' = Pipe
<1>1. CASE foreground
  <2>1. todo = <<>> /\ todo' = cmds /\ cmds' = <<>> /\ batch' = batch
    BY <1>1 DEF OnVsync, Between, UISide
  <2>2. <<>> \o (cmds \o batch) = cmds \o batch /\ <<>> \o batch = batch
    BY PipeType, ConcatEmptySeq DEF QueuesOK
  <2> QED BY <2>1, <2>2 DEF Pipe
<1>2. CASE ~foreground
  BY <1>2 DEF OnVsync, Pipe, UISide
<1> QED BY <1>1, <1>2

\* The command that is carried out is the first.
LEMMA PipeTail ==
    ASSUME QueuesOK, todo # <<>>, Done
    PROVE  Pipe # <<>> /\ Head(Pipe) = Head(todo) /\ Pipe' = Tail(Pipe)
<1> DEFINE rest == cmds \o batch
<1>1. rest \in Seq(CommandType) /\ Pipe \in Seq(CommandType) /\ todo \in Seq(CommandType)
  BY PipeType DEF QueuesOK
<1>2. Pipe = todo \o rest /\ Pipe' = Tail(todo) \o rest
  BY DEF Pipe, Done, UISide
<1> HIDE DEF rest
<1>3. /\ Tail(todo) \in Seq(CommandType) /\ Len(Tail(todo)) = Len(todo) - 1
      /\ \A i \in 1 .. Len(Tail(todo)) : Tail(todo)[i] = todo[i + 1]
      /\ Len(todo) \in Nat /\ Len(todo) > 0 /\ Len(rest) \in Nat
  BY <1>1, HeadTailProperties, EmptySeq, LenProperties
<1>4. /\ Len(Pipe) = Len(todo) + Len(rest)
      /\ \A i \in 1 .. Len(todo) + Len(rest) : Pipe[i] =
            IF i <= Len(todo) THEN todo[i] ELSE rest[i - Len(todo)]
  BY <1>1, <1>2, ConcatProperties
<1>5. /\ Pipe' \in Seq(CommandType)
      /\ Len(Pipe') = Len(Tail(todo)) + Len(rest)
      /\ \A i \in 1 .. Len(Tail(todo)) + Len(rest) : Pipe'[i] =
            IF i <= Len(Tail(todo)) THEN Tail(todo)[i] ELSE rest[i - Len(Tail(todo))]
  BY <1>1, <1>2, <1>3, ConcatProperties
<1>6. Pipe # <<>> /\ Head(Pipe) = Head(todo)
  <2>1. Pipe # <<>>
    BY <1>1, <1>3, <1>4, EmptySeq
  <2> QED BY <1>1, <1>3, <1>4, <2>1
<1>7. /\ Tail(Pipe) \in Seq(CommandType) /\ Len(Tail(Pipe)) = Len(Pipe) - 1
      /\ \A i \in 1 .. Len(Tail(Pipe)) : Tail(Pipe)[i] = Pipe[i + 1]
  BY <1>1, <1>6, HeadTailProperties
<1>8. Len(Pipe') = Len(Tail(Pipe))
  BY <1>3, <1>4, <1>5, <1>7
<1>9. \A i \in 1 .. Len(Pipe') : Pipe'[i] = Tail(Pipe)[i]
  <2> SUFFICES ASSUME NEW i \in 1 .. Len(Pipe') PROVE Pipe'[i] = Tail(Pipe)[i]
    OBVIOUS
  <2>1. Tail(Pipe)[i] = Pipe[i + 1] /\ i + 1 \in 1 .. Len(todo) + Len(rest)
    BY <1>3, <1>4, <1>5, <1>7, <1>8
  <2>2. CASE i <= Len(Tail(todo))
    BY <1>3, <1>4, <1>5, <2>1, <2>2
  <2>3. CASE i > Len(Tail(todo))
    <3>1. (i + 1) - Len(todo) = i - Len(Tail(todo)) /\ ~(i + 1 <= Len(todo))
      BY <1>3, <2>3
    <3> QED BY <1>3, <1>4, <1>5, <2>1, <2>3, <3>1
  <2>4. i <= Len(Tail(todo)) \/ i > Len(Tail(todo))
    BY <1>3
  <2> QED BY <2>2, <2>3, <2>4
<1> QED BY <1>5, <1>6, <1>7, <1>8, <1>9, SeqEqual

\* Where an animation is created in a longer and in a shorter sequence.
LEMMA CreatesConcat ==
    ASSUME NEW a, NEW s \in Seq(CommandType), NEW t \in Seq(CommandType), Creates(a, t) = {}
    PROVE  Creates(a, s \o t) = Creates(a, s)
<1>1. /\ Len(s) \in Nat /\ Len(t) \in Nat /\ Len(s \o t) = Len(s) + Len(t)
      /\ \A i \in 1 .. Len(s) + Len(t) : (s \o t)[i] =
            IF i <= Len(s) THEN s[i] ELSE t[i - Len(s)]
  BY ConcatProperties, LenProperties
<1>2. ASSUME NEW i \in Creates(a, s \o t) PROVE i \in Creates(a, s)
  <2>1. i \in 1 .. Len(s) + Len(t) /\ (s \o t)[i].op = "create" /\ (s \o t)[i].subject = a
    BY <1>1, <1>2 DEF Creates
  <2>2. CASE i > Len(s)
    <3>1. i - Len(s) \in 1 .. Len(t) /\ (s \o t)[i] = t[i - Len(s)]
      BY <1>1, <2>1, <2>2
    <3>2. i - Len(s) \in Creates(a, t)
      BY <2>1, <3>1 DEF Creates
    <3> QED BY <3>2
  <2>3. CASE i <= Len(s)
    BY <1>1, <2>1, <2>3 DEF Creates
  <2> QED BY <1>1, <2>1, <2>2, <2>3
<1>3. Creates(a, s) \subseteq Creates(a, s \o t)
  BY <1>1 DEF Creates
<1> QED BY <1>2, <1>3

LEMMA CreatesOne ==
    ASSUME NEW a, NEW s \in Seq(CommandType), NEW c \in CommandType
    PROVE  Creates(a, s \o <<c>>) \subseteq
             Creates(a, s) \cup
               (IF c.op = "create" /\ c.subject = a THEN {Len(s) + 1} ELSE {})
<1>1. <<c>> \in Seq(CommandType) /\ Len(<<c>>) = 1 /\ <<c>>[1] = c
  OBVIOUS
<1>2. /\ Len(s) \in Nat /\ Len(s \o <<c>>) = Len(s) + 1
      /\ \A i \in 1 .. Len(s) + 1 : (s \o <<c>>)[i] =
            IF i <= Len(s) THEN s[i] ELSE <<c>>[i - Len(s)]
  BY <1>1, ConcatProperties, LenProperties
<1>3. \A i \in 1 .. Len(s) + 1 :
         IF i <= Len(s) THEN (s \o <<c>>)[i] = s[i] ELSE i = Len(s) + 1 /\ (s \o <<c>>)[i] = c
  BY <1>1, <1>2
<1> QED BY <1>2, <1>3 DEF Creates

LEMMA CreatesTail ==
    ASSUME NEW a, NEW s \in Seq(CommandType), s # <<>>
    PROVE  /\ \A i \in Creates(a, Tail(s)) : i + 1 \in Creates(a, s)
           /\ Head(s).op = "create" /\ Head(s).subject = a => 1 \in Creates(a, s)
           /\ 0 \notin Creates(a, Tail(s))
           /\ Creates(a, Tail(s)) \subseteq Nat
<1>1. /\ Len(s) \in Nat /\ Len(s) > 0 /\ Head(s) = s[1]
      /\ Len(Tail(s)) = Len(s) - 1
      /\ \A i \in 1 .. Len(Tail(s)) : Tail(s)[i] = s[i + 1]
  BY HeadTailProperties, EmptySeq, LenProperties
<1> QED BY <1>1 DEF Creates

\* Commands that take what the application believed to what it believes now keep the two
\* sides joined.
LEMMA SendJoins ==
    ASSUME TypeInv, Joined, NEW more \in Seq(CommandType), Send(more), UNCHANGED RenderSide,
           \A a \in Animations : home'[a] # "fallback" => home[a] # "fallback",
           \A a \in Animations : \A w \in Views :
             home'[a] # "fallback" /\ state[a] # "gone" /\ Matches(a, w) =>
               \E u \in Views : Leads(a, more, w, u) /\ Matches(a, u)'
    PROVE  Joined'
<1>1. QueuesOK /\ UNCHANGED <<todo, cmds, state, reversed>>
  BY DEF TypeInv, TypeOK, RenderSide, animVars
<1>2. Pipe' = Pipe \o more /\ Pipe \in Seq(CommandType)
  BY <1>1, PipeSend, PipeType
<1> SUFFICES ASSUME NEW a \in Animations, home'[a] # "fallback", state'[a] # "gone"
             PROVE  \E w \in Views : Leads(a, Pipe', View(a)', w) /\ Matches(a, w)'
  BY DEF Joined
<1>3. View(a)' = View(a) /\ state[a] # "gone"
  BY <1>1 DEF View
<1>4. PICK w \in Views : Leads(a, Pipe, View(a), w) /\ Matches(a, w)
  BY <1>3 DEF Joined
<1>5. PICK u \in Views : Leads(a, more, w, u) /\ Matches(a, u)'
  BY <1>3, <1>4
<1>6. Leads(a, Pipe \o more, View(a), u)
  BY <1>2, <1>4, <1>5, LeadsConcat
<1> QED BY <1>2, <1>3, <1>5, <1>6

LEMMA SendOneJoins ==
    ASSUME TypeInv, Joined, NEW c \in CommandType, Send(<<c>>), UNCHANGED RenderSide,
           \A a \in Animations : home'[a] # "fallback" => home[a] # "fallback",
           \A a \in Animations : \A w \in Views :
             home'[a] # "fallback" /\ state[a] # "gone" /\ Matches(a, w) =>
               \E u \in Views : Does(a, c, w, u) /\ Matches(a, u)'
    PROVE  Joined'
<1>1. <<c>> \in Seq(CommandType)
  OBVIOUS
<1>2. \A a \in Animations : \A w \in Views :
             home'[a] # "fallback" /\ state[a] # "gone" /\ Matches(a, w) =>
               \E u \in Views : Leads(a, <<c>>, w, u) /\ Matches(a, u)'
  BY LeadsOne
<1> QED BY <1>1, <1>2, SendJoins

\* Each input of the application joins the two sides again with the command it sends.
LEMMA InputJoins ==
    ASSUME AgreeInv,
           \/ \E a \in Animations : \/ Pause(a) \/ Resume(a) \/ Finish(a) \/ Reverse(a)
                                    \/ \E e \in {0, Total[a]} : SetFraction(a, e)
           \/ \E n \in Nodes : DestroyNode(n)
           \/ \E active \in BOOLEAN : SetForeground(active)
    PROVE  Joined'
<1> USE DEF AgreeInv
<1>1. ui \in [Animations -> {"INITIALIZED"} \cup Started]
  BY DEF TypeInv, TypeOK, UIOK
<1>2. \A w \in Views : w.rev \in {0, 1} /\ w = [st |-> w.st, rev |-> w.rev]
  BY DEF Views
<1>3. ASSUME NEW b \in Animations, Pause(b) PROVE Joined'
  <2> DEFINE c == Command("pause", b, 0)
  <2>1. ASSUME NEW a \in Animations, NEW w \in Views, Matches(a, w)
        PROVE  \E u \in Views : Does(a, c, w, u) /\ Matches(a, u)'
    <3>1. CASE a = b
      <4> DEFINE u == [st |-> "PAUSED", rev |-> w.rev]
      <4>1. u \in Views
        BY <1>2 DEF Views, Started
      <4>2. Does(a, c, w, u) /\ Matches(a, u)'
        BY <1>1, <1>3, <2>1, <3>1 DEF Pause, Does, About, Command, Matches
      <4> QED BY <4>1, <4>2
    <3>2. CASE a # b
      BY <1>1, <1>3, <2>1, <3>2 DEF Pause, Does, About, Command, Matches
    <3> QED BY <3>1, <3>2
  <2>2. c \in CommandType
    BY AnimationCommands
  <2>3. Send(<<c>>) /\ UNCHANGED <<home, RenderSide>>
    BY <1>3 DEF Pause
  <2> QED BY <2>1, <2>2, <2>3, SendOneJoins
<1>4. ASSUME NEW b \in Animations, Resume(b) PROVE Joined'
  <2> DEFINE c == Command("resume", b, 0)
  <2>1. ASSUME NEW a \in Animations, NEW w \in Views, Matches(a, w)
        PROVE  \E u \in Views : Does(a, c, w, u) /\ Matches(a, u)'
    <3>1. CASE a = b
      <4> DEFINE u == [st |-> "RUNNING", rev |-> w.rev]
      <4>1. u \in Views
        BY <1>2 DEF Views, Started
      <4>2. Does(a, c, w, u) /\ Matches(a, u)'
        BY <1>1, <1>4, <2>1, <3>1 DEF Resume, Does, About, Command, Matches
      <4> QED BY <4>1, <4>2
    <3>2. CASE a # b
      BY <1>1, <1>4, <2>1, <3>2 DEF Resume, Does, About, Command, Matches
    <3> QED BY <3>1, <3>2
  <2>2. c \in CommandType
    BY AnimationCommands
  <2>3. Send(<<c>>) /\ UNCHANGED <<home, RenderSide>>
    BY <1>4 DEF Resume
  <2> QED BY <2>1, <2>2, <2>3, SendOneJoins
<1>5. ASSUME NEW b \in Animations, Finish(b) PROVE Joined'
  <2> DEFINE c == Command("finish", b, 0)
  <2>1. ASSUME NEW a \in Animations, NEW w \in Views, Matches(a, w)
        PROVE  \E u \in Views : Does(a, c, w, u) /\ Matches(a, u)'
    <3>1. CASE a = b
      <4> DEFINE u == [st |-> "FINISHED", rev |-> w.rev]
      <4>1. u \in Views
        BY <1>2 DEF Views, Started
      <4>2. w.st \in Started
        BY <1>5, <2>1, <3>1 DEF Finish, Matches, Started
      <4>3. Does(a, c, w, u) /\ Matches(a, u)'
        BY <1>1, <1>5, <2>1, <3>1, <4>2 DEF Finish, Does, About, Command, Matches
      <4> QED BY <4>1, <4>3
    <3>2. CASE a # b
      BY <1>1, <1>5, <2>1, <3>2 DEF Finish, Does, About, Command, Matches
    <3> QED BY <3>1, <3>2
  <2>2. c \in CommandType
    BY AnimationCommands
  <2>3. Send(<<c>>) /\ UNCHANGED <<home, RenderSide>>
    BY <1>5 DEF Finish
  <2> QED BY <2>1, <2>2, <2>3, SendOneJoins
<1>6. ASSUME NEW b \in Animations, Reverse(b) PROVE Joined'
  <2>. PICK turned \in {0, 1} : turned = IF uiReversed[b] THEN 0 ELSE 1
    OBVIOUS
  <2> DEFINE c == Command("reverse", b, turned)
  <2>1. uiReversed \in [Animations -> BOOLEAN] /\ uiReversed' = [uiReversed EXCEPT ![b] = ~@]
    BY <1>6 DEF TypeInv, TypeOK, UIOK, Reverse
  <2>2. turned = Sign(uiReversed[b])'
    BY <2>1 DEF Sign
  <2>3. \A a \in Animations \ {b} : uiReversed'[a] = uiReversed[a]
    BY <2>1
  <2>4. ui' = ui /\ home' = home /\ UNCHANGED RenderSide /\ Send(<<c>>)
        /\ ui[b] \in {"RUNNING", "PAUSED"}
    BY <1>6 DEF Reverse
  <2>5. c.op = "reverse" /\ c.subject = b /\ c.arg = turned
    BY DEF Command
  <2>6. c \in CommandType
    BY OtherCommands, AnimationAssumption
  <2> HIDE DEF c
  <2>7. ASSUME NEW a \in Animations, NEW w \in Views, Matches(a, w)
        PROVE  \E u \in Views : Does(a, c, w, u) /\ Matches(a, u)'
    <3>1. CASE a = b
      <4> DEFINE u == [st |-> w.st, rev |-> turned]
      <4>1. u \in Views
        BY DEF Views
      <4>2. u.st = w.st /\ u.rev = turned
        OBVIOUS
      <4>3. w.st \in {"RUNNING", "PAUSED"}
        BY <2>4, <2>7, <3>1 DEF Matches
      <4>4. Matches(a, u)'
        BY <2>2, <2>4, <2>7, <3>1, <4>2 DEF Matches
      <4>5. Does(a, c, w, u)
        BY <2>5, <3>1, <4>3 DEF Does, About
      <4> QED BY <4>1, <4>4, <4>5
    <3>2. CASE a # b
      <4>1. Sign(uiReversed[a])' = Sign(uiReversed[a])
        BY <2>3, <3>2 DEF Sign
      <4>2. Matches(a, w)'
        BY <2>4, <2>7, <4>1 DEF Matches
      <4>3. Does(a, c, w, w)
        BY <2>5, <3>2 DEF Does, About
      <4> QED BY <4>2, <4>3
    <3> QED BY <3>1, <3>2
  <2> QED BY <2>4, <2>6, <2>7, SendOneJoins
<1>7. ASSUME NEW b \in Animations, NEW e \in {0, Total[b]}, SetFraction(b, e) PROVE Joined'
  <2> DEFINE c == Command("fraction", b, e)
  <2>1. UNCHANGED <<ui, uiReversed, home, RenderSide>> /\ Send(<<c>>)
    BY <1>7 DEF SetFraction
  <2>2. \A a \in Animations : \A w \in Views : Matches(a, w) => Does(a, c, w, w) /\ Matches(a, w)'
    BY <2>1 DEF Does, About, Command, Matches, Sign
  <2>3. c \in CommandType
    BY OtherCommands, AnimationAssumption
  <2> QED BY <2>1, <2>2, <2>3, SendOneJoins
<1>8. ASSUME NEW n \in Nodes, DestroyNode(n) PROVE Joined'
  <2> DEFINE c == Command("destroy", n, 0)
  <2>1. UNCHANGED <<ui, uiReversed, RenderSide>> /\ Send(<<c>>)
    BY <1>8 DEF DestroyNode
  <2>2. home \in [Animations -> {"none", "node", "fallback"}]
    BY DEF TypeInv, TypeOK, UIOK
  <2>3. ASSUME NEW a \in Animations, home'[a] # "fallback"
        PROVE  home[a] # "fallback" /\ (NodeOf[a] = n => home[a] = "none")
    BY <1>8, <2>2, <2>3 DEF DestroyNode
  <2>4. ASSUME NEW a \in Animations, NEW w \in Views,
               home'[a] # "fallback", state[a] # "gone", Matches(a, w)
        PROVE  Does(a, c, w, w) /\ Matches(a, w)'
    <3>1. Matches(a, w)'
      BY <2>1, <2>4 DEF Matches, Sign
    <3>2. NodeOf[a] = n => ui[a] = "INITIALIZED"
      BY <2>3, <2>4 DEF Reported, Told
    <3>3. NodeOf[a] = n => w.st = "none"
      BY <2>4, <3>2 DEF Matches
    <3>4. Does(a, c, w, w)
      BY <3>3 DEF Does, About, Command
    <3> QED BY <3>1, <3>4
  <2>5. c \in CommandType
    BY DEF Command, CommandType
  <2>6. \A a \in Animations : \A w \in Views :
             home'[a] # "fallback" /\ state[a] # "gone" /\ Matches(a, w) =>
               \E u \in Views : Does(a, c, w, u) /\ Matches(a, u)'
    BY <2>4
  <2> HIDE DEF c
  <2> QED BY <2>1, <2>3, <2>5, <2>6, SendOneJoins
<1>9. ASSUME NEW active \in BOOLEAN, SetForeground(active) PROVE Joined'
  <2> DEFINE c == Command("visible", Root, 0)
  <2>1. UNCHANGED <<ui, uiReversed, home, RenderSide>> /\ Send(<<c>>)
    BY <1>9 DEF SetForeground
  <2>2. \A a \in Animations : \A w \in Views : Matches(a, w) => Does(a, c, w, w) /\ Matches(a, w)'
    BY <2>1 DEF Does, About, Command, Matches, Sign
  <2> QED BY <2>1, <2>2, RootCommand, SendOneJoins
<1> QED BY <1>3, <1>4, <1>5, <1>6, <1>7, <1>8, <1>9

\* The commands of a start: the finishes, in any order of those that end, and the create.
LEMMA StartSends ==
    ASSUME TypeInv, NEW b \in Animations, Start(b)
    PROVE  \E n \in Nat : \E order \in [1 .. n -> Animations] : \E f \in Seq(CommandType) :
             /\ f = [i \in 1 .. n |-> Command("finish", order[i], 0)] /\ Len(f) = n
             /\ \A i \in 1 .. n : ui[order[i]] \in {"RUNNING", "PAUSED"}
             /\ ui' = [a \in Animations |->
                         IF a = b THEN "RUNNING"
                         ELSE IF \E i \in 1 .. n : order[i] = a THEN "FINISHED" ELSE ui[a]]
             /\ Send(f \o <<Command("create", b, 0)>>)
<1> DEFINE ended == IF Total[b] = 0 THEN Unfinished(NodeOf[b]) ELSE {}
           n == Cardinality(ended)
<1>1. ended \in SUBSET Animations /\ \A a \in ended : ui[a] \in {"RUNNING", "PAUSED"}
  BY DEF Unfinished
<1>2. ui \in [Animations -> {"INITIALIZED"} \cup Started]
  BY DEF TypeInv, TypeOK, UIOK
<1>3. PICK order \in [1 .. n -> ended] :
         /\ \A a \in ended : \E i \in DOMAIN order : order[i] = a
         /\ Send([i \in DOMAIN order |-> Command("finish", order[i], 0)]
                    \o <<Command("create", b, 0)>>)
  BY DEF Start
<1>4. ui' = [Finished(ended) EXCEPT ![b] = "RUNNING"]
  BY DEF Start
<1> HIDE DEF ended
<1>5. n \in Nat
  BY <1>1, AnimationAssumption, FS_Subset, FS_CardinalityType
<1> HIDE DEF n
<1> DEFINE f == [i \in 1 .. n |-> Command("finish", order[i], 0)]
<1>6. DOMAIN order = 1 .. n /\ order \in [1 .. n -> Animations]
  BY <1>1
<1>7. \A i \in 1 .. n : Command("finish", order[i], 0) \in CommandType
  BY <1>6, AnimationCommands
<1>8. f \in [1 .. n -> CommandType]
  BY <1>7
<1>9. Send(f \o <<Command("create", b, 0)>>)
  BY <1>3, <1>6
<1>10. \A i \in 1 .. n : ui[order[i]] \in {"RUNNING", "PAUSED"}
  BY <1>1, <1>3
<1>11. \A a \in Animations : a \in ended <=> \E i \in 1 .. n : order[i] = a
  BY <1>3, <1>6
<1>12. ui' = [a \in Animations |->
                IF a = b THEN "RUNNING"
                ELSE IF \E i \in 1 .. n : order[i] = a THEN "FINISHED" ELSE ui[a]]
  BY <1>2, <1>4, <1>11 DEF Finished
<1>13. f = [i \in 1 .. n |-> Command("finish", order[i], 0)]
  OBVIOUS
<1> HIDE DEF f
<1>14. f \in Seq(CommandType) /\ Len(f) = n
  BY <1>5, <1>8, SeqOfFunction
<1> QED BY <1>5, <1>6, <1>9, <1>10, <1>12, <1>13, <1>14

LEMMA StartKeeps ==
    ASSUME AgreeInv, NEW b \in Animations, Start(b)
    PROVE  Joined' /\ Fresh'
<1> USE DEF AgreeInv
<1>1. PICK n \in Nat : \E order \in [1 .. n -> Animations] : \E f \in Seq(CommandType) :
             /\ f = [i \in 1 .. n |-> Command("finish", order[i], 0)] /\ Len(f) = n
             /\ \A i \in 1 .. n : ui[order[i]] \in {"RUNNING", "PAUSED"}
             /\ ui' = [a \in Animations |->
                         IF a = b THEN "RUNNING"
                         ELSE IF \E i \in 1 .. n : order[i] = a THEN "FINISHED" ELSE ui[a]]
             /\ Send(f \o <<Command("create", b, 0)>>)
  BY StartSends
<1>2. PICK order \in [1 .. n -> Animations], f \in Seq(CommandType) :
             /\ f = [i \in 1 .. n |-> Command("finish", order[i], 0)] /\ Len(f) = n
             /\ \A i \in 1 .. n : ui[order[i]] \in {"RUNNING", "PAUSED"}
             /\ ui' = [a \in Animations |->
                         IF a = b THEN "RUNNING"
                         ELSE IF \E i \in 1 .. n : order[i] = a THEN "FINISHED" ELSE ui[a]]
             /\ Send(f \o <<Command("create", b, 0)>>)
  BY <1>1
<1> DEFINE c == Command("create", b, 0)
<1>3. c \in CommandType /\ c.op = "create" /\ c.subject = b
  BY AnimationCommands DEF Command
<1>4. /\ ui[b] = "INITIALIZED" /\ UNCHANGED <<uiReversed, RenderSide>>
      /\ home' = [home EXCEPT ![b] = "node"]
      /\ home \in [Animations -> {"none", "node", "fallback"}]
  BY DEF Start, TypeInv, TypeOK, UIOK
<1> HIDE DEF c
<1>5. <<c>> \in Seq(CommandType)
  BY <1>3
<1>6. f \o <<c>> \in Seq(CommandType) /\ Send(f \o <<c>>)
  BY <1>2, <1>5, ConcatProperties DEF c
<1>7. Joined'
  <2>1. ASSUME NEW a \in Animations, NEW w \in Views, state[a] # "gone", Matches(a, w)
        PROVE  \E u \in Views : Leads(a, f \o <<c>>, w, u) /\ Matches(a, u)'
    <3> DEFINE x == [st |-> IF \E i \in 1 .. n : order[i] = a THEN "FINISHED" ELSE w.st,
                     rev |-> w.rev]
    <3>1. (\A i \in 1 .. n : order[i] # a) \/ w.st \in Started
      BY <1>2, <2>1 DEF Matches, Started
    <3>2. x \in Views /\ Leads(a, f, w, x)
      <4>1. f = [i \in 1 .. n |-> Command("finish", order[i], 0)] /\ Len(f) = n
        BY <1>2
      <4>2. x = [st |-> IF \E i \in 1 .. n : order[i] = a THEN "FINISHED" ELSE w.st,
                 rev |-> w.rev]
        OBVIOUS
      <4> HIDE DEF x
      <4> QED BY <3>1, <4>1, <4>2, LeadsFinishes
    <3>3. x.rev = w.rev /\ x.st = IF \E i \in 1 .. n : order[i] = a THEN "FINISHED" ELSE w.st
      OBVIOUS
    <3> HIDE DEF x
    <3>4. CASE a = b
      <4> DEFINE u == [st |-> "RUNNING", rev |-> x.rev]
      <4>1. u \in Views
        BY <3>2 DEF Views, Started
      <4>2. x.st = "none" /\ w.st = "none" /\ w.rev = Sign(uiReversed[a])
        BY <1>2, <1>4, <2>1, <3>3, <3>4 DEF Matches
      <4>3. Does(a, c, x, u)
        BY <1>3, <3>4, <4>2 DEF Does, About
      <4>4. Matches(a, u)'
        BY <1>2, <1>4, <3>3, <3>4, <4>2 DEF Matches, Sign
      <4> HIDE DEF u
      <4>5. Leads(a, <<c>>, x, u)
        BY <3>2, <4>1, <4>3, LeadsOne
      <4>6. Leads(a, f \o <<c>>, w, u)
        BY <1>5, <3>2, <4>5, LeadsConcat
      <4> QED BY <4>1, <4>4, <4>6
    <3>5. CASE a # b
      <4>1. Does(a, c, x, x)
        BY <1>3, <3>5 DEF Does, About
      <4>2. Matches(a, x)'
        <5>1. CASE \E i \in 1 .. n : order[i] = a
          BY <1>2, <1>4, <2>1, <3>3, <3>5, <5>1 DEF Matches, Sign
        <5>2. CASE ~ \E i \in 1 .. n : order[i] = a
          BY <1>2, <1>4, <2>1, <3>3, <3>5, <5>2 DEF Matches, Sign
        <5> QED BY <5>1, <5>2
      <4>3. Leads(a, f \o <<c>>, w, x)
        BY <1>5, <3>2, <4>1, LeadsOne, LeadsConcat
      <4> QED BY <3>2, <4>2, <4>3
    <3> QED BY <3>4, <3>5
  <2>2. \A a \in Animations : home'[a] # "fallback" => home[a] # "fallback"
    BY <1>4 DEF Fresh
  <2> QED BY <1>4, <1>6, <2>1, <2>2, SendJoins
<1>8. Fresh'
  <2>1. QueuesOK /\ UNCHANGED <<todo, cmds, state>> /\ Pipe \in Seq(CommandType)
    BY <1>4, PipeType DEF TypeInv, TypeOK, RenderSide, animVars
  <2>2. Pipe' = Pipe \o (f \o <<c>>)
    BY <1>6, <2>1, PipeSend
  <2>3. (Pipe \o f) \o <<c>> = Pipe \o (f \o <<c>>)
    BY <1>5, <2>1, CommandsAssociate
  <2>4. Pipe' = (Pipe \o f) \o <<c>> /\ Pipe \o f \in Seq(CommandType)
    BY <2>1, <2>2, <2>3, ConcatProperties
  <2>5. \A a \in Animations : Creates(a, f) = {}
    BY <1>2 DEF Creates, Command
  <2>6. \A a \in Animations : Creates(a, Pipe \o f) = Creates(a, Pipe)
    BY <2>1, <2>5, CreatesConcat
  <2>7. \A a \in Animations : Creates(a, Pipe') \subseteq
             Creates(a, Pipe) \cup (IF a = b THEN {Len(Pipe \o f) + 1} ELSE {})
    BY <1>3, <2>4, <2>6, CreatesOne
  <2> SUFFICES ASSUME NEW a \in Animations
               PROVE  /\ ui'[a] = "INITIALIZED" =>
                           home'[a] = "none" /\ state'[a] = "none" /\ Creates(a, Pipe') = {}
                      /\ \A i \in Creates(a, Pipe') :
                            state'[a] = "none" /\ \A j \in Creates(a, Pipe') : i = j
    BY DEF Fresh
  <2>8. CASE a = b
    <3>1. Creates(a, Pipe) = {} /\ state'[a] = "none"
      BY <1>4, <2>1, <2>8 DEF Fresh
    <3> QED BY <1>2, <2>7, <2>8, <3>1
  <2>9. CASE a # b
    <3>1. Creates(a, Pipe') \subseteq Creates(a, Pipe) /\ state' = state /\ home'[a] = home[a]
      BY <1>4, <2>1, <2>7, <2>9
    <3>2. ui'[a] = "INITIALIZED" => ui[a] = "INITIALIZED"
      BY <1>2, <2>9
    <3> QED BY <3>1, <3>2 DEF Fresh
  <2> QED BY <2>8, <2>9
<1> QED BY <1>7, <1>8

\* The other inputs send one command, which creates nothing, and start nothing.
LEMMA InputFresh ==
    ASSUME AgreeInv,
           \/ \E a \in Animations : \/ Pause(a) \/ Resume(a) \/ Finish(a) \/ Reverse(a)
                                    \/ \E e \in {0, Total[a]} : SetFraction(a, e)
           \/ \E n \in Nodes : DestroyNode(n)
           \/ \E active \in BOOLEAN : SetForeground(active)
    PROVE  Fresh'
<1> USE DEF AgreeInv
<1>1. /\ ui \in [Animations -> {"INITIALIZED"} \cup Started]
      /\ home \in [Animations -> {"none", "node", "fallback"}]
      /\ QueuesOK
  BY DEF TypeInv, TypeOK, UIOK
<1>2. \E c \in CommandType : c.op # "create" /\ Send(<<c>>)
  <2> USE DEF Command
  <2>1. ASSUME NEW a \in Animations, Pause(a) \/ Resume(a) \/ Finish(a)
        PROVE  \E c \in CommandType : c.op # "create" /\ Send(<<c>>)
    <3>1. PICK op \in {"pause", "resume", "finish"} : Send(<<Command(op, a, 0)>>)
      BY <2>1 DEF Pause, Resume, Finish
    <3>2. Command(op, a, 0) \in CommandType /\ Command(op, a, 0).op # "create"
      BY AnimationCommands
    <3> QED BY <3>1, <3>2
  <2>2. ASSUME NEW a \in Animations, Reverse(a)
        PROVE  \E c \in CommandType : c.op # "create" /\ Send(<<c>>)
    <3>1. PICK e \in {0, 1} : Send(<<Command("reverse", a, e)>>)
      BY <2>2 DEF Reverse
    <3>2. Command("reverse", a, e) \in CommandType /\ Command("reverse", a, e).op # "create"
      BY OtherCommands, AnimationAssumption
    <3> QED BY <3>1, <3>2
  <2>3. ASSUME NEW a \in Animations, NEW e \in {0, Total[a]}, SetFraction(a, e)
        PROVE  \E c \in CommandType : c.op # "create" /\ Send(<<c>>)
    <3>1. Command("fraction", a, e) \in CommandType /\ Command("fraction", a, e).op # "create"
      BY OtherCommands, AnimationAssumption
    <3> QED BY <2>3, <3>1 DEF SetFraction
  <2>4. ASSUME NEW n \in Nodes, DestroyNode(n)
        PROVE  \E c \in CommandType : c.op # "create" /\ Send(<<c>>)
    <3>1. Command("destroy", n, 0) \in CommandType /\ Command("destroy", n, 0).op # "create"
      BY DEF CommandType
    <3> QED BY <2>4, <3>1 DEF DestroyNode
  <2>5. ASSUME NEW active \in BOOLEAN, SetForeground(active)
        PROVE  \E c \in CommandType : c.op # "create" /\ Send(<<c>>)
    <3>1. Command("visible", Root, 0).op # "create"
      OBVIOUS
    <3> QED BY <2>5, <3>1, RootCommand DEF SetForeground
  <2> QED BY <2>1, <2>2, <2>3, <2>4, <2>5
<1>3. PICK c \in CommandType : c.op # "create" /\ Send(<<c>>)
  BY <1>2
<1>4. UNCHANGED <<todo, cmds, state>>
  BY DEF Pause, Resume, Finish, Reverse, SetFraction, DestroyNode, SetForeground, RenderSide,
         animVars
<1>5. <<c>> \in Seq(CommandType) /\ Pipe \in Seq(CommandType)
  BY <1>1, PipeType
<1>6. Pipe' = Pipe \o <<c>>
  BY <1>1, <1>3, <1>4, <1>5, PipeSend
<1>7. \A a \in Animations : Creates(a, Pipe') \subseteq Creates(a, Pipe)
  BY <1>3, <1>5, <1>6, CreatesOne
<1>8. \A a \in Animations : /\ ui'[a] = "INITIALIZED" => ui[a] = "INITIALIZED"
                            /\ home[a] = "none" => home'[a] = "none"
  BY <1>1 DEF Pause, Resume, Finish, Reverse, SetFraction, DestroyNode, SetForeground
<1> QED BY <1>4, <1>7, <1>8 DEF Fresh

LEMMA ApplicationReports == ASSUME AgreeInv, Application PROVE Reported' /\ Between'
<1> USE DEF AgreeInv
<1>1. /\ ui \in [Animations -> {"INITIALIZED"} \cup Started]
      /\ home \in [Animations -> {"none", "node", "fallback"}]
  BY DEF TypeInv, TypeOK, UIOK
<1>2. UNCHANGED <<messages, frame, todo, state>>
  BY ApplicationLeaves DEF RenderSide, animVars
<1>3. UNCHANGED told
  BY DEF Application, Start, Pause, Resume, Finish, Reverse, SetFraction, DestroyNode,
         SetForeground
<1>4. \A a \in Animations : Told(a)' <=> Told(a)
  BY <1>2, <1>3 DEF Told
<1>5. \A a \in Animations : home'[a] # "fallback" => home[a] # "fallback"
  BY <1>1 DEF Application, Start, Pause, Resume, Finish, Reverse, SetFraction, DestroyNode,
              SetForeground, Fresh
<1>6. \A a \in Animations : home'[a] = "node" => NodeOf[a] \in uiNodes'
  BY <1>1 DEF Application, Start, Pause, Resume, Finish, Reverse, SetFraction, DestroyNode,
              SetForeground, Reported, HasTarget
<1>7. \A a \in Animations : ui[a] = "FINISHED" => ui'[a] = "FINISHED"
  BY <1>1 DEF Application, Start, Pause, Resume, Finish, Reverse, SetFraction, DestroyNode,
              SetForeground, Finished, Unfinished
<1>8. \A a \in Animations : home'[a] = "none" => home[a] = "none"
  BY <1>1 DEF Application, Start, Pause, Resume, Finish, Reverse, SetFraction, DestroyNode,
              SetForeground
<1>9. \A a \in Animations : home'[a] = "none" /\ ui[a] = "INITIALIZED" => ui'[a] = "INITIALIZED"
  BY <1>1 DEF Application, Start, Pause, Resume, Finish, Reverse, SetFraction, DestroyNode,
              SetForeground, Finished, Unfinished
<1>10. Reported'
  BY <1>2, <1>3, <1>4, <1>5, <1>6, <1>7, <1>8, <1>9 DEF Reported
<1> QED BY <1>2, <1>10 DEF Between

LEMMA ApplicationAgrees == ASSUME AgreeInv, Application PROVE AgreeInv'
<1>1. Joined' /\ Fresh'
  BY StartKeeps, InputJoins, InputFresh DEF Application
<1>2. TypeInv'
  BY TypeStep DEF AgreeInv, Next
<1> QED BY <1>1, <1>2, ApplicationReports DEF AgreeInv

\* Steps that leave the animations and the order of the commands alone.
LEMMA PassingOn ==
    ASSUME Joined, Fresh, Reported, Pipe' = Pipe,
           UNCHANGED <<ui, uiReversed, home, told, uiNodes, messages, state, reversed>>
    PROVE  Joined' /\ Fresh' /\ Reported'
<1>1. \A a \in Animations : View(a)' = View(a) /\ \A w \in Views : Matches(a, w)' = Matches(a, w)
  BY DEF View, Matches, Sign
<1>2. Joined'
  BY <1>1 DEF Joined
<1>3. Fresh'
  BY DEF Fresh
<1>4. Reported'
  BY DEF Reported, Told
<1> QED BY <1>2, <1>3, <1>4

LEMMA MessagesAgree ==
    ASSUME AgreeInv, ProcessMessages
    PROVE  Joined' /\ Fresh' /\ Reported' /\ Between'
<1> USE DEF AgreeInv
<1> DEFINE over == {a \in Head(messages) : HasTarget(a) /\ home[a] = "node"}
<1>1. /\ ui \in [Animations -> {"INITIALIZED"} \cup Started]
      /\ home \in [Animations -> {"none", "node", "fallback"}]
      /\ told \in [Animations -> 0 .. 1]
      /\ messages \in Seq(SUBSET Animations) /\ messages # <<>>
  BY DEF TypeInv, TypeOK, UIOK, QueuesOK, ProcessMessages
<1>2. /\ Head(messages) = messages[1] /\ Head(messages) \subseteq Animations
      /\ messages' = Tail(messages) /\ Len(messages) \in Nat /\ Len(messages) > 0
      /\ Len(messages') = Len(messages) - 1
      /\ \A i \in 1 .. Len(messages') : messages'[i] = messages[i + 1]
  BY <1>1, HeadTailProperties, EmptySeq, LenProperties DEF ProcessMessages
<1>3. /\ told' = [a \in Animations |-> IF a \in over THEN told[a] + 1 ELSE told[a]]
      /\ ui' = Finished(over)
      /\ home' = [a \in Animations |-> IF a \in over THEN "none" ELSE home[a]]
      /\ UNCHANGED <<uiReversed, uiNodes, batch, cmds, frame, todo, state, reversed>>
  BY DEF ProcessMessages, animVars
<1>4. \A a \in over : a \in Animations /\ home[a] = "node" /\ told[a] = 0 /\ Told(a)
  BY <1>2 DEF TypeInv, Untold, Told
<1>5. \A a \in over : state[a] = "gone" /\ told'[a] = 1 /\ ui'[a] = "FINISHED"
  BY <1>3, <1>4 DEF Reported, Finished
<1>6. \A a \in Animations \ over : ui'[a] = ui[a] /\ home'[a] = home[a] /\ told'[a] = told[a]
  BY <1>3 DEF Finished
<1>7. ASSUME NEW a \in Animations
      PROVE  /\ Told(a)' => Told(a)
             /\ Told(a) /\ home[a] # "fallback" => Told(a)'
  <2>1. CASE a \in over
    BY <1>4, <1>5, <2>1 DEF Told
  <2>2. CASE a \notin over
    <3>1. Told(a)' => Told(a)
      BY <1>2, <1>6, <2>2 DEF Told
    <3>2. ASSUME NEW i \in 1 .. Len(messages), a \in messages[i], home[a] # "fallback"
          PROVE  Told(a)'
      <4>1. CASE i > 1
        <5>1. i - 1 \in 1 .. Len(messages') /\ messages'[i - 1] = messages[i]
          BY <1>2, <4>1
        <5> QED BY <3>2, <5>1 DEF Told
      <4>2. CASE i = 1
        <5>1. state[a] = "gone"
          BY <3>2 DEF Told, Reported
        <5>2. home[a] # "node"
          BY <1>2, <2>2, <3>2, <4>2 DEF HasTarget, Reported
        <5>3. ui[a] # "INITIALIZED"
          BY <5>1 DEF Fresh
        <5>4. told[a] = 1
          BY <1>1, <3>2, <5>2, <5>3 DEF Reported
        <5> QED BY <1>6, <2>2, <5>4 DEF Told
      <4> QED BY <1>2, <4>1, <4>2
    <3> QED BY <1>6, <2>2, <3>1, <3>2 DEF Told
  <2> QED BY <2>1, <2>2
<1>8. Pipe' = Pipe
  BY <1>3 DEF Pipe
<1> HIDE DEF over
<1>9. Reported'
  BY <1>3, <1>4, <1>5, <1>6, <1>7 DEF Reported
<1>10. Fresh'
  BY <1>3, <1>5, <1>6, <1>8 DEF Fresh
<1>11. Joined'
  <2> SUFFICES ASSUME NEW a \in Animations, home'[a] # "fallback", state'[a] # "gone"
               PROVE  \E w \in Views : Leads(a, Pipe', View(a)', w) /\ Matches(a, w)'
    BY DEF Joined
  <2>1. a \notin over
    BY <1>3, <1>5
  <2>2. View(a)' = View(a) /\ \A w \in Views : Matches(a, w)' = Matches(a, w)
    BY <1>3, <1>6, <2>1 DEF View, Matches, Sign
  <2> QED BY <1>3, <1>6, <1>8, <2>1, <2>2 DEF Joined
<1> QED BY <1>3, <1>9, <1>10, <1>11 DEF Between

LEMMA UIThreadAgrees == ASSUME AgreeInv, UIThread PROVE AgreeInv'
<1> USE DEF AgreeInv
<1>1. TypeInv' /\ QueuesOK
  BY TypeStep DEF Next, TypeInv, TypeOK
<1>2. CASE Flush
  BY <1>1, <1>2, PipeFlush, PassingOn DEF Flush, uiVars, animVars, Between
<1>3. CASE RequestNextVSync
  <2>1. Pipe' = Pipe /\ UNCHANGED <<frame, todo>>
    BY <1>3 DEF RequestNextVSync, Pipe
  <2> QED BY <1>1, <1>3, <2>1, PassingOn DEF RequestNextVSync, uiVars, animVars, Between
<1>4. CASE ProcessMessages
  BY <1>1, <1>4, MessagesAgree
<1> QED BY <1>2, <1>3, <1>4 DEF UIThread

\* What a command does to an animation is what Does says, and no command brings back one
\* that has ended.
LEMMA CommandEffect ==
    ASSUME AgreeInv, ProcessCommand, NEW a \in Animations
    PROVE  /\ state[a] = "gone" => state'[a] = "gone"
           /\ state[a] = "none" /\ ~(Head(todo).op = "create" /\ Subject = a) =>
                state'[a] = "none"
           /\ \A u \in Views : state[a] # "gone" /\ Does(a, Head(todo), View(a), u) =>
                state'[a] # "gone" /\ View(a)' = u
<1> USE DEF AgreeInv
<1>1. /\ QueuesOK /\ todo # <<>> /\ Done
      /\ state \in [Animations -> {"none", "gone"} \cup Started]
      /\ reversed \in [Animations -> BOOLEAN]
  BY DEF TypeInv, TypeOK, AnimOK, ProcessCommand, CreateAnimation, DoPause, DoResume, DoFinish,
         DoReverse, DoSetFraction, DoDestroy, DoVisible, Is
<1>2. Head(todo) \in CommandType
  BY <1>1, HeadTailProperties DEF QueuesOK
<1>3. CASE CreateAnimation
  <2>1. Head(todo).op = "create" /\ Subject \in Animations
    BY <1>2, <1>3, SubjectType DEF CreateAnimation, Is, Subject
  <2>2. Pipe # <<>> /\ Pipe \in Seq(CommandType) /\ Head(Pipe) = Head(todo)
    BY <1>1, PipeTail, PipeType
  <2>3. 1 \in Creates(Subject, Pipe)
    BY <2>1, <2>2, CreatesTail DEF Subject
  <2>4. state[Subject] = "none"
    BY <2>1, <2>3 DEF Fresh
  <2>5. state' = [state EXCEPT ![Subject] = "RUNNING"] /\ reversed' = reversed
    BY <1>3 DEF CreateAnimation
  <2> QED BY <1>1, <2>1, <2>4, <2>5 DEF View, Does, About, Subject, Started
<1>4. CASE DoPause
  BY <1>1, <1>4 DEF DoPause, Is, Found, View, Does, About, Subject, Started
<1>5. CASE DoResume
  BY <1>1, <1>5 DEF DoResume, Is, Found, View, Does, About, Subject, Started
<1>6. CASE DoFinish
  BY <1>1, <1>6 DEF DoFinish, Is, Found, View, Does, About, Subject, Started
<1>7. CASE DoReverse
  <2>1. Head(todo).op = "reverse" /\ state' = state /\ Head(todo).arg \in {0, 1}
    BY <1>2, <1>7 DEF DoReverse, Is, CommandType
  <2>2. CASE Subject = a /\ state[a] \in {"RUNNING", "PAUSED"}
    <3>1. reversed'[a] = (Head(todo).arg = 1)
      BY <1>1, <1>7, <2>2 DEF DoReverse, Found, Started
    <3>2. Sign(reversed'[a]) = Head(todo).arg
      BY <2>1, <3>1 DEF Sign
    <3> QED BY <2>1, <2>2, <3>2 DEF View, Does, About, Subject
  <2>3. CASE ~(Subject = a /\ state[a] \in {"RUNNING", "PAUSED"})
    <3>1. reversed'[a] = reversed[a]
      BY <1>1, <1>7, <2>3 DEF DoReverse, Found, Started
    <3>2. View(a)' = View(a)
      BY <2>1, <3>1 DEF View, Sign
    <3>3. \A u \in Views : Does(a, Head(todo), View(a), u) => u = View(a)
      BY <2>1, <2>3 DEF View, Does, About, Subject
    <3> QED BY <2>1, <3>2, <3>3
  <2> QED BY <2>2, <2>3
<1>8. CASE DoSetFraction
  BY <1>1, <1>8 DEF DoSetFraction, Is, View, Does, About, Subject
<1>9. CASE DoDestroy
  BY <1>1, <1>9 DEF DoDestroy, Is, OnNode, View, Does, About, Subject, Started
<1>10. CASE DoVisible
  BY <1>1, <1>10 DEF DoVisible, animVars, Is, View, Does, About, Subject
<1> QED BY <1>3, <1>4, <1>5, <1>6, <1>7, <1>8, <1>9, <1>10 DEF ProcessCommand

LEMMA CommandAgrees == ASSUME AgreeInv, ProcessCommand PROVE Joined' /\ Fresh' /\ Reported'
<1> USE DEF AgreeInv
<1>1. QueuesOK /\ todo # <<>> /\ Done
  BY DEF TypeInv, TypeOK, ProcessCommand, CreateAnimation, DoPause, DoResume, DoFinish,
         DoReverse, DoSetFraction, DoDestroy, DoVisible, Is
<1>2. /\ Pipe \in Seq(CommandType) /\ Pipe # <<>>
      /\ Head(Pipe) = Head(todo) /\ Pipe' = Tail(Pipe)
  BY <1>1, PipeTail, PipeType
<1>3. UNCHANGED <<ui, uiReversed, home, told, uiNodes, messages>>
  BY <1>1 DEF Done, UISide, uiVars
<1>4. \A a \in Animations : Told(a)' <=> Told(a)
  BY <1>3 DEF Told
<1>5. ASSUME NEW a \in Animations, home[a] # "fallback", state[a] # "gone"
      PROVE  /\ state'[a] # "gone"
             /\ \E w \in Views : Leads(a, Pipe', View(a)', w) /\ Matches(a, w)'
  <2>1. PICK w \in Views : Leads(a, Pipe, View(a), w) /\ Matches(a, w)
    BY <1>5 DEF Joined
  <2>2. PICK u \in Views : Does(a, Head(Pipe), View(a), u) /\ Leads(a, Tail(Pipe), u, w)
    BY <1>2, <2>1, LeadsHead
  <2>3. state'[a] # "gone" /\ View(a)' = u
    BY <1>2, <1>5, <2>2, CommandEffect
  <2>4. Matches(a, w)'
    BY <1>3, <2>1 DEF Matches, Sign
  <2> QED BY <1>2, <2>2, <2>3, <2>4
<1>6. Joined'
  <2> SUFFICES ASSUME NEW a \in Animations, home'[a] # "fallback", state'[a] # "gone"
               PROVE  \E w \in Views : Leads(a, Pipe', View(a)', w) /\ Matches(a, w)'
    BY DEF Joined
  <2> QED BY <1>3, <1>5, CommandEffect
<1>7. Reported'
  <2>1. \A a \in Animations : state[a] = "gone" => state'[a] = "gone"
    BY CommandEffect
  <2> QED BY <1>3, <1>4, <1>5, <2>1 DEF Reported
<1>8. Fresh'
  <2> SUFFICES ASSUME NEW a \in Animations
               PROVE  /\ ui'[a] = "INITIALIZED" =>
                           home'[a] = "none" /\ state'[a] = "none" /\ Creates(a, Pipe') = {}
                      /\ \A i \in Creates(a, Pipe') :
                            state'[a] = "none" /\ \A j \in Creates(a, Pipe') : i = j
    BY DEF Fresh
  <2>1. /\ \A i \in Creates(a, Pipe') : i + 1 \in Creates(a, Pipe)
        /\ Head(todo).op = "create" /\ Subject = a => 1 \in Creates(a, Pipe)
        /\ 0 \notin Creates(a, Pipe') /\ Creates(a, Pipe') \subseteq Nat
    BY <1>2, CreatesTail DEF Subject
  <2>2. \A i \in Creates(a, Pipe') :
           state[a] = "none" /\ \A j \in Creates(a, Pipe') : i + 1 = j + 1
    BY <2>1 DEF Fresh
  <2>3. ASSUME NEW i \in Creates(a, Pipe')
        PROVE  state'[a] = "none" /\ \A j \in Creates(a, Pipe') : i = j
    <3>1. ~(Head(todo).op = "create" /\ Subject = a)
      <4>1. i \in Nat /\ i # 0
        BY <2>1
      <4>2. 1 \in Creates(a, Pipe) => i + 1 = 1
        BY <2>1 DEF Fresh
      <4> QED BY <2>1, <4>1, <4>2
    <3>2. state'[a] = "none"
      BY <2>2, <3>1, CommandEffect
    <3> QED BY <2>1, <2>2, <3>2
  <2>4. ASSUME ui'[a] = "INITIALIZED"
        PROVE  home'[a] = "none" /\ state'[a] = "none" /\ Creates(a, Pipe') = {}
    <3>1. home[a] = "none" /\ state[a] = "none" /\ Creates(a, Pipe) = {}
      BY <1>3, <2>4 DEF Fresh
    <3>2. Creates(a, Pipe') = {} /\ ~(Head(todo).op = "create" /\ Subject = a)
      BY <2>1, <3>1
    <3> QED BY <1>3, <3>1, <3>2, CommandEffect
  <2> QED BY <2>3, <2>4
<1> QED BY <1>6, <1>7, <1>8

\* A frame reports what it ends in the message it posts.
LEMMA AnimateAgrees == ASSUME AgreeInv, Animate PROVE Joined' /\ Fresh' /\ Reported' /\ Between'
<1> USE DEF AgreeInv
<1>1. /\ UNCHANGED <<ui, uiReversed, home, told, uiNodes, batch, cmds, todo, reversed>>
      /\ state' = [a \in Animations |-> IF a \in Ending THEN "gone" ELSE state[a]]
      /\ messages' = IF Ending = {} THEN messages ELSE Append(messages, Ending)
      /\ todo = <<>>
  BY DEF Animate, UISide, uiVars, Between
<1>2. Ending \in SUBSET Animations /\ \A a \in Ending : state[a] \in Started
  BY DEF Ending, Ticking, OnNode
<1>3. Pipe' = Pipe
  BY <1>1 DEF Pipe
<1>4. messages \in Seq(SUBSET Animations) /\ Len(messages) \in Nat
  BY DEF TypeInv, TypeOK, QueuesOK
<1>5. \A a \in Animations : Told(a)' <=> Told(a) \/ a \in Ending
  <2>1. CASE Ending = {}
    BY <1>1, <2>1 DEF Told
  <2>2. CASE Ending # {}
    <3>1. /\ Len(messages') = Len(messages) + 1
          /\ \A i \in 1 .. Len(messages) : messages'[i] = messages[i]
          /\ messages'[Len(messages) + 1] = Ending
      BY <1>1, <1>2, <1>4, <2>2, AppendProperties
    <3>2. \A i \in 1 .. Len(messages') : i \in 1 .. Len(messages) \/ i = Len(messages) + 1
      BY <1>4, <3>1
    <3>3. Len(messages) + 1 \in 1 .. Len(messages')
          /\ 1 .. Len(messages) \subseteq 1 .. Len(messages')
      BY <1>4, <3>1
    <3> QED BY <1>1, <3>1, <3>2, <3>3 DEF Told
  <2> QED BY <2>1, <2>2
<1>6. Reported'
  BY <1>1, <1>2, <1>5 DEF Reported
<1>7. Fresh'
  BY <1>1, <1>2, <1>3 DEF Fresh, Started
<1>8. Joined'
  <2> SUFFICES ASSUME NEW a \in Animations, home'[a] # "fallback", state'[a] # "gone"
               PROVE  \E w \in Views : Leads(a, Pipe', View(a)', w) /\ Matches(a, w)'
    BY DEF Joined
  <2>1. View(a)' = View(a) /\ state[a] # "gone"
    BY <1>1 DEF View
  <2>2. \A w \in Views : Matches(a, w)' = Matches(a, w)
    BY <1>1 DEF Matches, Sign
  <2> QED BY <1>1, <1>3, <2>1, <2>2 DEF Joined
<1> QED BY <1>1, <1>6, <1>7, <1>8 DEF Between

LEMMA RenderThreadAgrees == ASSUME AgreeInv, RenderThread PROVE AgreeInv'
<1> USE DEF AgreeInv
<1>1. TypeInv' /\ QueuesOK
  BY TypeStep DEF Next, TypeInv, TypeOK
<1>2. CASE RenderLoop \/ AskReceiver \/ CommandsDone
  <2>1. UNCHANGED <<uiVars, batch, messages, cmds, todo, animVars>>
    BY <1>2 DEF RenderLoop, AskReceiver, CommandsDone, UISide
  <2>2. Pipe' = Pipe
    BY <2>1 DEF Pipe
  <2>3. Between'
    BY <1>2, <2>1 DEF RenderLoop, AskReceiver, CommandsDone, Between
  <2> QED BY <1>1, <2>1, <2>2, <2>3, PassingOn DEF uiVars, animVars
<1>3. CASE OnVsync
  <2>1. UNCHANGED <<uiVars, messages, animVars>> /\ Between'
    BY <1>3 DEF OnVsync, UISide, Between
  <2> QED BY <1>1, <1>3, <2>1, PipeVsync, PassingOn DEF uiVars, animVars
<1>4. CASE ProcessCommand
  <2>1. frame = "commands" /\ Done
    BY <1>4 DEF ProcessCommand, CreateAnimation, DoPause, DoResume, DoFinish, DoReverse,
                DoSetFraction, DoDestroy, DoVisible, Is
  <2> QED BY <1>1, <1>4, <2>1, CommandAgrees DEF Between, Done
<1>5. CASE Animate
  BY <1>1, <1>5, AnimateAgrees
<1> QED BY <1>2, <1>3, <1>4, <1>5 DEF RenderThread

LEMMA AgreeStep == AgreeInv /\ [Next]_vars => AgreeInv'
<1> SUFFICES ASSUME AgreeInv, [Next]_vars PROVE AgreeInv'
  OBVIOUS
<1>1. CASE UNCHANGED vars
  <2>1. UNCHANGED <<uiVars, batch, messages, cmds, frame, todo, animVars>>
    BY <1>1 DEF vars
  <2>2. Pipe' = Pipe
    BY <2>1 DEF Pipe
  <2>3. TypeInv'
    BY TypeStep DEF AgreeInv
  <2> QED BY <2>1, <2>2, <2>3, PassingOn DEF AgreeInv, Between, uiVars, animVars
<1> QED BY <1>1, ApplicationAgrees, UIThreadAgrees, RenderThreadAgrees DEF Next

LEMMA AgreeInit == Init => AgreeInv
<1> SUFFICES ASSUME Init PROVE AgreeInv
  OBVIOUS
<1>1. TypeInv
  BY TypeInit
<1>2. Pipe = <<>>
  BY EmptySeq, ConcatEmptySeq DEF Init, Pipe
<1>3. Joined
  <2> SUFFICES ASSUME NEW a \in Animations
               PROVE  \E w \in Views : Leads(a, Pipe, View(a), w) /\ Matches(a, w)
    BY DEF Joined
  <2> DEFINE v == [st |-> "none", rev |-> 0]
  <2>1. View(a) = v /\ v \in Views
    BY DEF Init, View, Views, Sign
  <2>2. Matches(a, v)
    BY DEF Init, Matches, Sign
  <2>3. Len(<<>>) = 0
    BY EmptySeq
  <2> HIDE DEF v
  <2> DEFINE h == [i \in 0 .. 0 |-> v]
  <2>4. h \in [0 .. 0 -> Views] /\ h[0] = v /\ 1 .. 0 = {}
    BY <2>1
  <2> HIDE DEF h
  <2>5. Leads(a, <<>>, v, v)
    BY <2>3, <2>4 DEF Leads
  <2> QED BY <1>2, <2>1, <2>2, <2>5
<1>4. Fresh
  <2>1. \A a \in Animations : Creates(a, <<>>) = {}
    BY DEF Creates
  <2> QED BY <1>2, <2>1 DEF Init, Fresh
<1>5. Reported
  BY DEF Init, Reported, Told
<1> QED BY <1>1, <1>3, <1>4, <1>5 DEF AgreeInv, Between, Init

LEMMA AgreeInvSuffices == AgreeInv => AgreeAtRest
<1> SUFFICES ASSUME AgreeInv, AtRest, NEW a \in Animations, home[a] # "fallback"
             PROVE  \/ ui[a] = "INITIALIZED" /\ state[a] = "none"
                    \/ /\ ui[a] \in {"RUNNING", "PAUSED"}
                       /\ state[a] = ui[a] /\ reversed[a] = uiReversed[a]
                    \/ ui[a] = "FINISHED" /\ (state[a] = "gone" <=> told[a] = 1)
  BY DEF AgreeAtRest
<1> USE DEF AgreeInv
<1>1. /\ ui[a] \in {"INITIALIZED"} \cup Started
      /\ uiReversed[a] \in BOOLEAN /\ reversed[a] \in BOOLEAN
  BY DEF TypeInv, TypeOK, UIOK, AnimOK
<1>2. Told(a) <=> told[a] = 1
  BY EmptySeq DEF AtRest, Told
<1>3. CASE state[a] = "gone"
  BY <1>2, <1>3 DEF Reported
<1>4. CASE state[a] # "gone"
  <2>1. Pipe = <<>>
    BY EmptySeq, ConcatEmptySeq DEF AtRest, Pipe
  <2>2. PICK w \in Views : Leads(a, Pipe, View(a), w) /\ Matches(a, w)
    BY <1>4 DEF Joined
  <2>3. View(a) = w
    BY <2>1, <2>2, LeadsNil
  <2>4. state[a] = w.st /\ Sign(reversed[a]) = w.rev
    BY <2>3 DEF View
  <2>5. told[a] # 1
    BY <1>2, <1>4 DEF Reported
  <2>6. ui[a] # "FINISHED" => reversed[a] = uiReversed[a]
    <3>1. ui[a] # "FINISHED" => Sign(reversed[a]) = Sign(uiReversed[a])
      BY <2>2, <2>4 DEF Matches
    <3>2. Sign(reversed[a]) = Sign(uiReversed[a]) => reversed[a] = uiReversed[a]
      BY <1>1 DEF Sign
    <3> QED BY <3>1, <3>2
  <2> QED BY <1>1, <1>4, <2>2, <2>4, <2>5, <2>6 DEF Matches, Started
<1> QED BY <1>3, <1>4

\* Whatever the order of inputs, flushes, frames and finish messages, once nothing is on its
\* way the application and the render thread agree on every animation whose RSNode lives
\* (RSAnimation, AnimOp, RSRenderThread::Animate, RSNode::AnimationFinish).
THEOREM SidesAgree == Spec => []AgreeAtRest
BY AgreeInit, AgreeStep, AgreeInvSuffices, PTL DEF Spec
=============================================================================
