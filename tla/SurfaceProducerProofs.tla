----------------------- MODULE SurfaceProducerProofs -----------------------
(***************************************************************************)
(* Proofs about SurfaceProducer: its types, and that a buffer which the    *)
(* stub leaves out of a reply is in the cache of the surface that asked,   *)
(* for any number of processes, threads and buffers.                       *)
(***************************************************************************)
EXTENDS SurfaceProducer, TLAPS

-----------------------------------------------------------------------------
(* Types.                                                                  *)

LEMMA InitType == Init => TypeOK
  <1> SUFFICES ASSUME Init PROVE TypeOK
    OBVIOUS
  <1>1. QueueOK /\ StubOK /\ ClientOK
    BY DEF Init, QueueOK, StubOK, ClientOK, States
  <1>2. CallsOK
    BY DEF Init, CallsOK, Labels, Nothing, ReplyValues
  <1> QED
    BY <1>1, <1>2 DEF TypeOK

LEMMA DeleteType == ASSUME QueueOK, NEW s \in Seqs, DeleteInCache(s) PROVE QueueOK'
  BY DEF QueueOK, DeleteInCache, States

LEMMA CleanType == ASSUME QueueOK, CleanQueue PROVE QueueOK'
  BY DEF QueueOK, CleanQueue, States

LEMMA ReturnType ==
  ASSUME CallsOK, NEW t \in Threads, Return(t) PROVE CallsOK'
  BY DEF CallsOK, Return, Goto, Labels, Nothing, ReplyValues

LEMMA GotoType ==
  ASSUME CallsOK, NEW t \in Threads, NEW label \in Labels, Goto(t, label), UNCHANGED reply,
         label \notin {"stub", "surface"} \/ pc[t] \in {"stub", "surface"}
  PROVE  CallsOK'
  BY DEF CallsOK, Goto

LEMMA AnswerType ==
  ASSUME TypeOK, NEW t \in Threads, NEW s \in Seqs, NEW b \in BOOLEAN,
         NEW D \in SUBSET Seqs, Answer(t, s, b, D)
  PROVE  StubOK' /\ ClientOK' /\ CallsOK'
  <1>1. [seqs |-> {s}, buffer |-> b, deleting |-> D] \in ReplyValues
    BY DEF ReplyValues
  <1>2. CallsOK'
    <2>1. /\ reply' = [reply EXCEPT ![t] = [seqs |-> {s}, buffer |-> b, deleting |-> D]]
          /\ pc' = [pc EXCEPT ![t] = "stub"] /\ CallsOK
      BY DEF Answer, Goto, TypeOK
    <2>2. reply' \in [Threads -> ReplyValues] /\ pc' \in [Threads -> Labels]
      BY <1>1, <2>1 DEF CallsOK, Labels
    <2>3. reply'[t].seqs = {s} /\ \A u \in Threads \ {t} : reply'[u] = reply[u] /\ pc'[u] = pc[u]
      BY <2>1 DEF CallsOK
    <2> QED BY <2>2, <2>3, <2>1 DEF CallsOK
  <1> QED
    BY <1>2 DEF TypeOK, StubOK, ClientOK, Answer, stub, client

\* The number that StubUpdate reads from a reply.
LEMMA ReplySeq ==
  ASSUME NEW r, NEW s \in Seqs, r = {s}
  PROVE  (CHOOSE n \in Seqs : r = {n}) = s
  OBVIOUS

LEMMA RequestType ==
  ASSUME TypeOK, NEW t \in Threads, Request(t)
  PROVE  TypeOK'
  <1> Proc[t] \in Pids
    BY ProcessAssumption
  <1>1. QueueOK /\ StubOK /\ ClientOK /\ CallsOK
    BY DEF TypeOK
  <1>2. CASE Connect(t)
    BY <1>1, <1>2, GotoType
       DEF Connect, TypeOK, QueueOK, StubOK, ClientOK, queue, client, Labels
  <1>3. CASE RequestFails(t) \/ ReplyLost(t) \/ LookupFails(t)
    BY <1>1, <1>3, ReturnType
       DEF RequestFails, ReplyLost, LookupFails, TypeOK, QueueOK, StubOK, ClientOK,
           queue, stub, client
  <1>4. ASSUME NEW s \in Seqs, Reuse(t, s) PROVE TypeOK'
    <2>1. QueueOK'
      BY <1>1, <1>4 DEF Reuse, QueueOK, States
    <2>2. deletingList \in SUBSET Seqs
      BY <1>1 DEF QueueOK
    <2>3. StubOK' /\ ClientOK' /\ CallsOK'
      BY <1>4, <2>2, AnswerType DEF Reuse
    <2> QED BY <2>1, <2>3 DEF TypeOK
  <1>5. ASSUME NEW s \in Seqs, Alloc(t, s) PROVE TypeOK'
    <2>1. QueueOK'
      BY <1>1, <1>5 DEF Alloc, QueueOK, States
    <2>2. {} \in SUBSET Seqs
      OBVIOUS
    <2>3. StubOK' /\ ClientOK' /\ CallsOK'
      BY <1>5, <2>2, AnswerType DEF Alloc
    <2> QED BY <2>1, <2>3 DEF TypeOK
  <1>6. ASSUME NEW s \in Seqs, NEW new \in Seqs, Realloc(t, s, new) PROVE TypeOK'
    <2>1. QueueOK'
      BY <1>1, <1>6 DEF Realloc, QueueOK, States
    <2>2. deletingList \cup {s} \in SUBSET Seqs
      BY <1>1 DEF QueueOK
    <2>3. StubOK' /\ ClientOK' /\ CallsOK'
      BY <1>6, <2>2, AnswerType DEF Realloc
    <2> QED BY <2>1, <2>3 DEF TypeOK
  <1>7. CASE Receive(t) \/ Lookup(t)
    <2>1. CallsOK'
      BY <1>1, <1>7, ReturnType DEF Receive, Lookup
    <2>2. reply[t].seqs \subseteq Seqs
      BY <1>1 DEF CallsOK, ReplyValues
    <2>3. ClientOK'
      BY <1>1, <1>7, <2>2 DEF Receive, Lookup, ClientOK
    <2> QED BY <1>1, <1>7, <2>1, <2>3 DEF Receive, Lookup, TypeOK, QueueOK, StubOK, queue, stub
  <1>8. CASE Stub(t)
    <2>1. PICK s \in Seqs : reply[t].seqs = {s}
      BY <1>1, <1>8 DEF Stub, At, CallsOK
    <2>2. (CHOOSE n \in Seqs : reply[t].seqs = {n}) = s
      BY <2>1, ReplySeq
    <2>3. StubOK'
      BY <1>1, <1>8, <2>2 DEF Stub, StubUpdate, StubOK
    <2>4. PICK b \in BOOLEAN : reply' = [reply EXCEPT ![t].buffer = b]
      BY <1>8 DEF Stub, StubUpdate
    <2>5. CallsOK'
      <3>1. /\ pc' = [pc EXCEPT ![t] = "surface"] /\ pc[t] = "stub"
        BY <1>8 DEF Stub, StubUpdate, Goto, At
      <3>2. reply' \in [Threads -> ReplyValues] /\ \A u \in Threads : reply'[u].seqs = reply[u].seqs
        BY <1>1, <2>4 DEF CallsOK, ReplyValues
      <3> QED BY <1>1, <3>1, <3>2 DEF CallsOK, Labels
    <2> QED
      BY <1>1, <1>8, <2>3, <2>5
         DEF Stub, StubUpdate, TypeOK, QueueOK, ClientOK, queue, client
  <1> QED
    BY <1>2, <1>3, <1>4, <1>5, <1>6, <1>7, <1>8 DEF Request

LEMMA OthersType ==
  ASSUME TypeOK, NEW t \in Threads, Others(t)
  PROVE  TypeOK'
  <1> Proc[t] \in Pids
    BY ProcessAssumption
  <1>1. QueueOK /\ StubOK /\ ClientOK /\ CallsOK
    BY DEF TypeOK
  <1>2. ASSUME NEW s \in Seqs, GiveBack(t, s) PROVE StubOK' /\ ClientOK' /\ CallsOK'
    BY <1>1, <1>2 DEF GiveBack, StubOK, ClientOK, CallsOK, stub
  <1>3. ASSUME NEW s \in Seqs,
               GiveBackUnknown(t, s) \/ CancelBuffer(t, s) \/ FlushBuffer(t, s)
        PROVE  TypeOK'
    <2>1. QueueOK'
      BY <1>1, <1>3, DeleteType
         DEF GiveBackUnknown, CancelBuffer, FlushBuffer, QueueOK, queue, States
    <2> QED
      BY <1>2, <1>3, <2>1 DEF GiveBackUnknown, CancelBuffer, FlushBuffer, TypeOK
  <1>4. ASSUME NEW s \in Seqs, AttachBuffer(t, s) PROVE TypeOK'
    BY <1>1, <1>4
       DEF AttachBuffer, TypeOK, QueueOK, StubOK, ClientOK, CallsOK, stub, States
  <1>5. CASE CleanCache(t)
    <2>1. CallsOK'
      BY <1>1, <1>5, GotoType DEF CleanCache, Labels
    <2> QED BY <1>1, <1>5, <2>1 DEF CleanCache, TypeOK, QueueOK, StubOK, ClientOK, queue, stub
  <1>6. CASE CleanLost(t)
    <2>1. CallsOK'
      BY <1>1, <1>6, ReturnType DEF CleanLost
    <2> QED BY <1>1, <1>6, <2>1 DEF CleanLost, TypeOK, QueueOK, StubOK, ClientOK, queue, stub
  <1>7. CASE StubCleans(t)
    <2>1. CallsOK'
      BY <1>1, <1>7, GotoType, ReturnType DEF StubCleans, Labels
    <2> QED
      BY <1>1, <1>7, <2>1 DEF StubCleans, TypeOK, QueueOK, StubOK, ClientOK, queue, stub, client
  <1>8. ASSUME SurfaceEnds(t)
        PROVE  /\ QueueOK' /\ cache' \subseteq Seqs /\ sended' \in [Pids -> SUBSET Seqs]
               /\ producerCache' \in [Pids -> SUBSET Seqs] /\ held' \in [Pids -> SUBSET Seqs]
               /\ surface' \subseteq Pids /\ dead' \subseteq Pids /\ attached' \subseteq Seqs
               /\ reply' = reply
    BY <1>1, <1>8 DEF SurfaceEnds, QueueOK, StubOK, ClientOK, queue
  <1>9. CASE DestroySurface(t)
    <2>1. CallsOK'
      BY <1>1, <1>8, <1>9, GotoType DEF DestroySurface, Labels, CallsOK
    <2> QED BY <1>1, <1>8, <1>9, <2>1 DEF DestroySurface, TypeOK, StubOK, ClientOK
  <1>10. CASE DisconnectLost(t)
    <2>1. CallsOK'
      BY <1>1, <1>8, <1>10 DEF DisconnectLost, CallsOK
    <2> QED BY <1>1, <1>8, <1>10, <2>1 DEF DisconnectLost, TypeOK, StubOK, ClientOK
  <1>11. CASE QueueCleans(t)
    <2>1. QueueOK' /\ CallsOK'
      BY <1>1, <1>11, CleanType, GotoType DEF QueueCleans, Labels
    <2> QED BY <1>1, <1>11, <2>1 DEF QueueCleans, TypeOK, StubOK, ClientOK, stub
  <1> QED
    BY <1>3, <1>4, <1>5, <1>6, <1>7, <1>9, <1>10, <1>11 DEF Others

LEMMA TypeStep == TypeOK /\ [Next]_vars => TypeOK'
  <1> SUFFICES ASSUME TypeOK, [Next]_vars PROVE TypeOK'
    OBVIOUS
  <1>1. QueueOK /\ StubOK /\ ClientOK /\ CallsOK
    BY DEF TypeOK
  <1>2. CASE UNCHANGED vars
    BY <1>1, <1>2 DEF vars, queue, stub, client, TypeOK, QueueOK, StubOK, ClientOK, CallsOK
  <1>3. ASSUME NEW s \in Seqs, Recycle(s) \/ DeleteFree(s) PROVE TypeOK'
    <2>1. QueueOK'
      BY <1>1, <1>3, DeleteType DEF Recycle, DeleteFree, QueueOK, States
    <2> QED
      BY <1>1, <1>3, <2>1
         DEF Recycle, DeleteFree, stub, client, TypeOK, StubOK, ClientOK, CallsOK
  <1>4. ASSUME NEW p \in Pids, CreateSurface(p) \/ Die(p) PROVE TypeOK'
    BY <1>1, <1>4 DEF CreateSurface, Die, queue, stub, TypeOK, QueueOK, StubOK, ClientOK,
                      CallsOK
  <1> QED
    BY <1>2, <1>3, <1>4, RequestType, OthersType DEF Next

\* The state of the queue, of the stub and of the surfaces keeps its types, whatever is
\* lost: BufferQueueProducer answers with one buffer, and the numbers it reports as
\* deleted are those of deleted buffers.
THEOREM ProducerTypeCorrect == Spec => []TypeOK
  BY InitType, TypeStep, PTL DEF Spec

-----------------------------------------------------------------------------
(* The inductive invariant behind LeftOutIsCached.                         *)

Gone == {s \in Seqs : state[s] = "gone"}

\* Thread t has buffer s in the reply of its RequestBuffer.
Flying(t) == pc[t] \in {"stub", "surface"}
Carries(t, s) == Flying(t) /\ reply[t].seqs = {s}

\* A reply is about a buffer that is requested, unless it was deleted meanwhile.
Reported ==
    \A t \in Threads :
        /\ reply[t].deleting \subseteq Gone
        /\ \A s \in Seqs : Carries(t, s) => state[s] \in {"requested", "gone"}

\* A buffer of the queue is in one reply or in the hands of one process.
OneHand ==
    \A s \in Live :
        /\ \A p, q \in Pids : s \in held[p] /\ s \in held[q] => p = q
        /\ \A t, u \in Threads : Carries(t, s) /\ Carries(u, s) => t = u
        /\ \A t \in Threads, p \in Pids : Carries(t, s) => s \notin held[p]
        /\ \A p \in Pids : s \in held[p] => state[s] \in {"requested", "attached"}

Unknown ==
    \A s \in Seqs :
        /\ state[s] = "none" =>
               s \notin attached /\ \A p \in Pids : s \notin held[p] /\ s \notin sended[p]
        /\ state[s] = "attached" => s \in attached

Disconnecting(p) == \E t \in Threads : Proc[t] = p /\ pc[t] = "cleanQueue"
Emptying(p) == \E t \in Threads : Proc[t] = p /\ pc[t] = "clean"

\* Requests are those of the connected process, and what was sent to another one is
\* about to be cleaned.
OneProcess ==
    /\ \A t \in Threads : pc[t] \in {"queue", "stub", "surface"} => connected = Proc[t]
    /\ \A p \in Pids, s \in Live : s \in sended[p] => connected = p \/ Disconnecting(p)

\* The stub can find every buffer that it has seen.
Findable ==
    \A s \in Live : s \in attached \/ s \in cache
                    \/ \E t \in Threads : pc[t] = "stub" /\ reply[t].buffer /\ Carries(t, s)

\* A client whose surface is not being cleaned.
Steady(p) == Remote(p) /\ p \notin dead /\ ~Emptying(p) /\ ~Disconnecting(p)

\* What the stub has answered a remote surface with is in its record.
Recorded ==
    \A t \in Threads, s \in Live :
        pc[t] = "surface" /\ Carries(t, s) /\ Remote(Proc[t]) => s \in sended[Proc[t]]

\* What the stub has sent, the surface has or has dropped, or nobody has: its reply is
\* on the way, or was lost, and then the buffer stays requested.
SentIsCached ==
    \A p \in Pids, s \in Live :
        Steady(p) /\ s \in sended[p] /\ s \notin attached =>
            \/ s \in producerCache[p] \/ s \in dropped[p]
            \/ state[s] = "requested" /\ \A q \in Pids : s \notin held[q]

\* What was reused and sent before is in the cache all the way to the surface, unless
\* the surface has dropped it.
ReusedIsCached ==
    \A t \in Threads, s \in Live :
        /\ Carries(t, s) /\ ~reply[t].buffer /\ s \notin attached
        /\ Proc[t] \notin dead /\ ~Emptying(Proc[t]) /\ ~Disconnecting(Proc[t])
        /\ pc[t] = "surface" \/ (Remote(Proc[t]) /\ s \in sended[Proc[t]])
        => s \in producerCache[Proc[t]] \/ s \in dropped[Proc[t]]

SInv ==
    /\ TypeOK /\ Reported /\ OneHand /\ Unknown
    /\ OneProcess /\ Findable /\ Recorded /\ SentIsCached /\ ReusedIsCached

LEMMA SInvInit == Init => SInv
  <1> SUFFICES ASSUME Init PROVE SInv
    OBVIOUS
  <1>1. Live = {} /\ \A t \in Threads : ~Flying(t)
    BY DEF Init, Live, Flying
  <1>2. Reported /\ Unknown
    BY <1>1 DEF Init, Reported, Unknown, Carries, Nothing
  <1>3. OneHand /\ OneProcess /\ Findable /\ Recorded /\ SentIsCached /\ ReusedIsCached
    BY <1>1 DEF Init, OneHand, OneProcess, Findable, Recorded, SentIsCached, ReusedIsCached
  <1> QED
    BY <1>2, <1>3, InitType DEF SInv

\* The stub leaves a buffer out only when the surface has it, or has dropped it.
LEMMA SInvLeftOut == SInv => LeftOutIsCached
  <1> SUFFICES ASSUME SInv, NEW t \in Threads, At(t, "surface"), Alive(t), ~reply[t].buffer
               PROVE  \/ reply[t].seqs \subseteq producerCache[Proc[t]]
                      \/ reply[t].seqs \cap Live = {}
                      \/ Cleaning(Proc[t])
                      \/ reply[t].seqs \subseteq dropped[Proc[t]]
                      \/ reply[t].seqs \subseteq attached
    BY DEF LeftOutIsCached
  <1>1. PICK s \in Seqs : reply[t].seqs = {s}
    BY DEF SInv, TypeOK, CallsOK, At
  <1>2. Carries(t, s) /\ pc[t] = "surface" /\ Proc[t] \notin dead
    BY <1>1 DEF Carries, Flying, At, Alive
  <1>3. ~Cleaning(Proc[t]) => ~Emptying(Proc[t]) /\ ~Disconnecting(Proc[t])
    BY DEF Cleaning, ThreadsOf, Emptying, Disconnecting
  <1>4. \/ s \notin Live \/ s \in attached \/ Cleaning(Proc[t])
        \/ s \in producerCache[Proc[t]] \/ s \in dropped[Proc[t]]
    BY <1>2, <1>3 DEF SInv, ReusedIsCached
  <1> QED
    BY <1>1, <1>4

-----------------------------------------------------------------------------
(* The steps that move no buffer: calls begin, fail or lose their reply,   *)
(* processes start and die, an unknown buffer is given back.               *)

LEMMA Quiet ==
  ASSUME SInv, TypeOK', UNCHANGED <<state, cache, sended, attached>>,
         dead \subseteq dead',
         \A p \in Pids : /\ held'[p] \subseteq held[p]
                         /\ p \notin dead' => /\ producerCache'[p] = producerCache[p]
                                              /\ dropped'[p] = dropped[p],
         \A p \in Pids : connected = p => connected' = p,
         \A t \in Threads :
             \/ pc'[t] = pc[t] /\ reply'[t] = reply[t]
             \/ /\ pc[t] \in {"idle", "queue", "surface"} /\ pc'[t] \in {"idle", "queue"}
                /\ reply'[t].deleting \subseteq reply[t].deleting
                /\ pc'[t] = "queue" => connected' = Proc[t]
  PROVE  SInv'
  <1>1. Live' = Live /\ Gone' = Gone
    BY DEF Live, Gone
  <1>2. \A t \in Threads, s \in Seqs :
           Carries(t, s)' => Carries(t, s) /\ reply'[t] = reply[t] /\ pc'[t] = pc[t]
    BY DEF Carries, Flying
  <1>3. \A p \in Pids : /\ Disconnecting(p)' <=> Disconnecting(p)
                        /\ Emptying(p)' <=> Emptying(p)
    BY DEF Disconnecting, Emptying
  <1>4. \A t \in Threads : Proc[t] \in Pids
    BY ProcessAssumption
  <1>5. Live \subseteq Seqs
    BY DEF Live
  <1>6. Reported'
    BY <1>1, <1>2 DEF SInv, Reported
  <1>7. OneHand'
    BY <1>1, <1>2, <1>5 DEF SInv, OneHand
  <1>8. Unknown'
    BY DEF SInv, Unknown
  <1>9. OneProcess'
    BY <1>1, <1>3, <1>4 DEF SInv, OneProcess
  <1>10. Findable'
    BY <1>1, <1>5 DEF SInv, Findable, Carries, Flying
  <1>11. SentIsCached'
    BY <1>1, <1>3 DEF SInv, SentIsCached, Steady, Remote
  <1>12. ReusedIsCached'
    BY <1>1, <1>2, <1>3, <1>4, <1>5 DEF SInv, ReusedIsCached, Remote
  <1>13. Recorded'
    BY <1>1, <1>2, <1>5 DEF SInv, Recorded, Remote
  <1> QED
    BY <1>6, <1>7, <1>8, <1>9, <1>10, <1>11, <1>12, <1>13 DEF SInv

LEMMA QuietSteps ==
  ASSUME SInv, TypeOK', NEW t \in Threads,
         \/ Connect(t) \/ RequestFails(t) \/ ReplyLost(t) \/ LookupFails(t)
         \/ \E s \in Seqs : GiveBackUnknown(t, s)
  PROVE  SInv'
  <1>1. /\ NoPid \notin Pids /\ Proc[t] \in Pids
        /\ reply \in [Threads -> ReplyValues] /\ pc \in [Threads -> Labels]
        /\ held \in [Pids -> SUBSET Seqs]
    BY ProcessAssumption DEF SInv, TypeOK, CallsOK, ClientOK
  <1>2. UNCHANGED <<state, cache, sended, attached, dead, producerCache, dropped>>
    BY DEF Connect, RequestFails, ReplyLost, LookupFails, GiveBackUnknown, GiveBack,
           queue, stub, client
  <1>3. \A p \in Pids : held'[p] \subseteq held[p]
    BY <1>1 DEF Connect, RequestFails, ReplyLost, LookupFails, GiveBackUnknown, GiveBack,
                client
  <1>4. \A p \in Pids : connected = p => connected' = p
    BY <1>1 DEF Connect, RequestFails, ReplyLost, LookupFails, GiveBackUnknown, GiveBack,
                stub
  <1>5. \A u \in Threads :
             \/ pc'[u] = pc[u] /\ reply'[u] = reply[u]
             \/ /\ pc[u] \in {"idle", "queue", "surface"} /\ pc'[u] \in {"idle", "queue"}
                /\ reply'[u].deleting \subseteq reply[u].deleting
                /\ pc'[u] = "queue" => connected' = Proc[u]
    BY <1>1 DEF Connect, RequestFails, ReplyLost, LookupFails, GiveBackUnknown, GiveBack,
                Goto, Return, At, Idle, Nothing
  <1> QED
    BY <1>2, <1>3, <1>4, <1>5, Quiet

LEMMA ProcessSteps ==
  ASSUME SInv, TypeOK', UNCHANGED vars \/ \E p \in Pids : CreateSurface(p) \/ Die(p)
  PROVE  SInv'
  <1>1. /\ producerCache \in [Pids -> SUBSET Seqs] /\ held \in [Pids -> SUBSET Seqs]
        /\ dropped \in [Pids -> SUBSET Seqs]
    BY DEF SInv, TypeOK, ClientOK
  <1>2. UNCHANGED <<state, cache, sended, attached, connected, pc, reply>>
    BY DEF vars, queue, stub, client, CreateSurface, Die
  <1>3. /\ dead \subseteq dead'
        /\ \A p \in Pids : /\ held'[p] \subseteq held[p]
                           /\ p \notin dead' => /\ producerCache'[p] = producerCache[p]
                                                /\ dropped'[p] = dropped[p]
    BY <1>1 DEF vars, client, CreateSurface, Die
  <1> QED
    BY <1>2, <1>3, Quiet

-----------------------------------------------------------------------------
(* The queue answers a request.                                            *)

LEMMA Answered ==
  ASSUME SInv, TypeOK', NEW t \in Threads, pc[t] = "queue", NEW n \in Seqs,
         NEW b \in BOOLEAN, NEW D, Answer(t, n, b, D), D \subseteq Gone',
         state[n] = IF b THEN "none" ELSE "free", state'[n] = "requested",
         \A r \in Seqs \ {n} : state'[r] \in {state[r], "gone"}
  PROVE  SInv'
  <1>1. /\ reply \in [Threads -> ReplyValues] /\ pc \in [Threads -> Labels]
        /\ \A u \in Threads : Proc[u] \in Pids
    BY ProcessAssumption DEF SInv, TypeOK, CallsOK
  <1>2. UNCHANGED <<cache, sended, connected, attached, producerCache, dead, held, dropped>>
    BY DEF Answer, stub, client
  <1>3. /\ pc'[t] = "stub" /\ reply'[t].seqs = {n} /\ reply'[t].buffer = b
        /\ reply'[t].deleting = D
        /\ \A u \in Threads \ {t} : pc'[u] = pc[u] /\ reply'[u] = reply[u]
    BY <1>1 DEF Answer, Goto
  <1>4. /\ Live' \subseteq Live \cup {n} /\ n \in Live' /\ Gone \subseteq Gone'
        /\ Live \subseteq Seqs
        /\ \A r \in Live' \ {n} : state'[r] = state[r]
    BY DEF Live, Gone
  <1>5. \A u \in Threads, s \in Seqs : s # n =>
            (Carries(u, s)' <=> Carries(u, s) /\ u # t)
    BY <1>3 DEF Carries, Flying
  <1>6. \A u \in Threads : /\ Carries(u, n)' => u = t
                           /\ ~Carries(u, n)
    BY <1>3 DEF SInv, Reported, Carries, Flying
  <1>7. \A p \in Pids : n \notin held[p] /\ (b => n \notin sended[p])
    <2>1. CASE b
      BY <2>1 DEF SInv, Unknown
    <2>2. CASE ~b
      <3>1. n \in Live /\ state[n] = "free"
        BY <2>2 DEF Live
      <3> QED BY <2>2, <3>1 DEF SInv, OneHand
    <2> QED BY <2>1, <2>2
  <1>8. ~b => n \in Live /\ state[n] = "free"
    BY DEF Live
  <1>9. \A p \in Pids : /\ Disconnecting(p)' <=> Disconnecting(p)
                        /\ Emptying(p)' <=> Emptying(p)
    BY <1>3 DEF Disconnecting, Emptying
  <1>10. Reported'
    BY <1>3, <1>4, <1>5, <1>6 DEF SInv, Reported, Gone
  <1>11. OneHand'
    BY <1>2, <1>4, <1>5, <1>6, <1>7 DEF SInv, OneHand
  <1>12. Unknown'
    BY <1>2 DEF SInv, Unknown
  <1>13. OneProcess'
    BY <1>1, <1>2, <1>3, <1>4, <1>7, <1>8, <1>9 DEF SInv, OneProcess
  <1>14. Findable'
    <2>1. CASE b
      <3>1. pc'[t] = "stub" /\ reply'[t].buffer /\ Carries(t, n)'
        BY <1>3, <2>1 DEF Carries, Flying
      <3>2. \A s \in Live' \ {n} : s \in attached \/ s \in cache \/
               \E u \in Threads : pc'[u] = "stub" /\ reply'[u].buffer /\ Carries(u, s)'
        BY <1>3, <1>4, <1>5 DEF SInv, Findable
      <3> QED BY <1>2, <3>1, <3>2 DEF Findable
    <2>2. CASE ~b
      <3>1. n \in attached \/ n \in cache
        BY <1>6, <1>8, <2>2 DEF SInv, Findable
      <3>2. \A s \in Live' \ {n} : s \in attached \/ s \in cache \/
               \E u \in Threads : pc'[u] = "stub" /\ reply'[u].buffer /\ Carries(u, s)'
        BY <1>3, <1>4, <1>5 DEF SInv, Findable
      <3> QED BY <1>2, <3>1, <3>2 DEF Findable
    <2> QED BY <2>1, <2>2
  <1>15. SentIsCached'
    BY <1>2, <1>4, <1>7, <1>9 DEF SInv, SentIsCached, Steady, Remote
  <1>16. ReusedIsCached'
    <2> SUFFICES ASSUME NEW u \in Threads, NEW s \in Live', Carries(u, s)', ~reply'[u].buffer,
                        s \notin attached, Proc[u] \notin dead,
                        ~Emptying(Proc[u])', ~Disconnecting(Proc[u])',
                        pc'[u] = "surface" \/ (Remote(Proc[u]) /\ s \in sended[Proc[u]])
                 PROVE  s \in producerCache[Proc[u]] \/ s \in dropped[Proc[u]]
      BY <1>2 DEF ReusedIsCached, Remote
    <2>1. CASE s = n
      <3>1. u = t /\ ~b /\ pc'[u] # "surface"
        BY <1>3, <1>6, <2>1
      <3>2. Steady(Proc[t]) /\ n \in sended[Proc[t]]
        BY <1>1, <1>9, <2>1, <3>1 DEF Steady
      <3> QED BY <1>1, <1>8, <2>1, <3>1, <3>2 DEF SInv, SentIsCached
    <2>2. CASE s # n
      <3>1. s \in Live /\ Carries(u, s) /\ u # t
        BY <1>4, <1>5, <2>2
      <3> QED BY <1>1, <1>3, <1>9, <3>1 DEF SInv, ReusedIsCached
    <2> QED BY <2>1, <2>2
  <1>17. Recorded'
    BY <1>2, <1>3, <1>4, <1>5, <1>6 DEF SInv, Recorded, Remote
  <1> QED
    BY <1>10, <1>11, <1>12, <1>13, <1>14, <1>15, <1>16, <1>17 DEF SInv

LEMMA AnswerSteps ==
  ASSUME SInv, TypeOK', NEW t \in Threads,
         \/ \E s \in Seqs : Reuse(t, s) \/ Alloc(t, s)
         \/ \E s, new \in Seqs : Realloc(t, s, new)
  PROVE  SInv'
  <1>1. state \in [Seqs -> States] /\ deletingList \subseteq Gone
    BY DEF SInv, TypeOK, QueueOK, Gone
  <1>2. ASSUME NEW s \in Seqs, Reuse(t, s) PROVE SInv'
    <2>1. /\ pc[t] = "queue" /\ Answer(t, s, FALSE, deletingList) /\ state[s] = "free"
          /\ state' = [state EXCEPT ![s] = "requested"]
      BY <1>2 DEF Reuse, At
    <2>2. deletingList \subseteq Gone'
      BY <1>1, <2>1 DEF Gone
    <2> QED BY <1>1, <2>1, <2>2, Answered
  <1>3. ASSUME NEW s \in Seqs, Alloc(t, s) PROVE SInv'
    <2>1. /\ pc[t] = "queue" /\ Answer(t, s, TRUE, {}) /\ state[s] = "none"
          /\ state' = [state EXCEPT ![s] = "requested"]
      BY <1>3 DEF Alloc, At
    <2> DEFINE D == {}
    <2>2. Answer(t, s, TRUE, D) /\ D \subseteq Gone'
      BY <2>1
    <2> HIDE DEF D
    <2> QED BY <1>1, <2>1, <2>2, Answered
  <1>4. ASSUME NEW s \in Seqs, NEW new \in Seqs, Realloc(t, s, new) PROVE SInv'
    <2>1. /\ pc[t] = "queue" /\ Answer(t, new, TRUE, deletingList \cup {s})
          /\ state[s] = "free" /\ state[new] = "none"
          /\ state' = [state EXCEPT ![s] = "gone", ![new] = "requested"]
      BY <1>4 DEF Realloc, At
    <2>2. /\ deletingList \cup {s} \subseteq Gone' /\ state'[new] = "requested"
          /\ \A r \in Seqs \ {new} : state'[r] \in {state[r], "gone"}
      BY <1>1, <2>1 DEF Gone
    <2> QED BY <2>1, <2>2, Answered
  <1> QED
    BY <1>2, <1>3, <1>4

-----------------------------------------------------------------------------
(* The stub completes the reply.                                           *)

LEMMA StubStep == ASSUME SInv, TypeOK', NEW t \in Threads, Stub(t) PROVE SInv'
  <1> DEFINE p == Proc[t]
             r == reply[t]
  <1>1. /\ reply \in [Threads -> ReplyValues] /\ pc \in [Threads -> Labels]
        /\ sended \in [Pids -> SUBSET Seqs] /\ \A u \in Threads : Proc[u] \in Pids
    BY ProcessAssumption DEF SInv, TypeOK, CallsOK, StubOK
  <1>2. PICK s \in Seqs : r.seqs = {s}
    BY DEF SInv, TypeOK, CallsOK, Stub, At
  <1>3. (CHOOSE n \in Seqs : r.seqs = {n}) = s
    BY <1>2, ReplySeq
  <1>4. UNCHANGED <<state, connected, producerCache, held, dead, attached, dropped>>
    BY DEF Stub, StubUpdate, queue, client
  <1>5. PICK found \in Promoted(s) :
          reply' = [reply EXCEPT ![t].buffer =
                        @ \/ (found /\ (~Remote(p) \/ s \notin sended[p]))]
    BY <1>3 DEF Stub, StubUpdate
  <1>6. /\ pc[t] = "stub" /\ pc' = [pc EXCEPT ![t] = "surface"]
        /\ cache' = (IF r.buffer THEN cache \cup {s} ELSE cache) \ r.deleting
        /\ sended' = [sended EXCEPT ![p] =
              (IF r.buffer \/ Remote(p) THEN @ \cup {s} ELSE @) \ r.deleting]
    BY <1>3 DEF Stub, StubUpdate, At, Goto
  <1>7. /\ r.deleting \subseteq Gone /\ Live \subseteq Seqs /\ Live' = Live /\ Gone' = Gone
        /\ \A x \in Live : x \notin Gone
    BY <1>4 DEF SInv, Reported, Gone, Live
  <1>8. /\ \A x \in Live : x \in cache' <=> x \in cache \/ (r.buffer /\ x = s)
        /\ \A x \in Live, q \in Pids : x \in sended'[q] <=>
               x \in sended[q] \/ (x = s /\ q = p /\ (r.buffer \/ Remote(p)))
        /\ \A x \in Seqs, q \in Pids : x \in sended'[q] => x \in sended[q] \/ x = s
    BY <1>1, <1>6, <1>7
  <1>9. /\ \A u \in Threads \ {t} : pc'[u] = pc[u] /\ reply'[u] = reply[u]
        /\ pc'[t] = "surface"
        /\ reply'[t].seqs = r.seqs /\ reply'[t].deleting = r.deleting
        /\ ~reply'[t].buffer => ~r.buffer /\ ~(found /\ (~Remote(p) \/ s \notin sended[p]))
    BY <1>1, <1>5, <1>6 DEF ReplyValues
  <1>10. \A u \in Threads, x \in Seqs : Carries(u, x)' <=> Carries(u, x)
    BY <1>6, <1>9 DEF Carries, Flying
  <1>11. /\ Carries(t, s) /\ state[s] \in {"requested", "gone"}
         /\ \A x \in Seqs : Carries(t, x) => x = s
    BY <1>2, <1>6 DEF SInv, Reported, Carries, Flying
  <1>12. \A q \in Pids : /\ Disconnecting(q)' <=> Disconnecting(q)
                         /\ Emptying(q)' <=> Emptying(q)
    BY <1>6, <1>9 DEF Disconnecting, Emptying
  <1> HIDE DEF p, r
  <1>13. Reported'
    BY <1>4, <1>7, <1>9, <1>10 DEF SInv, Reported, r
  <1>14. OneHand'
    BY <1>4, <1>7, <1>10 DEF SInv, OneHand
  <1>15. Unknown'
    BY <1>4, <1>8, <1>11 DEF SInv, Unknown
  <1>16. OneProcess'
    BY <1>1, <1>4, <1>6, <1>7, <1>8, <1>9, <1>12 DEF SInv, OneProcess, p
  <1>17. Findable'
    BY <1>4, <1>7, <1>8, <1>9, <1>10, <1>11 DEF SInv, Findable, r
  <1>18. SentIsCached'
    <2>1. s \in Live => state[s] = "requested" /\ \A q \in Pids : s \notin held[q]
      BY <1>7, <1>11 DEF SInv, OneHand, Gone
    <2> QED
      BY <1>4, <1>7, <1>8, <1>12, <2>1 DEF SInv, SentIsCached, Steady, Remote
  <1>19. ReusedIsCached'
    <2> SUFFICES ASSUME NEW u \in Threads, NEW x \in Live, Carries(u, x), ~reply'[u].buffer,
                        x \notin attached, Proc[u] \notin dead,
                        ~Emptying(Proc[u]), ~Disconnecting(Proc[u]),
                        pc'[u] = "surface" \/ (Remote(Proc[u]) /\ x \in sended'[Proc[u]])
                 PROVE  x \in producerCache[Proc[u]] \/ x \in dropped[Proc[u]]
      BY <1>1, <1>4, <1>7, <1>10, <1>12 DEF ReusedIsCached, Remote
    <2>1. CASE u = t
      <3>1. x = s /\ ~r.buffer /\ ~(found /\ (~Remote(p) \/ s \notin sended[p]))
        BY <1>7, <1>9, <1>11, <2>1
      <3>2. \A v \in Threads : Carries(v, s) => v = t
        BY <1>11, <3>1 DEF SInv, OneHand
      <3>3. s \in cache
        BY <3>1, <3>2 DEF SInv, Findable, r
      <3>4. found = TRUE
        BY <1>5, <3>1, <3>3 DEF Promoted
      <3>5. Remote(p) /\ s \in sended[p]
        BY <3>1, <3>4
      <3> QED BY <2>1, <3>1, <3>5 DEF SInv, ReusedIsCached, p, r
    <2>2. CASE u # t
      <3>1. x # s
        BY <1>11, <2>2 DEF SInv, OneHand
      <3>2. pc'[u] = pc[u] /\ reply'[u] = reply[u]
        BY <1>9, <2>2
      <3>3. Remote(Proc[u]) /\ x \in sended'[Proc[u]] => x \in sended[Proc[u]]
        BY <1>1, <1>8, <3>1
      <3> QED BY <3>2, <3>3 DEF SInv, ReusedIsCached
    <2> QED BY <2>1, <2>2
  <1>20. Recorded'
    BY <1>1, <1>7, <1>8, <1>9, <1>10, <1>11 DEF SInv, Recorded, Remote, p
  <1> QED
    BY <1>13, <1>14, <1>15, <1>16, <1>17, <1>18, <1>19, <1>20 DEF SInv

-----------------------------------------------------------------------------
(* The surface takes the reply.                                            *)

LEMMA ReceiveStep ==
  ASSUME SInv, TypeOK', NEW t \in Threads, Receive(t) \/ Lookup(t)
  PROVE  SInv'
  <1> DEFINE p == Proc[t]
  <1>1. /\ reply \in [Threads -> ReplyValues] /\ pc \in [Threads -> Labels]
        /\ producerCache \in [Pids -> SUBSET Seqs] /\ held \in [Pids -> SUBSET Seqs]
        /\ dropped \in [Pids -> SUBSET Seqs] /\ \A u \in Threads : Proc[u] \in Pids
    BY ProcessAssumption DEF SInv, TypeOK, CallsOK, ClientOK
  <1>2. pc[t] = "surface"
    BY DEF Receive, Lookup, At
  <1>3. PICK s \in Seqs : reply[t].seqs = {s}
    BY <1>2 DEF SInv, TypeOK, CallsOK
  <1>4. UNCHANGED <<state, connected, cache, sended, dead, attached>>
    BY DEF Receive, Lookup, queue, stub
  <1>5. /\ held'[p] = held[p] \cup {s} /\ \A q \in Pids \ {p} : held'[q] = held[q]
    BY <1>1, <1>3 DEF Receive, Lookup
  <1>6. /\ pc'[t] = "idle" /\ reply'[t] = Nothing
        /\ \A u \in Threads \ {t} : pc'[u] = pc[u] /\ reply'[u] = reply[u]
    BY <1>1 DEF Receive, Lookup, Return, Goto
  <1>7. /\ reply[t].deleting \subseteq Gone /\ Live \subseteq Seqs /\ Live' = Live
        /\ Gone' = Gone /\ \A x \in Live : x \notin Gone
    BY <1>4 DEF SInv, Reported, Gone, Live
  <1>8. \A x \in Live, q \in Pids : /\ x \in producerCache[q] => x \in producerCache'[q]
                                    /\ x = s => s \in producerCache'[p]
                                    /\ x \in dropped[q] => x \in dropped'[q] \/ (x = s /\ q = p)
    BY <1>1, <1>3, <1>7 DEF Receive, Lookup
  <1>9. /\ Carries(t, s) /\ state[s] \in {"requested", "gone"}
    BY <1>2, <1>3 DEF SInv, Reported, Carries, Flying
  <1>10. \A u \in Threads, x \in Seqs : Carries(u, x)' <=> Carries(u, x) /\ u # t
    BY <1>6 DEF Carries, Flying
  <1>11. \A q \in Pids : /\ Disconnecting(q)' <=> Disconnecting(q)
                         /\ Emptying(q)' <=> Emptying(q)
    BY <1>2, <1>6 DEF Disconnecting, Emptying
  <1> HIDE DEF p
  <1>12. Reported'
    BY <1>4, <1>6, <1>7, <1>10 DEF SInv, Reported, Nothing
  <1>13. OneHand'
    <2>1. s \in Live => state[s] = "requested" /\ \A u \in Threads : Carries(u, s) => u = t
      BY <1>7, <1>9 DEF SInv, OneHand, Gone
    <2>2. s \in Live => \A q \in Pids : s \notin held[q]
      BY <1>9 DEF SInv, OneHand
    <2> QED BY <1>4, <1>5, <1>7, <1>10, <2>1, <2>2 DEF SInv, OneHand
  <1>14. Unknown'
    BY <1>4, <1>5, <1>9 DEF SInv, Unknown
  <1>15. OneProcess'
    BY <1>1, <1>4, <1>6, <1>7, <1>11 DEF SInv, OneProcess
  <1>16. Findable'
    BY <1>2, <1>4, <1>6, <1>7, <1>10 DEF SInv, Findable
  <1>17. SentIsCached'
    <2>1. connected = p
      BY <1>2 DEF SInv, OneProcess, p
    <2>2. \A q \in Pids : s \in Live /\ s \in sended[q] => q = p \/ Disconnecting(q)
      BY <2>1 DEF SInv, OneProcess
    <2> QED
      BY <1>4, <1>5, <1>7, <1>8, <1>11, <2>2 DEF SInv, SentIsCached, Steady, Remote
  <1>18. ReusedIsCached'
    BY <1>1, <1>4, <1>6, <1>7, <1>8, <1>10, <1>11 DEF SInv, ReusedIsCached, Remote
  <1>19. Recorded'
    BY <1>4, <1>6, <1>7, <1>10 DEF SInv, Recorded, Remote
  <1> QED
    BY <1>12, <1>13, <1>14, <1>15, <1>16, <1>17, <1>18, <1>19 DEF SInv

-----------------------------------------------------------------------------
(* A buffer is given back, queued, released, deleted or attached.          *)

LEMMA Changed ==
  ASSUME SInv, TypeOK', NEW s \in Live,
         UNCHANGED <<cache, sended, connected, attached, producerCache, dead, dropped, pc, reply>>,
         state'[s] \in {"free", "used", "gone"},
         \A x \in Seqs \ {s} : state'[x] = state[x],
         \A p \in Pids : held'[p] = held[p] \ {s},
         state[s] = "requested" => \E p \in Pids : s \in held[p]
  PROVE  SInv'
  <1>1. /\ Live \subseteq Seqs /\ Live' \subseteq Live /\ Gone \subseteq Gone'
        /\ \A x \in Live : x \notin Gone
    BY DEF Live, Gone
  <1>2. \A t \in Threads, x \in Seqs : Carries(t, x)' <=> Carries(t, x)
    BY DEF Carries, Flying
  <1>3. \A t \in Threads : ~Carries(t, s)
    <2>1. SUFFICES ASSUME NEW t \in Threads, Carries(t, s) PROVE FALSE
      OBVIOUS
    <2>2. state[s] = "requested"
      BY <1>1, <2>1 DEF SInv, Reported, Gone
    <2> QED BY <2>1, <2>2 DEF SInv, OneHand
  <1>4. \A p \in Pids : /\ Disconnecting(p)' <=> Disconnecting(p)
                        /\ Emptying(p)' <=> Emptying(p)
    BY DEF Disconnecting, Emptying
  <1>5. Reported'
    BY <1>1, <1>2, <1>3 DEF SInv, Reported
  <1>6. OneHand'
    BY <1>1, <1>2 DEF SInv, OneHand
  <1>7. Unknown'
    BY DEF SInv, Unknown
  <1>8. OneProcess'
    BY <1>1, <1>4 DEF SInv, OneProcess
  <1>9. Findable'
    BY <1>1, <1>2 DEF SInv, Findable
  <1>10. SentIsCached'
    BY <1>1, <1>4 DEF SInv, SentIsCached, Steady, Remote
  <1>11. ReusedIsCached'
    BY <1>1, <1>2, <1>4, ProcessAssumption DEF SInv, ReusedIsCached, Remote
  <1>12. Recorded'
    BY <1>1, <1>2 DEF SInv, Recorded, Remote
  <1> QED
    BY <1>5, <1>6, <1>7, <1>8, <1>9, <1>10, <1>11, <1>12 DEF SInv

LEMMA ChangeSteps ==
  ASSUME SInv, TypeOK', NEW s \in Seqs,
         \/ \E t \in Threads : CancelBuffer(t, s) \/ FlushBuffer(t, s)
         \/ Recycle(s) \/ DeleteFree(s)
  PROVE  SInv'
  <1>1. /\ state \in [Seqs -> States] /\ held \in [Pids -> SUBSET Seqs]
        /\ \A t \in Threads : Proc[t] \in Pids
    BY ProcessAssumption DEF SInv, TypeOK, QueueOK, ClientOK
  <1>2. s \in Live
    BY DEF CancelBuffer, FlushBuffer, Recycle, DeleteFree, Live
  <1>3. UNCHANGED <<cache, sended, connected, attached, producerCache, dead, dropped, pc, reply>>
    BY DEF CancelBuffer, FlushBuffer, Recycle, DeleteFree, GiveBack, stub, client
  <1>4. /\ state'[s] \in {"free", "used", "gone"}
        /\ \A x \in Seqs \ {s} : state'[x] = state[x]
    BY <1>1 DEF CancelBuffer, FlushBuffer, Recycle, DeleteFree, DeleteInCache
  <1>5. /\ \A p \in Pids : held'[p] = held[p] \ {s}
        /\ state[s] = "requested" => \E p \in Pids : s \in held[p]
    <2>1. ASSUME NEW t \in Threads, GiveBack(t, s)
          PROVE  (\A p \in Pids : held'[p] = held[p] \ {s}) /\ \E p \in Pids : s \in held[p]
      <3>1. s \in held[Proc[t]] /\ held' = [held EXCEPT ![Proc[t]] = @ \ {s}]
        BY <2>1 DEF GiveBack
      <3>2. \A p \in Pids : p # Proc[t] => s \notin held[p]
        BY <1>1, <1>2, <3>1 DEF SInv, OneHand
      <3> QED BY <1>1, <3>1, <3>2
    <2>2. ASSUME Recycle(s) \/ DeleteFree(s)
          PROVE  (\A p \in Pids : held'[p] = held[p] \ {s}) /\ state[s] # "requested"
      <3>1. state[s] \in {"used", "free"} /\ held' = held
        BY <2>2 DEF Recycle, DeleteFree, client
      <3>2. \A p \in Pids : s \notin held[p]
        BY <1>2, <3>1 DEF SInv, OneHand
      <3> QED BY <1>1, <3>1, <3>2
    <2> QED BY <2>1, <2>2 DEF CancelBuffer, FlushBuffer
  <1> QED
    BY <1>2, <1>3, <1>4, <1>5, Changed

LEMMA AttachStep ==
  ASSUME SInv, TypeOK', NEW t \in Threads, NEW s \in Seqs, AttachBuffer(t, s)
  PROVE  SInv'
  <1>1. /\ state \in [Seqs -> States] /\ held \in [Pids -> SUBSET Seqs]
        /\ \A u \in Threads : Proc[u] \in Pids
    BY ProcessAssumption DEF SInv, TypeOK, QueueOK, ClientOK
  <1>2. /\ state[s] = "none" /\ state'[s] = "attached"
        /\ \A x \in Seqs \ {s} : state'[x] = state[x]
        /\ held'[Proc[t]] = held[Proc[t]] \cup {s}
        /\ \A p \in Pids \ {Proc[t]} : held'[p] = held[p]
        /\ attached' = attached \cup {s}
        /\ UNCHANGED <<cache, sended, connected, producerCache, dead, dropped, pc, reply>>
    BY <1>1 DEF AttachBuffer, stub
  <1>3. Live' = Live \cup {s} /\ Gone' = Gone /\ Live \subseteq Seqs /\ s \notin Live
    BY <1>2 DEF Live, Gone
  <1>4. \A u \in Threads, x \in Seqs : Carries(u, x)' <=> Carries(u, x)
    BY <1>2 DEF Carries, Flying
  <1>5. /\ \A u \in Threads : ~Carries(u, s)
        /\ \A p \in Pids : s \notin held[p] /\ s \notin sended[p]
    BY <1>2 DEF SInv, Reported, Unknown
  <1>6. \A p \in Pids : /\ Disconnecting(p)' <=> Disconnecting(p)
                        /\ Emptying(p)' <=> Emptying(p)
    BY <1>2 DEF Disconnecting, Emptying
  <1>7. Reported'
    BY <1>2, <1>3, <1>4, <1>5 DEF SInv, Reported
  <1>8. OneHand'
    BY <1>2, <1>3, <1>4, <1>5 DEF SInv, OneHand
  <1>9. Unknown'
    BY <1>2, <1>3 DEF SInv, Unknown
  <1>10. OneProcess'
    BY <1>2, <1>3, <1>5, <1>6 DEF SInv, OneProcess
  <1>11. Findable'
    BY <1>2, <1>3, <1>4 DEF SInv, Findable
  <1>12. SentIsCached'
    BY <1>2, <1>3, <1>5, <1>6 DEF SInv, SentIsCached, Steady, Remote
  <1>13. ReusedIsCached'
    BY <1>1, <1>2, <1>3, <1>4, <1>6 DEF SInv, ReusedIsCached, Remote
  <1>14. Recorded'
    BY <1>2, <1>3, <1>4, <1>5 DEF SInv, Recorded, Remote
  <1> QED
    BY <1>7, <1>8, <1>9, <1>10, <1>11, <1>12, <1>13, <1>14 DEF SInv

-----------------------------------------------------------------------------
(* The queue is cleaned, and surfaces are destroyed.                       *)

LEMMA CleanCacheStep ==
  ASSUME SInv, TypeOK', NEW t \in Threads, CleanCache(t)
  PROVE  SInv'
  <1> DEFINE p == Proc[t]
  <1>1. /\ pc \in [Threads -> Labels] /\ producerCache \in [Pids -> SUBSET Seqs]
        /\ \A u \in Threads : Proc[u] \in Pids
    BY ProcessAssumption DEF SInv, TypeOK, CallsOK, ClientOK
  <1>2. /\ pc[t] = "idle" /\ pc'[t] = "clean"
        /\ \A u \in Threads \ {t} : pc'[u] = pc[u]
        /\ \A q \in Pids \ {p} : producerCache'[q] = producerCache[q]
        /\ UNCHANGED <<state, cache, sended, connected, attached, dead, held, dropped, reply>>
    BY <1>1 DEF CleanCache, Idle, At, Goto, queue, stub
  <1>3. Live' = Live /\ Gone' = Gone /\ Live \subseteq Seqs
    BY <1>2 DEF Live, Gone
  <1>4. \A u \in Threads, x \in Seqs : Carries(u, x)' <=> Carries(u, x)
    BY <1>2 DEF Carries, Flying
  <1>5. /\ Emptying(p)'
        /\ \A q \in Pids : /\ Disconnecting(q)' <=> Disconnecting(q)
                           /\ Emptying(q) => Emptying(q)'
    BY <1>2 DEF Disconnecting, Emptying
  <1> HIDE DEF p
  <1>6. Reported'
    BY <1>2, <1>3, <1>4 DEF SInv, Reported
  <1>7. OneHand'
    BY <1>2, <1>3, <1>4 DEF SInv, OneHand
  <1>8. Unknown'
    BY <1>2 DEF SInv, Unknown
  <1>9. OneProcess'
    BY <1>2, <1>3, <1>5 DEF SInv, OneProcess
  <1>10. Findable'
    BY <1>2, <1>3, <1>4 DEF SInv, Findable
  <1>11. SentIsCached'
    BY <1>2, <1>3, <1>5 DEF SInv, SentIsCached, Steady, Remote
  <1>12. ReusedIsCached'
    BY <1>1, <1>2, <1>3, <1>4, <1>5 DEF SInv, ReusedIsCached, Remote, Flying, Carries
  <1>13. Recorded'
    BY <1>2, <1>3, <1>4 DEF SInv, Recorded, Remote, Carries, Flying
  <1> QED
    BY <1>6, <1>7, <1>8, <1>9, <1>10, <1>11, <1>12, <1>13 DEF SInv

\* A clean queue has no buffer left that an invariant could be broken for.
LEMMA QueueCleansStep ==
  ASSUME SInv, TypeOK', NEW t \in Threads, QueueCleans(t)
  PROVE  SInv'
  <1>0. /\ pc \in [Threads -> Labels] /\ UNCHANGED <<connected, sended, reply>>
        /\ held' = [p \in Pids |-> {}] /\ attached' = {}
        /\ pc' = [pc EXCEPT ![t] = "idle"] /\ CleanQueue
    BY DEF SInv, TypeOK, CallsOK, QueueCleans, stub, Goto
  <1>1. /\ Live' = {} /\ Gone \subseteq Gone'
        /\ \A s \in Seqs : state'[s] = "none" <=> state[s] = "none"
        /\ \A s \in Seqs : state[s] \in {"requested", "gone"} => state'[s] = "gone"
        /\ \A s \in Seqs : state'[s] # "attached"
    BY <1>0 DEF CleanQueue, Live, Gone
  <1>2. \A u \in Threads, s \in Seqs : Carries(u, s)' => Carries(u, s)
    BY <1>0 DEF Carries, Flying
  <1>3. Reported'
    BY <1>0, <1>1, <1>2 DEF SInv, Reported
  <1>4. Unknown'
    BY <1>0, <1>1 DEF SInv, Unknown
  <1>5. OneProcess'
    BY <1>0, <1>1 DEF SInv, OneProcess
  <1>6. OneHand' /\ Findable' /\ Recorded' /\ SentIsCached' /\ ReusedIsCached'
    BY <1>1 DEF OneHand, Findable, Recorded, SentIsCached, ReusedIsCached
  <1> QED
    BY <1>3, <1>4, <1>5, <1>6 DEF SInv

\* A process that asks for its cache to be cleaned while another one is connected: what
\* it had been sent is gone, or is cleaned when its old surface has disconnected.
LEMMA NotCleaned ==
  ASSUME SInv, TypeOK', NEW t \in Threads, NEW p \in Pids, Proc[t] = p,
         connected \notin {NoPid, p},
         UNCHANGED <<state, cache, sended, connected, attached, dead, dropped>>,
         \A q \in Pids : held'[q] \subseteq held[q] /\ (q # p => producerCache'[q] = producerCache[q]),
         pc[t] \in {"idle", "clean"}, pc'[t] = "idle",
         reply'[t].deleting \subseteq reply[t].deleting,
         \A u \in Threads \ {t} : pc'[u] = pc[u] /\ reply'[u] = reply[u]
  PROVE  SInv'
  <1>1. Live' = Live /\ Gone' = Gone /\ Live \subseteq Seqs
    BY DEF Live, Gone
  <1>2. \A u \in Threads, x \in Seqs : Carries(u, x)' <=> Carries(u, x) /\ u # t
    BY DEF Carries, Flying
  <1>3. /\ \A q \in Pids : Disconnecting(q)' <=> Disconnecting(q)
        /\ \A q \in Pids \ {p} : Emptying(q)' <=> Emptying(q)
    BY DEF Disconnecting, Emptying
  <1>4. \A u \in Threads : Proc[u] \in Pids
    BY ProcessAssumption
  <1>5. \A s \in Live : s \in sended[p] => Disconnecting(p)
    BY DEF SInv, OneProcess
  <1>6. \A u \in Threads, s \in Seqs : Carries(u, s) => Proc[u] # p
    BY DEF SInv, OneProcess, Carries, Flying
  <1>7. Reported'
    BY <1>1, <1>2 DEF SInv, Reported
  <1>8. OneHand'
    BY <1>1, <1>2 DEF SInv, OneHand
  <1>9. Unknown'
    BY DEF SInv, Unknown
  <1>10. OneProcess'
    BY <1>1, <1>3, <1>4 DEF SInv, OneProcess
  <1>11. Findable'
    BY <1>1, <1>2 DEF SInv, Findable
  <1>12. SentIsCached'
    BY <1>1, <1>3, <1>5 DEF SInv, SentIsCached, Steady, Remote
  <1>13. ReusedIsCached'
    BY <1>1, <1>2, <1>3, <1>4, <1>6 DEF SInv, ReusedIsCached, Remote
  <1>14. Recorded'
    BY <1>1, <1>2 DEF SInv, Recorded, Remote, Carries, Flying
  <1> QED
    BY <1>7, <1>8, <1>9, <1>10, <1>11, <1>12, <1>13, <1>14 DEF SInv

\* From a surface that is being cleaned until its queue is clean, nothing is asked of
\* the cache.
LEMMA StubCleansStep ==
  ASSUME SInv, TypeOK', NEW t \in Threads, StubCleans(t)
  PROVE  SInv'
  <1>1. /\ reply \in [Threads -> ReplyValues] /\ pc \in [Threads -> Labels]
        /\ held \in [Pids -> SUBSET Seqs] /\ \A u \in Threads : Proc[u] \in Pids
    BY ProcessAssumption DEF SInv, TypeOK, CallsOK, ClientOK
  <1>2. /\ pc[t] \in {"idle", "clean"}
        /\ UNCHANGED <<state, cache, sended, connected, attached, dead, dropped, producerCache, held>>
    BY DEF StubCleans, At, Idle, queue, stub, client
  <1>3. CASE connected \notin {NoPid, Proc[t]}
    <2>1. /\ pc'[t] = "idle" /\ reply'[t].deleting \subseteq reply[t].deleting
          /\ \A u \in Threads \ {t} : pc'[u] = pc[u] /\ reply'[u] = reply[u]
      BY <1>1, <1>3 DEF StubCleans, Return, Goto, Nothing
    <2> QED BY <1>1, <1>2, <1>3, <2>1, NotCleaned
  <1>4. CASE connected \in {NoPid, Proc[t]}
    <2>1. /\ pc'[t] = "cleanQueue" /\ reply' = reply
          /\ \A u \in Threads \ {t} : pc'[u] = pc[u]
      BY <1>1, <1>4 DEF StubCleans, Goto
    <2>2. Live' = Live /\ Gone' = Gone /\ Live \subseteq Seqs
      BY <1>2 DEF Live, Gone
    <2>3. \A u \in Threads, x \in Seqs : Carries(u, x)' <=> Carries(u, x)
      BY <1>2, <2>1 DEF Carries, Flying
    <2>4. /\ Disconnecting(Proc[t])'
          /\ \A q \in Pids : /\ Disconnecting(q) => Disconnecting(q)'
                             /\ q # Proc[t] => (Emptying(q)' <=> Emptying(q))
      BY <1>2, <2>1 DEF Disconnecting, Emptying
    <2>5. Reported'
      BY <1>2, <2>1, <2>2, <2>3 DEF SInv, Reported
    <2>6. OneHand'
      BY <1>2, <2>2, <2>3 DEF SInv, OneHand
    <2>7. Unknown'
      BY <1>2 DEF SInv, Unknown
    <2>8. OneProcess'
      BY <1>2, <2>1, <2>2, <2>4 DEF SInv, OneProcess
    <2>9. Findable'
      BY <1>2, <2>1, <2>2, <2>3 DEF SInv, Findable
    <2>10. SentIsCached'
      BY <1>2, <2>2, <2>4 DEF SInv, SentIsCached, Steady, Remote
    <2>11. ReusedIsCached'
      BY <1>1, <1>2, <2>1, <2>2, <2>3, <2>4 DEF SInv, ReusedIsCached, Remote, Carries, Flying
    <2>12. Recorded'
      BY <1>2, <2>1, <2>2, <2>3 DEF SInv, Recorded, Remote, Carries, Flying
    <2> QED
      BY <2>5, <2>6, <2>7, <2>8, <2>9, <2>10, <2>11, <2>12 DEF SInv
  <1> QED
    BY <1>3, <1>4

\* A clean or a disconnect that is lost: what the stub has sent and the surface no
\* longer has counts as dropped.
LEMMA Lost ==
  ASSUME SInv, TypeOK', NEW t \in Threads, NEW p \in Pids, Proc[t] = p, Remote(p),
         UNCHANGED <<state, cache, sended, connected, attached, dead>>,
         \A q \in Pids : held'[q] \subseteq held[q],
         \A q \in Pids \ {p} : producerCache'[q] = producerCache[q] /\ dropped'[q] = dropped[q],
         \A s \in sended[p] : s \in producerCache'[p] \/ s \in dropped'[p],
         \/ producerCache'[p] = producerCache[p]
         \/ \A u \in Threads : Proc[u] = p => pc[u] = "idle",
         dropped[p] \subseteq dropped'[p],
         pc[t] \in {"idle", "clean"}, pc'[t] = "idle",
         reply'[t].deleting \subseteq reply[t].deleting,
         \A u \in Threads \ {t} : pc'[u] = pc[u] /\ reply'[u] = reply[u]
  PROVE  SInv'
  <1>1. Live' = Live /\ Gone' = Gone /\ Live \subseteq Seqs
    BY DEF Live, Gone
  <1>2. \A u \in Threads, x \in Seqs : Carries(u, x)' <=> Carries(u, x) /\ u # t
    BY DEF Carries, Flying
  <1>3. /\ \A q \in Pids : Disconnecting(q)' <=> Disconnecting(q)
        /\ \A q \in Pids \ {p} : Emptying(q)' <=> Emptying(q)
    BY DEF Disconnecting, Emptying
  <1>4. \A u \in Threads : Proc[u] \in Pids
    BY ProcessAssumption
  <1>5. Reported'
    BY <1>1, <1>2 DEF SInv, Reported
  <1>6. OneHand'
    BY <1>1, <1>2 DEF SInv, OneHand
  <1>7. Unknown'
    BY DEF SInv, Unknown
  <1>8. OneProcess'
    BY <1>1, <1>3, <1>4 DEF SInv, OneProcess
  <1>9. Findable'
    BY <1>1, <1>2 DEF SInv, Findable
  <1>10. Recorded'
    BY <1>1, <1>2 DEF SInv, Recorded, Remote, Carries, Flying
  <1>11. SentIsCached'
    BY <1>1, <1>3 DEF SInv, SentIsCached, Steady, Remote
  <1>12. ReusedIsCached'
    <2> SUFFICES ASSUME NEW u \in Threads, NEW s \in Live, Carries(u, s), u # t,
                        ~reply[u].buffer, s \notin attached, Proc[u] \notin dead,
                        ~Emptying(Proc[u])', ~Disconnecting(Proc[u]),
                        pc[u] = "surface" \/ (Remote(Proc[u]) /\ s \in sended[Proc[u]])
                 PROVE  s \in producerCache'[Proc[u]] \/ s \in dropped'[Proc[u]]
      BY <1>1, <1>2, <1>3, <1>4 DEF ReusedIsCached, Remote
    <2>1. CASE Proc[u] # p
      BY <1>3, <1>4, <2>1 DEF SInv, ReusedIsCached
    <2>2. CASE Proc[u] = p
      BY <2>2 DEF SInv, Recorded
    <2> QED BY <2>1, <2>2
  <1> QED
    BY <1>5, <1>6, <1>7, <1>8, <1>9, <1>10, <1>11, <1>12 DEF SInv

LEMMA LostSteps ==
  ASSUME SInv, TypeOK', NEW t \in Threads, CleanLost(t) \/ DisconnectLost(t)
  PROVE  SInv'
  <1>1. /\ reply \in [Threads -> ReplyValues] /\ pc \in [Threads -> Labels]
        /\ held \in [Pids -> SUBSET Seqs] /\ producerCache \in [Pids -> SUBSET Seqs]
        /\ dropped \in [Pids -> SUBSET Seqs] /\ \A u \in Threads : Proc[u] \in Pids
    BY ProcessAssumption DEF SInv, TypeOK, CallsOK, ClientOK
  <1>2. CASE CleanLost(t)
    <2>1. /\ UNCHANGED <<state, cache, sended, connected, attached, dead, held, producerCache>>
          /\ dropped' = [dropped EXCEPT ![Proc[t]] =
                             @ \cup (sended[Proc[t]] \ producerCache[Proc[t]])]
          /\ pc[t] = "clean" /\ Remote(Proc[t]) /\ Return(t)
      BY <1>2 DEF CleanLost, At, queue, stub
    <2>2. /\ pc'[t] = "idle" /\ reply'[t].deleting \subseteq reply[t].deleting
          /\ \A u \in Threads \ {t} : pc'[u] = pc[u] /\ reply'[u] = reply[u]
      BY <1>1, <2>1 DEF Return, Goto, Nothing
    <2> QED BY <1>1, <2>1, <2>2, Lost
  <1>3. CASE DisconnectLost(t)
    <2>1. /\ UNCHANGED <<state, cache, sended, connected, attached, dead, pc, reply>>
          /\ dropped' = [dropped EXCEPT ![Proc[t]] = @ \cup sended[Proc[t]]]
          /\ producerCache' = [producerCache EXCEPT ![Proc[t]] = {}]
          /\ held' = [held EXCEPT ![Proc[t]] = {}]
          /\ pc[t] = "idle" /\ \A u \in Threads : Proc[u] = Proc[t] => pc[u] = "idle"
          /\ Remote(Proc[t])
      BY <1>3 DEF DisconnectLost, SurfaceEnds, Idle, At, ThreadsOf, queue
    <2> QED BY <1>1, <2>1, Lost
  <1> QED
    BY <1>2, <1>3

LEMMA DestroyStep ==
  ASSUME SInv, TypeOK', NEW t \in Threads, DestroySurface(t)
  PROVE  SInv'
  <1> DEFINE p == Proc[t]
  <1>1. /\ pc \in [Threads -> Labels] /\ producerCache \in [Pids -> SUBSET Seqs]
        /\ held \in [Pids -> SUBSET Seqs] /\ \A u \in Threads : Proc[u] \in Pids
        /\ NoPid \notin Pids
    BY ProcessAssumption DEF SInv, TypeOK, CallsOK, ClientOK
  <1>2. /\ pc[t] = "idle" /\ \A u \in Threads : Proc[u] = p => pc[u] = "idle"
        /\ \A q \in Pids : held'[q] \subseteq held[q]
        /\ \A q \in Pids \ {p} : producerCache'[q] = producerCache[q]
        /\ UNCHANGED <<state, cache, sended, attached, dead, dropped, reply>>
    BY <1>1 DEF DestroySurface, SurfaceEnds, Idle, At, ThreadsOf, queue
  <1>3. CASE connected \notin {NoPid, p}
    <2>1. UNCHANGED <<connected, pc>>
      BY <1>3 DEF DestroySurface
    <2> QED BY <1>1, <1>2, <1>3, <2>1, NotCleaned
  <1>4. CASE connected \in {NoPid, p}
    <2>1. /\ connected' = NoPid /\ pc'[t] = "cleanQueue"
          /\ \A u \in Threads \ {t} : pc'[u] = pc[u]
      BY <1>1, <1>4 DEF DestroySurface, Goto
    <2>2. Live' = Live /\ Gone' = Gone /\ Live \subseteq Seqs
      BY <1>2 DEF Live, Gone
    <2>3. \A u \in Threads : pc[u] \notin {"queue", "stub", "surface"}
      BY <1>1, <1>2, <1>4 DEF SInv, OneProcess
    <2>4. \A u \in Threads : pc'[u] \notin {"queue", "stub", "surface"}
      BY <2>1, <2>3
    <2>5. \A u \in Threads, x \in Seqs : ~Carries(u, x)' /\ ~Carries(u, x)
      BY <2>3, <2>4 DEF Carries, Flying
    <2>6. /\ Disconnecting(p)'
          /\ \A q \in Pids : /\ Disconnecting(q) => Disconnecting(q)'
                             /\ q # p => (Emptying(q)' <=> Emptying(q))
      BY <1>2, <2>1 DEF Disconnecting, Emptying
    <2> HIDE DEF p
    <2>7. Reported'
      BY <1>2, <2>2, <2>5 DEF SInv, Reported
    <2>8. OneHand'
      BY <1>2, <2>2, <2>5 DEF SInv, OneHand
    <2>9. Unknown'
      BY <1>2 DEF SInv, Unknown
    <2>10. OneProcess'
      <3>1. \A q \in Pids, s \in Live : s \in sended[q] => q = p \/ Disconnecting(q)
        BY <1>1, <1>4 DEF SInv, OneProcess
      <3> QED BY <1>2, <2>2, <2>4, <2>6, <3>1 DEF OneProcess
    <2>11. Findable'
      BY <1>2, <2>2, <2>5 DEF SInv, Findable
    <2>12. SentIsCached'
      BY <1>2, <2>2, <2>6 DEF SInv, SentIsCached, Steady, Remote
    <2>13. ReusedIsCached' /\ Recorded'
      BY <2>2, <2>5 DEF ReusedIsCached, Recorded
    <2> QED
      BY <2>7, <2>8, <2>9, <2>10, <2>11, <2>12, <2>13 DEF SInv
  <1> QED
    BY <1>3, <1>4

-----------------------------------------------------------------------------
(* The theorem.                                                            *)

LEMMA SInvStep == SInv /\ [Next]_vars => SInv'
  <1> SUFFICES ASSUME SInv, [Next]_vars PROVE SInv'
    OBVIOUS
  <1>1. TypeOK'
    BY TypeStep DEF SInv
  <1>2. ASSUME NEW t \in Threads, Request(t) PROVE SInv'
    BY <1>1, <1>2, QuietSteps, AnswerSteps, StubStep, ReceiveStep DEF Request
  <1>3. ASSUME NEW t \in Threads, Others(t) PROVE SInv'
    BY <1>1, <1>3, QuietSteps, ChangeSteps, AttachStep, CleanCacheStep, StubCleansStep,
       LostSteps, DestroyStep, QueueCleansStep DEF Others
  <1>4. ASSUME NEW s \in Seqs, Recycle(s) \/ DeleteFree(s) PROVE SInv'
    BY <1>1, <1>4, ChangeSteps
  <1>5. CASE UNCHANGED vars \/ \E p \in Pids : CreateSurface(p) \/ Die(p)
    BY <1>1, <1>5, ProcessSteps
  <1> QED
    BY <1>2, <1>3, <1>4, <1>5 DEF Next

\* When the stub sends only a sequence number (its sendeds say that the process has the
\* buffer), bufferProducerCache_ of the surface that asked holds that buffer, whatever
\* replies were lost, processes died or buffers were deleted in between.  Excepted are
\* an attached buffer, one deleted meanwhile, a surface being cleaned, and a buffer that
\* the surface dropped when CleanCache or Disconnect failed with GSERROR_BINDER, until it
\* is sent again or the queue is cleaned.
THEOREM LeftOutCached == Spec => []LeftOutIsCached
  BY SInvInit, SInvStep, SInvLeftOut, PTL DEF Spec
=============================================================================
