---------------------- MODULE BufferQueueClientsProofs ----------------------
(***************************************************************************)
(* Proofs about BufferQueue with clients that keep its contract, for any   *)
(* threads, configs and bounds: who owns a buffer, how the cache grows,    *)
(* and that the queue implements BufferExchange.                           *)
(***************************************************************************)
EXTENDS BufferQueueClients, BufferQueueProofs, FiniteSetTheorems

-----------------------------------------------------------------------------
(* Lists without repetitions, and what is on them.                         *)

On(q, s) == \E i \in 1..Len(q) : q[i] = s

LEMMA AppendOn ==
  ASSUME NEW S, NEW q \in Seq(S), NEW s \in S, Distinct(q), ~On(q, s)
  PROVE  /\ Distinct(Append(q, s))
         /\ \A r : On(Append(q, s), r) <=> On(q, r) \/ r = s
  <1>1. /\ Len(q) \in Nat /\ Len(Append(q, s)) = Len(q) + 1
        /\ \A i \in 1..Len(q) : Append(q, s)[i] = q[i]
        /\ Append(q, s)[Len(q) + 1] = s
    BY AppendProperties, LenProperties
  <1> QED
    BY <1>1 DEF Distinct, On

LEMMA RemoveOn ==
  ASSUME NEW S, NEW q \in Seq(S), NEW i \in 1..Len(q), Distinct(q)
  PROVE  /\ Distinct(RemoveAt(q, i))
         /\ \A r : On(RemoveAt(q, i), r) <=> On(q, r) /\ r # q[i]
  <1> DEFINE p == RemoveAt(q, i)
  <1>1. /\ Len(q) \in Nat /\ Len(p) = Len(q) - 1
        /\ \A j \in 1..(Len(q) - 1) : p[j] = IF j < i THEN q[j] ELSE q[j + 1]
    BY RemoveAtType, LenProperties DEF RemoveAt
  <1> HIDE DEF p
  <1>2. \A j, k \in 1..Len(p) : p[j] = p[k] => j = k
    BY <1>1 DEF Distinct
  <1>3. ASSUME NEW r, On(p, r) PROVE On(q, r) /\ r # q[i]
    <2>1. PICK j \in 1..Len(p) : p[j] = r
      BY <1>3 DEF On
    <2>2. CASE j < i
      BY <1>1, <2>1, <2>2 DEF On, Distinct
    <2>3. CASE ~(j < i)
      BY <1>1, <2>1, <2>3 DEF On, Distinct
    <2> QED BY <2>2, <2>3
  <1>4. ASSUME NEW r, On(q, r), r # q[i] PROVE On(p, r)
    <2>1. PICK j \in 1..Len(q) : q[j] = r
      BY <1>4 DEF On
    <2>2. CASE j < i
      BY <1>1, <2>1, <2>2 DEF On
    <2>3. CASE j > i
      <3>1. j - 1 \in 1..Len(p) /\ p[j - 1] = r
        BY <1>1, <2>1, <2>3
      <3> QED BY <3>1 DEF On
    <2> QED BY <1>4, <2>1, <2>2, <2>3
  <1> QED
    BY <1>2, <1>3, <1>4 DEF Distinct, p

LEMMA DropOn ==
  ASSUME NEW S, NEW q \in Seq(S), NEW n \in 0..Len(q), Distinct(q)
  PROVE  /\ Distinct(SubSeq(q, n + 1, Len(q)))
         /\ \A r : On(SubSeq(q, n + 1, Len(q)), r)
                      <=> On(q, r) /\ r \notin {q[i] : i \in 1..n}
  <1> DEFINE p == SubSeq(q, n + 1, Len(q))
  <1>1. Len(q) \in Nat /\ n \in Nat /\ \A i \in (n + 1)..Len(q) : q[i] \in S
    BY LenProperties, ElementOfSeq
  <1>2. /\ Len(p) = Len(q) - n
        /\ \A i \in 1..(Len(q) - n) : p[i] = q[n + i]
    <2>1. /\ Len(p) = IF n + 1 <= Len(q) THEN Len(q) - (n + 1) + 1 ELSE 0
          /\ \A i \in 1..(Len(q) - (n + 1) + 1) : p[i] = q[(n + 1) + i - 1]
      BY <1>1, SubSeqProperties
    <2> QED BY <1>1, <2>1
  <1> HIDE DEF p
  <1>3. \A j, k \in 1..Len(p) : p[j] = p[k] => j = k
    BY <1>1, <1>2 DEF Distinct
  <1>4. ASSUME NEW r, On(p, r) PROVE On(q, r) /\ r \notin {q[i] : i \in 1..n}
    <2>1. PICK j \in 1..Len(p) : p[j] = r
      BY <1>4 DEF On
    <2>2. n + j \in 1..Len(q) /\ q[n + j] = r
      BY <1>1, <1>2, <2>1
    <2>3. \A i \in 1..n : q[i] # r
      BY <1>1, <2>1, <2>2 DEF Distinct
    <2> QED BY <2>2, <2>3 DEF On
  <1>5. ASSUME NEW r, On(q, r), r \notin {q[i] : i \in 1..n} PROVE On(p, r)
    <2>1. PICK j \in 1..Len(q) : q[j] = r
      BY <1>5 DEF On
    <2>2. j > n
      BY <1>1, <1>5, <2>1
    <2>3. j - n \in 1..Len(p) /\ p[j - n] = r
      BY <1>1, <1>2, <2>1, <2>2
    <2> QED BY <2>3 DEF On
  <1> QED
    BY <1>3, <1>4, <1>5 DEF Distinct, p

LEMMA TailOn ==
  ASSUME NEW S, NEW q \in Seq(S), q # << >>, Distinct(q)
  PROVE  /\ Distinct(Tail(q)) /\ On(q, Head(q))
         /\ \A r : On(Tail(q), r) <=> On(q, r) /\ r # Head(q)
  <1>1. Len(q) \in Nat /\ Len(q) >= 1 /\ Head(q) = q[1]
    BY EmptySeq, LenProperties
  <1>2. Tail(q) = SubSeq(q, 1 + 1, Len(q))
    BY TailIsSubSeq
  <1>3. {q[i] : i \in 1..1} = {q[1]}
    OBVIOUS
  <1>4. 1 \in 0..Len(q)
    BY <1>1
  <1>5. On(q, Head(q))
    BY <1>1 DEF On
  <1>6. /\ Distinct(SubSeq(q, 1 + 1, Len(q)))
        /\ \A r : On(SubSeq(q, 1 + 1, Len(q)), r)
                     <=> On(q, r) /\ r \notin {q[i] : i \in 1..1}
    BY <1>4, DropOn
  <1> QED
    BY <1>1, <1>2, <1>3, <1>5, <1>6, Zenon

-----------------------------------------------------------------------------
(* The clients only make calls that the queue allows to anybody.           *)

\* The client variables have their types.
CTypeOK ==
    /\ TypeOK
    /\ held \in [Threads -> SUBSET Seqs]
    /\ detached \subseteq Seqs
    /\ signalled \in 0..MaxSignals /\ silent \in 0..MaxSilent

LEMMA ThreadRoles == Producers \subseteq Threads /\ Consumers \subseteq Threads
  BY RoleAssumption

LEMMA RoleSteps ==
  ASSUME CTypeOK, NEW t \in Threads
  PROVE  /\ ProducerStep(t) \/ ConsumerStep(t) => Step(t)
         /\ Request(t) \/ Cancel(t) \/ Flush(t) \/ Clean(t) => Call(t)
         /\ Acquire(t) \/ Release(t) \/ Detach(t) \/ Attach(t) => Call(t)
         /\ Resize(t) => Call(t) \/ Step(t)
         /\ AcquireNothing(t) => UNCHANGED vars
  <1>1. held[t] \subseteq Seqs /\ detached \subseteq Seqs
    BY DEF CTypeOK
  <1>2. ProducerStep(t) => Step(t)
    BY DEF ProducerStep, RequestReturns, FlushReadsListener, FlushCancelled, Flushed,
           FlushFindsListener, Signal, Step
  <1>3. ConsumerStep(t) => Step(t)
    BY DEF ConsumerStep, ReleaseSteps, Released, Step
  <1>4. Request(t) \/ Cancel(t) \/ Flush(t) \/ Clean(t) => Call(t)
    BY <1>1 DEF Request, Cancel, Flush, Clean, Call
  <1>5. Acquire(t) \/ Release(t) \/ Detach(t) \/ Attach(t) => Call(t)
    BY <1>1 DEF Acquire, Release, Detach, Attach, Call
  <1>6. Resize(t) => Call(t) \/ Step(t)
    BY DEF Resize, Call, Step
  <1>7. AcquireNothing(t) => UNCHANGED vars
    BY DEF AcquireNothing
  <1> QED
    BY <1>2, <1>3, <1>4, <1>5, <1>6, <1>7

LEMMA CNextIsNext == ASSUME CTypeOK, [CNext]_cvars PROVE [Next]_vars
  <1>1. SetHooks => Next
    BY DEF SetHooks, Next, Hooks
  <1>2. CASE UNCHANGED cvars
    BY <1>2 DEF cvars
  <1>3. ASSUME NEW t \in Threads,
               \/ ProducerStep(t) \/ ConsumerStep(t) \/ Request(t) \/ Cancel(t)
               \/ Flush(t) \/ Clean(t) \/ Acquire(t) \/ AcquireNothing(t)
               \/ Release(t) \/ Detach(t) \/ Attach(t) \/ Resize(t)
        PROVE  [Next]_vars
    BY <1>3, RoleSteps, Zenon DEF Next
  <1> QED
    BY <1>1, <1>2, <1>3, ThreadRoles, Zenon DEF CNext

-----------------------------------------------------------------------------
(* Types.                                                                  *)

HandsOK == held \in [Threads -> SUBSET Seqs] /\ detached \subseteq Seqs
CountsOK == signalled \in 0..MaxSignals /\ silent \in 0..MaxSilent

LEMMA TakeGive ==
  ASSUME HandsOK, NEW t \in Threads, NEW S \in SUBSET Seqs, Take(t, S) \/ Give(t, S)
  PROVE  held' \in [Threads -> SUBSET Seqs]
  BY DEF HandsOK, Take, Give

LEMMA ProducerHands ==
  ASSUME TypeOK, HandsOK, CountsOK, NEW t \in Threads,
         ProducerStep(t) \/ Request(t) \/ Cancel(t) \/ Flush(t) \/ Clean(t)
  PROVE  HandsOK' /\ CountsOK'
  <1> USE RoleAssumption
  <1>1. Granted \in SUBSET Seqs
    BY DEF Granted
  <1>2. CASE Request(t) \/ Flush(t) \/ FlushReadsListener(t)
    BY <1>2 DEF Request, Flush, FlushReadsListener, clients, HandsOK, CountsOK
  <1>3. CASE RequestReturns(t)
    BY <1>1, <1>3, TakeGive DEF RequestReturns, HandsOK, CountsOK
  <1>4. CASE Cancel(t)
    BY <1>4 DEF Cancel, Give, HandsOK, CountsOK
  <1>5. CASE FlushCancelled(t)
    BY <1>5 DEF FlushCancelled, Give, HandsOK, CountsOK
  <1>6. CASE Flushed(t)
    <2>1. HandsOK'
      BY <1>6 DEF Flushed, Give, HandsOK
    <2>2. /\ silent' = silent \/ (silent < MaxSilent /\ silent' = silent + 1)
          /\ signalled' = signalled
      BY <1>6, Zenon DEF Flushed
    <2>3. CountsOK'
      BY <2>2 DEF CountsOK
    <2> QED BY <2>1, <2>3
  <1>7. CASE FlushFindsListener(t)
    BY <1>7 DEF FlushFindsListener, HandsOK, CountsOK
  <1>8. CASE Signal(t)
    BY <1>8 DEF Signal, HandsOK, CountsOK
  <1>9. CASE Clean(t)
    BY <1>9 DEF Clean, HandsOK, CountsOK
  <1> QED
    BY <1>2, <1>3, <1>4, <1>5, <1>6, <1>7, <1>8, <1>9 DEF ProducerStep

LEMMA ConsumerHands ==
  ASSUME TypeOK, HandsOK, CountsOK, NEW t \in Threads,
         \/ ConsumerStep(t) \/ Acquire(t) \/ AcquireNothing(t) \/ Release(t)
         \/ Detach(t) \/ Attach(t) \/ Resize(t)
  PROVE  HandsOK' /\ CountsOK'
  <1> USE RoleAssumption
  <1>1. CASE Release(t) \/ ReleaseSteps(t) \/ Resize(t)
    BY <1>1 DEF Release, ReleaseSteps, Resize, clients, HandsOK, CountsOK
  <1>2. CASE Released(t)
    BY <1>2 DEF Released, Give, HandsOK, CountsOK
  <1>3. CASE Acquire(t)
    BY <1>3 DEF Acquire, Take, HandsOK, CountsOK
  <1>4. CASE AcquireNothing(t)
    BY <1>4 DEF AcquireNothing, HandsOK, CountsOK
  <1>5. CASE Detach(t)
    BY <1>5 DEF Detach, Give, HandsOK, CountsOK
  <1>6. CASE Attach(t)
    BY <1>6 DEF Attach, Take, HandsOK, CountsOK
  <1> QED
    BY <1>1, <1>2, <1>3, <1>4, <1>5, <1>6 DEF ConsumerStep

LEMMA ClientTypeInit == CInit => CTypeOK
  BY InitType, RoleAssumption DEF CInit, CTypeOK

LEMMA ClientTypeStep == CTypeOK /\ [CNext]_cvars => CTypeOK'
  <1> SUFFICES ASSUME CTypeOK, [CNext]_cvars PROVE CTypeOK'
    OBVIOUS
  <1>1. TypeOK'
    BY CNextIsNext, NextType DEF CTypeOK
  <1>2. TypeOK /\ HandsOK /\ CountsOK
    BY DEF CTypeOK, HandsOK, CountsOK
  <1>3. ASSUME SetHooks \/ UNCHANGED cvars PROVE HandsOK' /\ CountsOK'
    BY <1>2, <1>3 DEF SetHooks, cvars, clients, HandsOK, CountsOK
  <1>4. HandsOK' /\ CountsOK'
    BY <1>2, <1>3, ThreadRoles, ProducerHands, ConsumerHands, Zenon DEF CNext
  <1> QED
    BY <1>1, <1>4 DEF CTypeOK, HandsOK, CountsOK

-----------------------------------------------------------------------------
(* The inductive invariant behind Ownership.  It adds what threads between *)
(* two locked sections rely on, that every entry has a buffer, and that    *)
(* neither a new number nor a detached buffer is an entry.                 *)

Out == {"requested", "acquired", "attached"}

Apart == \A t, u \in Threads : t # u => held[t] \cap held[u] = {}
OutIsHeld == \A s \in Seqs : state[s] \in Out <=> \E t \in Threads : s \in held[t]
FreeMatches ==
    Distinct(freeList) /\ \A s \in Seqs : On(freeList, s) <=> state[s] = "released"
DirtyMatches ==
    Distinct(dirtyList) /\ \A s \in Seqs : On(dirtyList, s) <=> state[s] = "flushed"
RealEntries == \A s \in Seqs : state[s] # "none" => config[s] # NoConfig /\ s < nextSeq
DetachedGone == \A s \in detached : state[s] = "none" /\ s < nextSeq

\* The buffer of a FlushBuffer or ReleaseBuffer in progress is still the caller's, in the
\* state that was checked.
InHandOf(t) ==
    /\ pc[t] \in {"flushChecked", "flushCancel", "doFlush"} =>
           seq[t] \in held[t] /\ state[seq[t]] \in {"requested", "attached"}
    /\ pc[t] \in {"relChecked", "doRelease"} => seq[t] \in held[t]
    /\ pc[t] \in {"relChecked", "relCallback", "doRelease"} /\ seq[t] \in held[t] =>
           state[seq[t]] \in {"acquired", "attached"}
InHand == \A t \in Threads : InHandOf(t)

Hands == Apart /\ OutIsHeld /\ InHand
Store == FreeMatches /\ DirtyMatches /\ RealEntries /\ DetachedGone /\ ~crashed
OwnInv == CTypeOK /\ Hands /\ Store

LEMMA OwnInvOwnership == OwnInv => Ownership
  <1> SUFFICES ASSUME OwnInv PROVE Ownership
    OBVIOUS
  <1> USE DEF OwnInv, Hands, Store
  <1>1. freeList \in Seq(Seqs) /\ dirtyList \in Seq(Seqs)
    BY DEF CTypeOK, TypeOK, StoreOK
  <1>2. \A i \in 1..Len(freeList) : freeList[i] \in Seqs
    BY <1>1, ElementOfSeq
  <1>3. \A i \in 1..Len(dirtyList) : dirtyList[i] \in Seqs
    BY <1>1, ElementOfSeq
  <1>4. Elems(freeList) = {s \in Seqs : state[s] = "released"}
    BY <1>2 DEF FreeMatches, Elems, On
  <1>5. Elems(dirtyList) = {s \in Seqs : state[s] = "flushed"}
    BY <1>3 DEF DirtyMatches, Elems, On
  <1>6. {s \in Seqs : state[s] \in {"requested", "acquired", "attached"}}
           = UNION {held[t] : t \in Threads}
    <2>1. \A t \in Threads : held[t] \subseteq Seqs
      BY DEF CTypeOK
    <2> QED BY <2>1 DEF OutIsHeld, Out
  <1> QED
    BY <1>4, <1>5, <1>6 DEF Ownership, Apart, FreeMatches, DirtyMatches

LEMMA OwnInvInit == CInit => OwnInv
  <1> SUFFICES ASSUME CInit PROVE OwnInv
    OBVIOUS
  <1>1. Hands
    BY DEF CInit, Init, Hands, Apart, OutIsHeld, InHand, InHandOf, Out
  <1>2. Store
    BY DEF CInit, Init, Store, FreeMatches, DirtyMatches, RealEntries, DetachedGone,
           Distinct, On
  <1> QED
    BY <1>1, <1>2, ClientTypeInit DEF OwnInv

\* A thread that is not concerned keeps its buffer.
LEMMA InHandKept ==
  ASSUME NEW u, InHandOf(u), pc'[u] = pc[u], seq'[u] = seq[u], held'[u] = held[u],
         \A s \in held[u] : state'[s] = state[s]
  PROVE  InHandOf(u)'
  BY DEF InHandOf

\* Thread t moves the buffers of D, which nobody else has.
LEMMA MoveHands ==
  ASSUME OwnInv, CTypeOK', NEW t \in Threads, NEW D \in SUBSET Seqs,
         \A u \in Threads \ {t} : /\ pc'[u] = pc[u] /\ seq'[u] = seq[u]
                                  /\ held'[u] = held[u] /\ held[u] \cap D = {},
         \A s \in Seqs \ D : state'[s] = state[s] /\ (s \in held'[t] <=> s \in held[t]),
         \A s \in D : state'[s] \in Out <=> s \in held'[t],
         InHandOf(t)'
  PROVE  Hands'
  <1> USE DEF OwnInv, Hands
  <1>1. \A u \in Threads : held[u] \subseteq Seqs /\ held'[u] \subseteq Seqs
    BY DEF CTypeOK
  <1>2. Apart'
    BY <1>1 DEF Apart
  <1>3. OutIsHeld'
    BY <1>1 DEF OutIsHeld
  <1>4. \A u \in Threads \ {t} : \A s \in held[u] : state'[s] = state[s]
    BY <1>1
  <1>5. InHand'
    BY <1>4, InHandKept DEF InHand
  <1> QED
    BY <1>2, <1>3, <1>5

-----------------------------------------------------------------------------
(* What a step does to the buffers: nothing, or one of these.              *)

kept == <<config, nextSeq, detached, crashed>>

Still == UNCHANGED <<state, freeList, dirtyList, held, kept>> /\ InHand'

ToFree(t, s) ==
    /\ s \in held[t] /\ Give(t, {s})
    /\ state' = [state EXCEPT ![s] = "released"]
    /\ freeList' = Append(freeList, s)
    /\ UNCHANGED <<dirtyList, kept>>

ToDirty(t, s) ==
    /\ s \in held[t] /\ Give(t, {s})
    /\ state' = [state EXCEPT ![s] = "flushed"]
    /\ dirtyList' = Append(dirtyList, s)
    /\ UNCHANGED <<freeList, kept>>

ToNowhere(t, s) ==
    /\ s \in held[t] /\ Give(t, {s})
    /\ DeleteBufferInCache({s})
    /\ detached' \in {detached, detached \cup {s}}
    /\ UNCHANGED <<freeList, dirtyList, nextSeq, crashed>>

FromDirty(t, s) ==
    /\ dirtyList # << >> /\ s = Head(dirtyList) /\ Take(t, {s})
    /\ state' = [state EXCEPT ![s] = "acquired"]
    /\ dirtyList' = Tail(dirtyList)
    /\ UNCHANGED <<freeList, kept>>

FromFree(t, i) ==
    /\ i \in 1..Len(freeList) /\ Take(t, {freeList[i]})
    /\ state' = [state EXCEPT ![freeList[i]] = "requested"]
    /\ freeList' = RemoveAt(freeList, i)
    /\ UNCHANGED <<dirtyList, kept>>

\* A buffer that is not an entry becomes one.
FromNowhere(t, s, st) ==
    /\ st \in {"requested", "attached"} /\ state[s] = "none" /\ Take(t, {s})
    /\ GetUsedSize < queueSize
    /\ state' = [state EXCEPT ![s] = st]
    /\ \E c \in Configs : config' = [config EXCEPT ![s] = c]
    /\ \/ s = nextSeq /\ nextSeq' = nextSeq + 1 /\ UNCHANGED detached
       \/ s \in detached /\ detached' = detached \ {s} /\ UNCHANGED nextSeq
    /\ UNCHANGED <<freeList, dirtyList, crashed>>

\* A free buffer makes way for a new one.
Replaced(t, i) ==
    /\ i \in 1..Len(freeList) /\ Take(t, {nextSeq}) /\ nextSeq <= MaxSeq
    /\ state' = [state EXCEPT ![freeList[i]] = "none", ![nextSeq] = "requested"]
    /\ config' = [config EXCEPT ![freeList[i]] = NoConfig, ![nextSeq] = want[t]]
    /\ want[t] \in Configs
    /\ freeList' = RemoveAt(freeList, i)
    /\ nextSeq' = nextSeq + 1
    /\ UNCHANGED <<dirtyList, detached, crashed>>

DropFree(i) ==
    /\ i \in 1..Len(freeList)
    /\ state' = [state EXCEPT ![freeList[i]] = "none"]
    /\ config' = [config EXCEPT ![freeList[i]] = NoConfig]
    /\ freeList' = RemoveAt(freeList, i)
    /\ UNCHANGED <<dirtyList, held, nextSeq, detached, crashed>>

DropOldest(count) == DeleteBuffers(count) /\ UNCHANGED <<held, nextSeq, detached, crashed>>

Empties ==
    /\ DeleteBufferInCache(Seqs)
    /\ freeList' = << >> /\ dirtyList' = << >>
    /\ held' = [u \in Threads |-> {}]
    /\ InHand'
    /\ UNCHANGED <<nextSeq, detached, crashed>>

\* Only thread t moves, to a place where it relies on nothing.
Alone(t) ==
    /\ \A u \in Threads \ {t} : pc'[u] = pc[u] /\ seq'[u] = seq[u]
    /\ InHandOf(t)'

EffectOf(t) ==
    \/ \E s \in Seqs : \/ ToFree(t, s) \/ ToDirty(t, s) \/ ToNowhere(t, s) \/ FromDirty(t, s)
                       \/ \E st \in {"requested", "attached"} : FromNowhere(t, s, st)
    \/ \E i \in 1..Len(freeList) : FromFree(t, i) \/ Replaced(t, i) \/ DropFree(i)
    \/ \E count \in Nat : DropOldest(count)

Effect == Still \/ Empties \/ \E t \in Threads : Alone(t) /\ EffectOf(t)

\* A thread that goes on, or returns, without touching the buffers.
LEMMA StillStep ==
  ASSUME OwnInv, NEW t \in Threads,
         UNCHANGED <<state, freeList, dirtyList, held, kept>>, Alone(t)
  PROVE  Still
  BY DEF Still, Alone, OwnInv, Hands, InHand, InHandOf

LEMMA ReturnAlone ==
  ASSUME CTypeOK, NEW t \in Threads, Return(t)
  PROVE  Alone(t)
  BY DEF Return, Alone, InHandOf, CTypeOK, TypeOK, ThreadsOK

-----------------------------------------------------------------------------
(* Every step of the clients has one of these effects.                     *)

LEMMA FreeEntries ==
  ASSUME OwnInv, NEW i \in 1..Len(freeList)
  PROVE  /\ freeList[i] \in Seqs /\ state[freeList[i]] = "released"
         /\ config[freeList[i]] # NoConfig /\ freeList[i] < nextSeq
  <1>1. freeList[i] \in Seqs
    BY ElementOfSeq DEF OwnInv, CTypeOK, TypeOK, StoreOK
  <1>2. On(freeList, freeList[i])
    BY DEF On
  <1> QED
    BY <1>1, <1>2 DEF OwnInv, Store, FreeMatches, RealEntries

\* So operator[] inserts nothing on the way through the free list.
LEMMA NothingTouched ==
  ASSUME OwnInv, NEW i \in 1..Len(freeList), NEW c
  PROVE  Touch(Scanned(i, c)) = state
  <1>1. Len(freeList) \in Nat
    BY LenProperties DEF OwnInv, CTypeOK, TypeOK, StoreOK
  <1>2. \A s \in Scanned(i, c) : state[s] = "released"
    BY <1>1, FreeEntries DEF Scanned, Elems
  <1>3. state \in [Seqs -> States]
    BY DEF OwnInv, CTypeOK, TypeOK, StoreOK
  <1> QED
    BY <1>2, <1>3 DEF Touch

LEMMA NewSeq ==
  ASSUME OwnInv, nextSeq <= MaxSeq
  PROVE  nextSeq \in Seqs /\ state[nextSeq] = "none"
  <1>1. nextSeq \in Seqs /\ ~(nextSeq < nextSeq)
    BY SizeAssumption DEF OwnInv, CTypeOK, TypeOK, StoreOK, Seqs
  <1> QED
    BY <1>1 DEF OwnInv, Store, RealEntries

LEMMA GrantedOne ==
  ASSUME CTypeOK, NEW s \in Seqs, state[s] # "requested", state'[s] = "requested",
         \A r \in Seqs \ {s} : state'[r] = "requested" => state[r] = "requested"
  PROVE  Granted = {s}
  BY DEF Granted

LEMMA GrantedNone ==
  ASSUME \A r \in Seqs : state'[r] = "requested" => state[r] = "requested"
  PROVE  Granted = {}
  BY DEF Granted

LEMMA TakeNothing == ASSUME CTypeOK, NEW t, Take(t, {}) PROVE held' = held
  BY DEF Take, CTypeOK

LEMMA ReuseEffect ==
  ASSUME OwnInv, NEW t \in Threads, pc[t] \in {"reqLock", "reqWait"},
         NEW i \in 1..Len(freeList), ReuseBuffer(t, i), Take(t, Granted),
         UNCHANGED detached
  PROVE  Alone(t) /\ (FromFree(t, i) \/ Replaced(t, i) \/ DropFree(i))
  <1> DEFINE s == freeList[i]
  <1>1. /\ s \in Seqs /\ state[s] = "released" /\ ~IsNull(s) /\ CTypeOK
        /\ Touch(Scanned(i, want[t])) = state
    BY FreeEntries, NothingTouched DEF OwnInv, IsNull
  <1>2. state \in [Seqs -> States] /\ want[t] \in Configs
    BY <1>1 DEF CTypeOK, TypeOK, StoreOK, ThreadsOK, ArgsOK
  <1>3. ASSUME Resume(t) PROVE Alone(t)
    BY <1>1, <1>3, ReturnAlone DEF Resume
  <1>4. CASE ReuseSame(t, i)
    <2>1. state' = [state EXCEPT ![s] = "requested"]
      BY <1>1, <1>4 DEF ReuseSame
    <2>2. Granted = {s}
      BY <1>1, <1>2, <2>1, GrantedOne
    <2> QED
      BY <1>3, <1>4, <2>1, <2>2 DEF ReuseSame, FromFree, kept
  <1>5. CASE ReuseRealloc(t, i)
    <2>1. nextSeq \in Seqs /\ state[nextSeq] = "none" /\ nextSeq # s /\ nextSeq <= MaxSeq
      BY <1>1, <1>5, NewSeq DEF ReuseRealloc
    <2>2. state' = [state EXCEPT ![s] = "none", ![nextSeq] = "requested"]
      BY <1>1, <1>5 DEF ReuseRealloc
    <2>3. Granted = {nextSeq}
      BY <1>1, <1>2, <2>1, <2>2, GrantedOne
    <2> QED
      BY <1>2, <1>3, <1>5, <2>1, <2>2, <2>3 DEF ReuseRealloc, Replaced
  <1>6. CASE ReuseReallocFails(t, i)
    <2>1. state' = [state EXCEPT ![s] = "none"]
      BY <1>1, <1>6 DEF ReuseReallocFails
    <2>2. held' = held
      BY <1>1, <1>2, <2>1, GrantedNone, TakeNothing
    <2> QED
      BY <1>3, <1>6, <2>1, <2>2 DEF ReuseReallocFails, DropFree
  <1> QED
    BY <1>1, <1>4, <1>5, <1>6 DEF ReuseBuffer, ReuseNull

LEMMA AllocEffect ==
  ASSUME OwnInv, NEW t \in Threads, pc[t] \in {"reqLock", "reqWait"},
         AllocBuffer(t), Take(t, Granted), UNCHANGED detached, GetUsedSize < queueSize
  PROVE  Alone(t) /\ nextSeq \in Seqs /\ FromNowhere(t, nextSeq, "requested")
  <1>1. nextSeq \in Seqs /\ state[nextSeq] = "none" /\ CTypeOK
    BY NewSeq DEF AllocBuffer, OwnInv
  <1>2. state \in [Seqs -> States] /\ want[t] \in Configs
    BY <1>1 DEF CTypeOK, TypeOK, StoreOK, ThreadsOK, ArgsOK
  <1>3. state' = [state EXCEPT ![nextSeq] = "requested"]
    BY DEF AllocBuffer, PutElement
  <1>4. Granted = {nextSeq}
    BY <1>1, <1>2, <1>3, GrantedOne
  <1>5. Alone(t)
    BY <1>1, ReturnAlone DEF AllocBuffer, Resume
  <1> QED
    BY <1>1, <1>2, <1>3, <1>4, <1>5 DEF AllocBuffer, PutElement, FromNowhere, lists, fatal

LEMMA RequestEffect ==
  ASSUME OwnInv, NEW t \in Threads, RequestReturns(t)
  PROVE  Effect
  <1>1. Take(t, Granted) /\ UNCHANGED detached /\ CTypeOK
    BY DEF RequestReturns, OwnInv
  <1>2. ASSUME UNCHANGED state PROVE held' = held
    BY <1>1, <1>2, GrantedNone, TakeNothing
  <1>3. ASSUME RequestFails(t) PROVE Still
    BY <1>1, <1>2, <1>3, ReturnAlone, StillStep
       DEF RequestFails, Resume, entries, lists, fatal, kept
  <1>4. CASE WaitAgain(t)
    <2>1. Alone(t)
      BY <1>1, <1>4 DEF WaitAgain, At, Alone, calls, InHandOf
    <2> QED
      BY <1>1, <1>2, <1>4, <2>1, StillStep
         DEF WaitAgain, entries, lists, fatal, kept, Effect
  <1>5. ASSUME pc[t] \in {"reqLock", "reqWait"},
               \/ \E i \in 1..Len(freeList) : ReuseBuffer(t, i)
               \/ GetUsedSize < queueSize /\ AllocBuffer(t)
               \/ RequestFails(t)
        PROVE  Effect
    BY <1>1, <1>3, <1>5, ReuseEffect, AllocEffect DEF Effect, EffectOf
  <1>6. CASE RequestLocked(t)
    <2>1. CASE /\ Goto(t, "reqWait")
               /\ UNCHANGED <<entries, lists, queueSize, nextSeq, hooks, notified, fatal>>
      <3>1. Alone(t)
        BY <1>1, <2>1 DEF Goto, Alone, InHandOf, calls, CTypeOK, TypeOK, ThreadsOK
      <3> QED
        BY <1>1, <1>2, <2>1, <3>1, StillStep DEF entries, lists, fatal, kept, Effect
    <2> QED
      BY <1>5, <1>6, <2>1, Zenon DEF RequestLocked, At
  <1>7. CASE RequestRetry(t)
    BY <1>5, <1>7, Zenon DEF RequestRetry, At
  <1> QED
    BY <1>4, <1>6, <1>7 DEF RequestReturns

LEMMA GotoAlone ==
  ASSUME CTypeOK, NEW t \in Threads, NEW label, Goto(t, label),
         label \in {"flushDone", "flushCall", "sizeDelete", "sizeWrite"}
  PROVE  Alone(t)
  BY DEF Goto, Alone, InHandOf, calls, CTypeOK, TypeOK, ThreadsOK

LEMMA CancelMoves ==
  ASSUME NEW t \in Threads, NEW s \in held[t], CancelEffect(s), Give(t, {s}),
         UNCHANGED <<nextSeq, detached, crashed>>
  PROVE  ToFree(t, s)
  BY DEF CancelEffect, ToFree, kept

LEMMA ProducerEffect ==
  ASSUME OwnInv, NEW t \in Threads,
         ProducerStep(t) \/ Request(t) \/ Cancel(t) \/ Flush(t)
  PROVE  Effect
  <1>1. CTypeOK /\ InHandOf(t) /\ held[t] \subseteq Seqs
    BY DEF OwnInv, Hands, InHand, CTypeOK
  <1> USE DEF Effect
  <1>2. CASE Request(t)
    <2>1. PICK c \in Configs : RequestBuffer(t, c)
      BY <1>2 DEF Request
    <2>2. Alone(t)
      BY <1>1, <2>1 DEF RequestBuffer, Alone, InHandOf, CTypeOK, TypeOK, ThreadsOK
    <2> QED
      BY <1>2, <2>1, <2>2, StillStep
         DEF Request, RequestBuffer, clients, entries, lists, fatal, kept
  <1>3. CASE RequestReturns(t)
    BY <1>3, RequestEffect
  <1>4. CASE Cancel(t)
    <2>1. PICK s \in held[t] : CancelBuffer(t, s) /\ Give(t, {s})
      BY <1>4 DEF Cancel
    <2>2. Alone(t)
      BY <2>1 DEF CancelBuffer, At, Alone, InHandOf, calls
    <2>3. ToFree(t, s)
      BY <1>4, <2>1, CancelMoves DEF Cancel, CancelBuffer, fatal
    <2> QED
      BY <1>1, <2>1, <2>2, <2>3 DEF EffectOf
  <1>5. CASE Flush(t)
    <2>1. PICK s \in held[t] : FlushBuffer(t, s)
      BY <1>5 DEF Flush
    <2>2. Alone(t)
      <3>1. /\ pc'[t] = "flushChecked" /\ seq'[t] = s /\ held'[t] = held[t]
            /\ state'[s] \in {"requested", "attached"}
        BY <1>1, <1>5, <2>1
           DEF Flush, clients, FlushBuffer, entries, CTypeOK, TypeOK, ThreadsOK
      <3>2. InHandOf(t)'
        BY <2>1, <3>1 DEF InHandOf
      <3> QED
        BY <1>1, <2>1, <3>2 DEF FlushBuffer, Alone, CTypeOK, TypeOK, ThreadsOK
    <2> QED
      BY <1>5, <2>1, <2>2, StillStep
         DEF Flush, FlushBuffer, clients, entries, lists, fatal, kept
  <1>6. CASE FlushReadsListener(t)
    <2>1. /\ pc'[t] \in {"doFlush", "flushCancel"} /\ pc[t] = "flushChecked"
          /\ \A u \in Threads \ {t} : pc'[u] = pc[u]
          /\ seq' = seq /\ held' = held /\ state' = state
      BY <1>1, <1>6 DEF FlushReadsListener, FlushListener, Goto, At, calls, entries, clients,
                        CTypeOK, TypeOK, ThreadsOK
    <2>2. Alone(t)
      BY <1>1, <2>1 DEF Alone, InHandOf
    <2> QED
      BY <1>6, <2>2, StillStep
         DEF FlushReadsListener, FlushListener, clients, entries, lists, fatal, kept
  <1>7. CASE FlushCancelled(t)
    <2> DEFINE s == seq[t]
    <2>1. s \in held[t] /\ FlushCancel(t) /\ Alone(t)
      BY <1>1, <1>7, ReturnAlone DEF FlushCancelled, FlushCancel, At, InHandOf
    <2>2. CASE CancelEffect(s)
      <3>1. {r \in {seq[t]} : state[r] = "requested"} = {s}
        BY <2>2 DEF CancelEffect
      <3>2. ToFree(t, s)
        BY <1>7, <2>1, <2>2, <3>1, CancelMoves DEF FlushCancelled, FlushCancel, fatal
      <3> QED
        BY <1>1, <2>1, <3>2 DEF EffectOf
    <2>3. CASE state[s] # "requested" /\ UNCHANGED <<entries, lists, notified>>
      <3>1. {r \in {seq[t]} : state[r] = "requested"} = {}
        BY <2>3
      <3>2. held' = held
        BY <1>1, <1>7, <3>1 DEF FlushCancelled, Give, CTypeOK
      <3> QED
        BY <1>7, <2>1, <2>3, <3>2, StillStep
           DEF FlushCancelled, FlushCancel, entries, lists, fatal, kept
    <2> QED
      BY <2>1, <2>2, <2>3 DEF FlushCancel
  <1>8. CASE Flushed(t)
    <2> DEFINE s == seq[t]
    <2>1. PICK ok \in BOOLEAN : DoFlushBuffer(t, ok)
      BY <1>8 DEF Flushed
    <2>2. /\ s \in held[t] /\ s \in Seqs /\ Give(t, {s}) /\ UNCHANGED detached
          /\ state[s] # "none"
      BY <1>1, <1>8, <2>1 DEF Flushed, DoFlushBuffer, At, InHandOf
    <2>3. ~IsNull(s)
      BY <2>2 DEF OwnInv, Store, RealEntries, IsNull
    <2>4. CASE FlushDeletes(t)
      BY <1>1, <2>1, <2>2, <2>4, GotoAlone
         DEF DoFlushBuffer, FlushDeletes, ToNowhere, EffectOf
    <2>5. CASE FlushQueues(t, ok)
      <3>1. Alone(t)
        BY <1>1, <2>5, GotoAlone, ReturnAlone DEF FlushQueues
      <3>2. ToDirty(t, s)
        BY <2>1, <2>2, <2>5 DEF DoFlushBuffer, FlushQueues, ToDirty, kept
      <3> QED
        BY <2>2, <3>1, <3>2 DEF EffectOf
    <2> QED
      BY <2>1, <2>3, <2>4, <2>5 DEF DoFlushBuffer, FlushNull
  <1>9. CASE FlushFindsListener(t)
    <2>1. Alone(t)
      BY <1>1, <1>9, GotoAlone, ReturnAlone DEF FlushFindsListener, FlushNotify
    <2> QED
      BY <1>9, <2>1, StillStep
         DEF FlushFindsListener, FlushNotify, entries, lists, fatal, kept
  <1>10. CASE Signal(t)
    <2>1. Alone(t)
      BY <1>1, <1>10, ReturnAlone DEF Signal, OnBufferAvailable
    <2> QED
      BY <1>10, <2>1, StillStep DEF Signal, OnBufferAvailable, entries, lists, fatal, kept
  <1> QED
    BY <1>2, <1>3, <1>4, <1>5, <1>6, <1>7, <1>8, <1>9, <1>10 DEF ProducerStep

LEMMA DirtyHead ==
  ASSUME OwnInv, dirtyList # << >>
  PROVE  /\ Head(dirtyList) \in Seqs /\ state[Head(dirtyList)] = "flushed"
         /\ ~IsNull(Head(dirtyList))
  <1>1. dirtyList \in Seq(Seqs) /\ Distinct(dirtyList)
    BY DEF OwnInv, CTypeOK, TypeOK, StoreOK, Store, DirtyMatches
  <1>2. Head(dirtyList) \in Seqs /\ On(dirtyList, Head(dirtyList))
    BY <1>1, HeadTailProperties, TailOn
  <1> QED
    BY <1>2 DEF OwnInv, Store, DirtyMatches, RealEntries, IsNull

LEMMA ConsumerEffect ==
  ASSUME OwnInv, NEW t \in Threads,
         ConsumerStep(t) \/ Acquire(t) \/ AcquireNothing(t) \/ Release(t)
  PROVE  Effect
  <1>1. CTypeOK /\ InHandOf(t) /\ held[t] \subseteq Seqs
    BY DEF OwnInv, Hands, InHand, CTypeOK
  <1> USE DEF Effect
  <1>2. CASE Release(t)
    <2>1. PICK s \in held[t] : ReleaseBuffer(t, s)
      BY <1>2 DEF Release
    <2>2. Alone(t)
      <3>1. /\ pc'[t] = "relChecked" /\ seq'[t] = s /\ held'[t] = held[t]
            /\ state'[s] \in {"acquired", "attached"}
        BY <1>1, <1>2, <2>1
           DEF Release, clients, ReleaseBuffer, entries, CTypeOK, TypeOK, ThreadsOK
      <3>2. InHandOf(t)'
        BY <2>1, <3>1 DEF InHandOf
      <3> QED
        BY <1>1, <2>1, <3>2 DEF ReleaseBuffer, Alone, CTypeOK, TypeOK, ThreadsOK
    <2> QED
      BY <1>2, <2>1, <2>2, StillStep
         DEF Release, ReleaseBuffer, clients, entries, lists, fatal, kept
  <1>3. CASE ReleaseListener(t) /\ UNCHANGED clients
    <2>1. /\ pc'[t] \in {"relCallback", "doRelease"} /\ pc[t] = "relChecked"
          /\ \A u \in Threads \ {t} : pc'[u] = pc[u]
          /\ seq' = seq /\ held' = held /\ state' = state
      BY <1>1, <1>3 DEF ReleaseListener, Goto, At, calls, entries, clients,
                        CTypeOK, TypeOK, ThreadsOK
    <2>2. Alone(t)
      BY <1>1, <2>1 DEF Alone, InHandOf
    <2> QED
      BY <1>3, <2>2, StillStep DEF ReleaseListener, clients, entries, lists, fatal, kept
  <1>4. CASE ReleaseTaken(t) /\ UNCHANGED clients
    <2>1. Alone(t)
      BY <1>1, <1>4, ReturnAlone DEF ReleaseTaken
    <2> QED
      BY <1>4, <2>1, StillStep DEF ReleaseTaken, clients, entries, lists, fatal, kept
  <1>5. CASE seq[t] \in held[t] /\ ReleaseDeclined(t) /\ UNCHANGED clients
    <2>1. /\ pc'[t] = "doRelease" /\ pc[t] = "relCallback"
          /\ \A u \in Threads \ {t} : pc'[u] = pc[u]
          /\ seq' = seq /\ held' = held /\ state' = state
      BY <1>1, <1>5 DEF ReleaseDeclined, Goto, At, calls, entries, clients,
                        CTypeOK, TypeOK, ThreadsOK
    <2>2. Alone(t)
      BY <1>1, <1>5, <2>1 DEF Alone, InHandOf
    <2> QED
      BY <1>5, <2>2, StillStep DEF ReleaseDeclined, clients, entries, lists, fatal, kept
  <1>6. CASE Released(t)
    <2> DEFINE s == seq[t]
    <2>1. /\ s \in held[t] /\ s \in Seqs /\ Give(t, {s}) /\ UNCHANGED detached
          /\ Alone(t) /\ DoReleaseBuffer(t)
      BY <1>1, <1>6, ReturnAlone DEF Released, DoReleaseBuffer, At, InHandOf
    <2>2. CASE ReleaseFrees(t)
      BY <2>1, <2>2 DEF DoReleaseBuffer, ReleaseFrees, ToFree, EffectOf, kept, fatal
    <2>3. CASE ReleaseDeletes(t)
      BY <2>1, <2>3 DEF DoReleaseBuffer, ReleaseDeletes, ToNowhere, EffectOf, fatal
    <2> QED
      BY <2>1, <2>2, <2>3 DEF DoReleaseBuffer
  <1>7. CASE Acquire(t)
    <2>1. CASE AcquireNull(t)
      BY <2>1, DirtyHead DEF AcquireNull
    <2>2. ASSUME NEW s \in Seqs, AcquireBuffer(t, s), Take(t, {s}) PROVE Effect
      <3>1. Alone(t)
        BY <2>2 DEF AcquireBuffer, At, Alone, InHandOf, calls
      <3>2. FromDirty(t, s)
        BY <1>7, <2>2 DEF Acquire, AcquireBuffer, AcquireEffect, FromDirty, kept, fatal
      <3> QED
        BY <2>2, <3>1, <3>2 DEF EffectOf
    <2> QED
      BY <1>7, <2>1, <2>2 DEF Acquire
  <1>8. CASE AcquireNothing(t)
    BY <1>1, <1>8, StillStep DEF AcquireNothing, vars, Alone, InHandOf, kept
  <1> QED
    BY <1>2, <1>3, <1>4, <1>5, <1>6, <1>7, <1>8 DEF ConsumerStep, ReleaseSteps

LEMMA EitherEffect ==
  ASSUME OwnInv, NEW t \in Threads, Detach(t) \/ Attach(t) \/ Resize(t)
  PROVE  Effect
  <1>1. CTypeOK /\ InHandOf(t) /\ held[t] \subseteq Seqs /\ detached \subseteq Seqs
    BY DEF OwnInv, Hands, InHand, CTypeOK
  <1> USE DEF Effect
  <1>2. CASE Detach(t)
    <2>1. PICK s \in held[t] : /\ pc[t] = "idle" \/ seq[t] = s
                               /\ DetachBuffer(t, s) /\ Give(t, {s})
                               /\ detached' = detached \cup {s}
      BY <1>2 DEF Detach
    <2>2. held'[t] = held[t] \ {s}
      BY <1>1, <2>1 DEF Give, CTypeOK
    <2>3. Alone(t)
      BY <2>1, <2>2 DEF DetachBuffer, Alone, InHandOf, calls
    <2>4. ToNowhere(t, s)
      BY <2>1 DEF DetachBuffer, ToNowhere, lists, fatal
    <2> QED
      BY <1>1, <2>3, <2>4 DEF EffectOf
  <1>3. CASE Attach(t)
    <2>1. PICK s \in detached, c \in Configs : /\ AttachBuffer(t, s, c) /\ Take(t, {s})
                                               /\ detached' = detached \ {s}
      BY <1>3 DEF Attach
    <2>2. s \in Seqs /\ state[s] = "none"
      BY <1>1 DEF OwnInv, Store, DetachedGone
    <2>3. Alone(t)
      BY <2>1 DEF AttachBuffer, At, Alone, InHandOf, calls
    <2>4. FromNowhere(t, s, "attached")
      BY <2>1, <2>2 DEF AttachBuffer, PutElement, FromNowhere, lists, fatal
    <2> QED
      BY <2>2, <2>3, <2>4 DEF EffectOf
  <1>4. CASE SizeDelete(t) /\ UNCHANGED clients
    <2>1. sizing[t][2] \in Nat
      BY <1>1, SizeAssumption DEF CTypeOK, TypeOK, ThreadsOK
    <2>2. Alone(t)
      BY <1>1, <1>4, GotoAlone DEF SizeDelete
    <2>3. DropOldest(sizing[t][2])
      BY <1>4 DEF SizeDelete, DropOldest, clients, fatal
    <2> QED
      BY <2>1, <2>2, <2>3 DEF EffectOf
  <1>5. CASE SizeWrite(t) /\ UNCHANGED clients
    <2>1. Alone(t)
      BY <1>1, <1>5, ReturnAlone DEF SizeWrite
    <2> QED
      BY <1>5, <2>1, StillStep DEF SizeWrite, clients, entries, lists, fatal, kept
  <1>6. ASSUME NEW n \in 0..(MaxQueueSize + 1), SetQueueSize(t, n), UNCHANGED clients
        PROVE  Effect
    <2>1. Alone(t)
      BY <1>1, <1>6 DEF SetQueueSize, Alone, InHandOf, CTypeOK, TypeOK, ThreadsOK
    <2> QED
      BY <1>6, <2>1, StillStep DEF SetQueueSize, clients, entries, lists, fatal, kept
  <1> QED
    BY <1>2, <1>3, <1>4, <1>5, <1>6 DEF Resize

LEMMA StepEffect == ASSUME OwnInv, [CNext]_cvars PROVE Effect
  <1>1. CASE SetHooks
    <2>1. UNCHANGED <<state, freeList, dirtyList, held, kept, pc, seq>>
      BY <1>1 DEF SetHooks, RegisterConsumerListener, UnregisterConsumerListener,
                  RegisterReleaseListener, entries, lists, fatal, clients, kept, calls
    <2> QED
      BY <2>1 DEF Effect, Still, OwnInv, Hands, InHand, InHandOf
  <1>2. CASE UNCHANGED cvars
    BY <1>2 DEF cvars, vars, clients, Effect, Still, OwnInv, Hands, InHand, InHandOf, kept
  <1>3. ASSUME NEW t \in Threads, Clean(t) PROVE Effect
    <2>1. InHand'
      BY <1>3 DEF Clean, CleanCache, InHand, InHandOf, calls
    <2> QED
      BY <1>3, <2>1 DEF Clean, CleanCache, Empties, Effect, fatal
  <1> QED
    BY <1>1, <1>2, <1>3, ThreadRoles, ProducerEffect, ConsumerEffect, EitherEffect, Zenon
       DEF CNext

-----------------------------------------------------------------------------
(* Every effect keeps the invariant.                                       *)

\* What the lists and the hands say about one buffer.
LEMMA HeldFacts ==
  ASSUME OwnInv, NEW t \in Threads, NEW s \in held[t]
  PROVE  /\ s \in Seqs /\ state[s] \in Out
         /\ ~On(freeList, s) /\ ~On(dirtyList, s) /\ s \notin detached
         /\ config[s] # NoConfig /\ s < nextSeq
         /\ \A u \in Threads \ {t} : held[u] \cap {s} = {}
  <1>1. s \in Seqs
    BY DEF OwnInv, CTypeOK
  <1>2. state[s] \in Out
    BY <1>1 DEF OwnInv, Hands, OutIsHeld
  <1>3. \A u \in Threads \ {t} : held[u] \cap {s} = {}
    BY DEF OwnInv, Hands, Apart
  <1> QED
    BY <1>1, <1>2, <1>3
       DEF OwnInv, Store, FreeMatches, DirtyMatches, RealEntries, DetachedGone, Out

LEMMA NotHeld ==
  ASSUME OwnInv, NEW s \in Seqs, state[s] \in {"none", "released", "flushed"}
  PROVE  \A u \in Threads : held[u] \cap {s} = {}
  BY DEF OwnInv, Hands, OutIsHeld, Out

LEMMA GivenBack ==
  ASSUME OwnInv, CTypeOK', NEW t \in Threads, NEW s \in Seqs, Alone(t),
         ToFree(t, s) \/ ToDirty(t, s) \/ ToNowhere(t, s)
  PROVE  OwnInv'
  <1> USE DEF OwnInv, Store
  <1>1. /\ s \in held[t] /\ Give(t, {s}) /\ CTypeOK
        /\ freeList \in Seq(Seqs) /\ dirtyList \in Seq(Seqs)
        /\ state \in [Seqs -> States] /\ config \in [Seqs -> Configs \cup {NoConfig}]
    BY DEF ToFree, ToDirty, ToNowhere, CTypeOK, TypeOK, StoreOK
  <1>2. /\ held'[t] = held[t] \ {s} /\ \A u \in Threads \ {t} : held'[u] = held[u]
    BY <1>1 DEF Give, CTypeOK
  <1>3. /\ ~On(freeList, s) /\ ~On(dirtyList, s) /\ s \notin detached /\ s < nextSeq
        /\ config[s] # NoConfig /\ state[s] \in Out
        /\ \A u \in Threads \ {t} : held[u] \cap {s} = {}
    BY <1>1, HeldFacts
  <1>4. /\ \A r \in Seqs \ {s} : state'[r] = state[r] /\ config'[r] = config[r]
        /\ state'[s] \in {"released", "flushed", "none"}
        /\ state'[s] # "none" => config'[s] = config[s]
        /\ nextSeq' = nextSeq /\ crashed' = crashed
    BY <1>1 DEF ToFree, ToDirty, ToNowhere, DeleteBufferInCache, kept
  <1>5. Hands'
    <2>1. {s} \in SUBSET Seqs /\ \A r \in {s} : state'[r] \in Out <=> r \in held'[t]
      BY <1>2, <1>4 DEF Out
    <2> QED
      BY <1>2, <1>3, <1>4, <2>1, MoveHands DEF Alone
  <1>6. RealEntries'
    BY <1>3, <1>4 DEF RealEntries
  <1>7. DetachedGone'
    <2>1. ToFree(t, s) \/ ToDirty(t, s) => detached' = detached
      BY DEF ToFree, ToDirty, kept
    <2>2. ToNowhere(t, s) => state'[s] = "none" /\ detached' \subseteq detached \cup {s}
      BY <1>1 DEF ToNowhere, DeleteBufferInCache
    <2>3. detached \subseteq Seqs
      BY DEF CTypeOK
    <2> QED
      BY <1>3, <1>4, <2>1, <2>2, <2>3 DEF DetachedGone
  <1>8. FreeMatches'
    <2>1. CASE ToFree(t, s)
      <3>1. freeList' = Append(freeList, s) /\ state'[s] = "released"
        BY <1>1, <2>1 DEF ToFree
      <3>2. /\ Distinct(freeList')
            /\ \A r : On(freeList', r) <=> On(freeList, r) \/ r = s
        BY <1>1, <1>3, <3>1, AppendOn DEF FreeMatches
      <3> QED BY <1>4, <3>1, <3>2 DEF FreeMatches
    <2>2. CASE ToDirty(t, s) \/ ToNowhere(t, s)
      <3>1. freeList' = freeList /\ state'[s] # "released"
        BY <1>1, <2>2 DEF ToDirty, ToNowhere, DeleteBufferInCache
      <3> QED BY <1>3, <1>4, <3>1 DEF FreeMatches, Out
    <2> QED BY <2>1, <2>2
  <1>9. DirtyMatches'
    <2>1. CASE ToDirty(t, s)
      <3>1. dirtyList' = Append(dirtyList, s) /\ state'[s] = "flushed"
        BY <1>1, <2>1 DEF ToDirty
      <3>2. /\ Distinct(dirtyList')
            /\ \A r : On(dirtyList', r) <=> On(dirtyList, r) \/ r = s
        BY <1>1, <1>3, <3>1, AppendOn DEF DirtyMatches
      <3> QED BY <1>4, <3>1, <3>2 DEF DirtyMatches
    <2>2. CASE ToFree(t, s) \/ ToNowhere(t, s)
      <3>1. dirtyList' = dirtyList /\ state'[s] # "flushed"
        BY <1>1, <2>2 DEF ToFree, ToNowhere, DeleteBufferInCache
      <3> QED BY <1>3, <1>4, <3>1 DEF DirtyMatches, Out
    <2> QED BY <2>1, <2>2
  <1> QED
    BY <1>4, <1>5, <1>6, <1>7, <1>8, <1>9

LEMMA TakenOut ==
  ASSUME OwnInv, CTypeOK', NEW t \in Threads, NEW s \in Seqs, Alone(t), FromDirty(t, s)
  PROVE  OwnInv'
  <1> USE DEF OwnInv, Store
  <1>1. /\ state[s] = "flushed" /\ CTypeOK
        /\ dirtyList \in Seq(Seqs) /\ state \in [Seqs -> States]
    BY DirtyHead DEF FromDirty, CTypeOK, TypeOK, StoreOK
  <1>2. /\ held'[t] = held[t] \cup {s} /\ \A u \in Threads \ {t} : held'[u] = held[u]
    BY <1>1 DEF FromDirty, Take, CTypeOK
  <1>3. \A u \in Threads : held[u] \cap {s} = {}
    BY <1>1, NotHeld
  <1>4. state'[s] = "acquired" /\ \A r \in Seqs \ {s} : state'[r] = state[r]
    BY <1>1 DEF FromDirty
  <1>5. Hands'
    <2>1. {s} \in SUBSET Seqs /\ \A r \in {s} : state'[r] \in Out <=> r \in held'[t]
      BY <1>2, <1>4 DEF Out
    <2> QED
      BY <1>2, <1>3, <1>4, <2>1, MoveHands DEF Alone
  <1>6. DirtyMatches'
    <2>1. /\ Distinct(dirtyList')
          /\ \A r : On(dirtyList', r) <=> On(dirtyList, r) /\ r # s
      BY <1>1, TailOn DEF FromDirty, DirtyMatches
    <2> QED BY <1>4, <2>1 DEF DirtyMatches
  <1>7. FreeMatches' /\ ~crashed'
    BY <1>1, <1>4 DEF FreeMatches, FromDirty, kept
  <1>8. RealEntries' /\ DetachedGone'
    <2>1. detached \subseteq Seqs
      BY DEF CTypeOK
    <2> QED BY <1>1, <1>4, <2>1 DEF RealEntries, DetachedGone, FromDirty, kept
  <1> QED
    BY <1>5, <1>6, <1>7, <1>8

LEMMA FreeTaken ==
  ASSUME OwnInv, CTypeOK', NEW t \in Threads, NEW i \in 1..Len(freeList), Alone(t),
         FromFree(t, i) \/ Replaced(t, i) \/ DropFree(i)
  PROVE  OwnInv'
  <1> USE DEF OwnInv, Store
  <1> DEFINE s == freeList[i]
             n == nextSeq
             D == IF Replaced(t, i) THEN {s, n} ELSE {s}
  <1>1. /\ CTypeOK /\ freeList \in Seq(Seqs) /\ state \in [Seqs -> States]
        /\ config \in [Seqs -> Configs \cup {NoConfig}] /\ nextSeq \in Nat
        /\ detached \subseteq Seqs /\ NoConfig \notin Configs
    BY ConfigAssumption DEF CTypeOK, TypeOK, StoreOK
  <1>2. /\ s \in Seqs /\ state[s] = "released" /\ config[s] # NoConfig /\ s < nextSeq
        /\ s \in Nat
    BY FreeEntries DEF Seqs
  <1>3. Replaced(t, i) => n \in Seqs /\ state[n] = "none" /\ n # s
    BY <1>2, NewSeq DEF Replaced
  <1>4. \A u \in Threads : held[u] \cap D = {}
    BY <1>2, <1>3, NotHeld
  <1>5. \A r \in Seqs \ D : state'[r] = state[r] /\ config'[r] = config[r]
    BY <1>1, <1>2, <1>3 DEF FromFree, Replaced, DropFree, kept
  <1>6. /\ FromFree(t, i) => state'[s] = "requested" /\ config' = config
        /\ DropFree(i) => state'[s] = "none"
        /\ Replaced(t, i) => /\ state'[s] = "none" /\ state'[n] = "requested"
                             /\ config'[n] # NoConfig
    BY <1>1, <1>2, <1>3 DEF FromFree, Replaced, DropFree, kept
  <1>7. /\ nextSeq' >= nextSeq /\ nextSeq' \in Nat
        /\ Replaced(t, i) => nextSeq' = n + 1
        /\ freeList' = RemoveAt(freeList, i) /\ dirtyList' = dirtyList
        /\ detached' = detached /\ crashed' = crashed
    BY <1>1 DEF FromFree, Replaced, DropFree, kept
  <1>8. /\ \A u \in Threads \ {t} : held'[u] = held[u]
        /\ FromFree(t, i) => held'[t] = held[t] \cup {s}
        /\ Replaced(t, i) => held'[t] = held[t] \cup {n}
        /\ DropFree(i) => held'[t] = held[t]
    BY <1>1 DEF FromFree, Replaced, DropFree, Take, CTypeOK
  <1>9. Hands'
    <2>1. D \in SUBSET Seqs /\ \A r \in D : state'[r] \in Out <=> r \in held'[t]
      BY <1>2, <1>3, <1>4, <1>6, <1>8 DEF Out
    <2>2. \A r \in Seqs \ D : r \in held'[t] <=> r \in held[t]
      BY <1>8
    <2> HIDE DEF D
    <2> QED
      BY <1>4, <1>5, <1>8, <2>1, <2>2, MoveHands DEF Alone
  <1>10. FreeMatches'
    <2>1. /\ Distinct(freeList')
          /\ \A r : On(freeList', r) <=> On(freeList, r) /\ r # s
      BY <1>1, <1>7, RemoveOn DEF FreeMatches
    <2> QED BY <1>3, <1>5, <1>6, <2>1 DEF FreeMatches
  <1>11. DirtyMatches'
    BY <1>2, <1>3, <1>5, <1>6, <1>7 DEF DirtyMatches
  <1>12. RealEntries'
    <2>1. \A r \in Seqs : r \in Nat
      BY DEF Seqs
    <2> QED BY <1>1, <1>2, <1>3, <1>5, <1>6, <1>7, <2>1 DEF RealEntries
  <1>13. DetachedGone'
    <2>1. \A r \in detached : r \in Nat /\ r \notin D
      BY <1>1, <1>2, <1>3 DEF DetachedGone, Seqs
    <2> QED BY <1>1, <1>5, <1>7, <2>1 DEF DetachedGone
  <1> QED
    BY <1>7, <1>9, <1>10, <1>11, <1>12, <1>13

LEMMA StoreTypes ==
  ASSUME CTypeOK
  PROVE  /\ state \in [Seqs -> States] /\ nextSeq \in Nat
         /\ config \in [Seqs -> Configs \cup {NoConfig}] /\ detached \subseteq Seqs
         /\ freeList \in Seq(Seqs) /\ dirtyList \in Seq(Seqs)
  BY DEF CTypeOK, TypeOK, StoreOK

LEMMA BroughtIn ==
  ASSUME OwnInv, CTypeOK', NEW t \in Threads, NEW s \in Seqs,
         NEW st \in {"requested", "attached"}, Alone(t), FromNowhere(t, s, st)
  PROVE  OwnInv'
  <1> s \in Nat
    BY DEF Seqs
  <1>1. /\ CTypeOK /\ state \in [Seqs -> States] /\ nextSeq \in Nat
        /\ config \in [Seqs -> Configs \cup {NoConfig}] /\ detached \subseteq Seqs
    BY StoreTypes DEF OwnInv
  <1> USE DEF OwnInv, Store
  <1>2. /\ state[s] = "none" /\ state'[s] = st /\ config'[s] # NoConfig
        /\ \A r \in Seqs \ {s} : state'[r] = state[r] /\ config'[r] = config[r]
    BY <1>1, ConfigAssumption DEF FromNowhere
  <1>3. /\ held'[t] = held[t] \cup {s} /\ \A u \in Threads \ {t} : held'[u] = held[u]
    BY <1>1 DEF FromNowhere, Take, CTypeOK
  <1>4. \A u \in Threads : held[u] \cap {s} = {}
    BY <1>2, NotHeld
  <1>5. Hands'
    <2>1. {s} \in SUBSET Seqs /\ \A r \in {s} : state'[r] \in Out <=> r \in held'[t]
      BY <1>2, <1>3 DEF Out
    <2> QED
      BY <1>2, <1>3, <1>4, <2>1, MoveHands DEF Alone
  <1>6. FreeMatches' /\ DirtyMatches' /\ ~crashed'
    BY <1>2 DEF FreeMatches, DirtyMatches, FromNowhere
  <1>7. /\ s < nextSeq' /\ nextSeq' >= nextSeq /\ nextSeq' \in Nat
        /\ s \notin detached' /\ detached' \subseteq detached
    BY <1>1 DEF FromNowhere, DetachedGone
  <1>8. RealEntries' /\ DetachedGone'
    <2>1. \A r \in Seqs : r \in Nat
      BY DEF Seqs
    <2> QED BY <1>1, <1>2, <1>7, <2>1 DEF RealEntries, DetachedGone
  <1> QED
    BY <1>5, <1>6, <1>8

\* DeleteBuffers takes a prefix of each list, and marks without effect on the rest.
LEMMA DeletePrefixes ==
  ASSUME OwnInv, NEW count \in Nat, DeleteBuffers(count)
  PROVE  \E nf \in 0..Len(freeList), nd \in 0..Len(dirtyList) :
           LET gone == {freeList[i] : i \in 1..nf} \cup {dirtyList[i] : i \in 1..nd}
           IN  /\ state' = [s \in Seqs |-> IF s \in gone THEN "none" ELSE state[s]]
               /\ config' = [s \in Seqs |-> IF s \in gone THEN NoConfig ELSE config[s]]
               /\ freeList' = SubSeq(freeList, nf + 1, Len(freeList))
               /\ dirtyList' = SubSeq(dirtyList, nd + 1, Len(dirtyList))
  <1> DEFINE nf == Least(count, Len(freeList))
             nd == Least(count - nf, Len(dirtyList))
  <1>1. Len(freeList) \in Nat /\ Len(dirtyList) \in Nat
    BY StoreTypes, LenProperties DEF OwnInv
  <1>2. nf \in 0..Len(freeList) /\ count - nf \in Nat
    BY <1>1 DEF Least
  <1>3. nd \in 0..Len(dirtyList)
    BY <1>1, <1>2 DEF Least
  <1> QED
    BY <1>2, <1>3 DEF DeleteBuffers

LEMMA Dropped ==
  ASSUME OwnInv, CTypeOK', NEW t \in Threads, NEW count \in Nat, Alone(t), DropOldest(count)
  PROVE  OwnInv'
  <1>1. PICK nf \in 0..Len(freeList), nd \in 0..Len(dirtyList) :
           LET gone == {freeList[i] : i \in 1..nf} \cup {dirtyList[i] : i \in 1..nd}
           IN  /\ state' = [s \in Seqs |-> IF s \in gone THEN "none" ELSE state[s]]
               /\ config' = [s \in Seqs |-> IF s \in gone THEN NoConfig ELSE config[s]]
               /\ freeList' = SubSeq(freeList, nf + 1, Len(freeList))
               /\ dirtyList' = SubSeq(dirtyList, nd + 1, Len(dirtyList))
    BY DeletePrefixes DEF DropOldest
  <1> DEFINE F == {freeList[i] : i \in 1..nf}
             G == {dirtyList[i] : i \in 1..nd}
             D == {s \in Seqs : s \in F \cup G}
  <1>2. Len(freeList) \in Nat /\ Len(dirtyList) \in Nat
    BY StoreTypes, LenProperties DEF OwnInv
  <1>3. \A s \in Seqs : /\ s \in F => On(freeList, s)
                        /\ s \in G => On(dirtyList, s)
    BY <1>2 DEF On
  <1>4. \A s \in D : state[s] \in {"released", "flushed"}
    BY <1>3 DEF OwnInv, Store, FreeMatches, DirtyMatches
  <1>5. \A u \in Threads : held[u] \cap D = {}
    BY <1>4, NotHeld
  <1>6. /\ \A s \in D : state'[s] = "none"
        /\ \A s \in Seqs \ D : state'[s] = state[s] /\ config'[s] = config[s]
    BY <1>1
  <1>7. UNCHANGED <<held, nextSeq, detached, crashed>>
    BY DEF DropOldest
  <1>8. Hands'
    <2>1. D \in SUBSET Seqs /\ \A s \in D : state'[s] \in Out <=> s \in held'[t]
      BY <1>5, <1>6, <1>7 DEF Out
    <2> HIDE DEF D
    <2> QED
      BY <1>5, <1>6, <1>7, <2>1, MoveHands DEF Alone
  <1>9. FreeMatches'
    <2>1. /\ Distinct(freeList')
          /\ \A s : On(freeList', s) <=> On(freeList, s) /\ s \notin F
      BY <1>1, StoreTypes, DropOn DEF OwnInv, Store, FreeMatches
    <2>2. \A s \in G : s \in Seqs => state[s] = "flushed"
      BY <1>3 DEF OwnInv, Store, DirtyMatches
    <2> QED BY <1>6, <2>1, <2>2 DEF OwnInv, Store, FreeMatches
  <1>10. DirtyMatches'
    <2>1. /\ Distinct(dirtyList')
          /\ \A s : On(dirtyList', s) <=> On(dirtyList, s) /\ s \notin G
      BY <1>1, StoreTypes, DropOn DEF OwnInv, Store, DirtyMatches
    <2>2. \A s \in F : s \in Seqs => state[s] = "released"
      BY <1>3 DEF OwnInv, Store, FreeMatches
    <2> QED BY <1>6, <2>1, <2>2 DEF OwnInv, Store, DirtyMatches
  <1>11. RealEntries' /\ DetachedGone' /\ ~crashed'
    BY <1>6, <1>7, StoreTypes DEF OwnInv, Store, RealEntries, DetachedGone
  <1> QED
    BY <1>8, <1>9, <1>10, <1>11 DEF OwnInv, Store

LEMMA Emptied == ASSUME OwnInv, CTypeOK', Empties PROVE OwnInv'
  <1>1. \A s \in Seqs : state'[s] = "none"
    BY DEF Empties, DeleteBufferInCache
  <1>2. Apart' /\ OutIsHeld'
    BY <1>1 DEF Empties, Apart, OutIsHeld, Out
  <1>3. FreeMatches' /\ DirtyMatches'
    BY <1>1 DEF Empties, FreeMatches, DirtyMatches, Distinct, On
  <1>4. RealEntries' /\ DetachedGone' /\ ~crashed'
    BY <1>1, StoreTypes DEF Empties, RealEntries, DetachedGone, OwnInv, Store
  <1> QED
    BY <1>2, <1>3, <1>4 DEF OwnInv, Hands, Store, Empties

LEMMA EffectKeeps == ASSUME OwnInv, CTypeOK', Effect PROVE OwnInv'
  <1>1. CASE Still
    BY <1>1 DEF Still, kept, OwnInv, Hands, Apart, OutIsHeld, Store, FreeMatches,
                DirtyMatches, RealEntries, DetachedGone
  <1>2. CASE Empties
    BY <1>2, Emptied
  <1>3. ASSUME NEW t \in Threads, Alone(t), EffectOf(t) PROVE OwnInv'
    BY <1>3, GivenBack, TakenOut, FreeTaken, BroughtIn, Dropped DEF EffectOf
  <1> QED
    BY <1>1, <1>2, <1>3 DEF Effect

LEMMA OwnInvStep == OwnInv /\ [CNext]_cvars => OwnInv'
  <1> SUFFICES ASSUME OwnInv, [CNext]_cvars PROVE OwnInv'
    OBVIOUS
  <1>1. CTypeOK'
    BY ClientTypeStep DEF OwnInv
  <1> QED
    BY <1>1, StepEffect, EffectKeeps

LEMMA OwnInvAlways == CSpec => []OwnInv
  BY OwnInvInit, OwnInvStep, PTL DEF CSpec

\* With clients that keep the contract, whatever their number and however their calls
\* overlap, no buffer is in two hands and none is lost, the lists of BufferQueue hold
\* exactly the released and the flushed buffers, and no null pointer is used.
THEOREM OwnershipKept == CSpec => []Ownership
  BY OwnInvAlways, OwnInvOwnership, PTL

-----------------------------------------------------------------------------
(* The cache grows only below the queue size.                              *)

LEMMA EntriesFinite == IsFiniteSet(Entries) /\ IsFiniteSet(Entries')
  <1>1. IsFiniteSet(Seqs)
    BY SizeAssumption, FS_Interval DEF Seqs
  <1>2. Entries \subseteq Seqs /\ Entries' \subseteq Seqs
    BY DEF Entries
  <1> QED
    BY <1>1, <1>2, FS_Subset

\* Entries that leave, or change their state, do not count.
LEMMA NotGrown ==
  ASSUME \A s \in Seqs : state'[s] # "none" => state[s] # "none"
  PROVE  ~(Cardinality(Entries') > GetUsedSize)
  <1>1. Entries' \subseteq Entries
    BY DEF Entries
  <1>2. Cardinality(Entries') <= Cardinality(Entries)
    BY <1>1, EntriesFinite, FS_Subset
  <1>3. Cardinality(Entries') \in Nat /\ Cardinality(Entries) \in Nat
    BY EntriesFinite, FS_CardinalityType
  <1> QED
    BY <1>2, <1>3 DEF GetUsedSize

LEMMA GrownByOne ==
  ASSUME NEW s \in Seqs, state[s] = "none", state'[s] # "none",
         \A r \in Seqs \ {s} : state'[r] = state[r]
  PROVE  Cardinality(Entries') = GetUsedSize + 1
  <1>1. Entries' = Entries \cup {s} /\ s \notin Entries
    BY DEF Entries
  <1> QED
    BY <1>1, EntriesFinite, FS_AddElement DEF GetUsedSize

LEMMA SwappedOne ==
  ASSUME NEW s \in Seqs, NEW n \in Seqs, state[n] = "none", state'[n] # "none",
         state[s] # "none", state'[s] = "none",
         \A r \in Seqs \ {s, n} : state'[r] = state[r]
  PROVE  Cardinality(Entries') = GetUsedSize
  <1>1. /\ Entries' = (Entries \ {s}) \cup {n} /\ s \in Entries
        /\ n \notin Entries \ {s}
    BY DEF Entries
  <1>2. IsFiniteSet(Entries \ {s}) /\ Cardinality(Entries \ {s}) = GetUsedSize - 1
    BY <1>1, EntriesFinite, FS_RemoveElement DEF GetUsedSize
  <1>3. Cardinality(Entries') = Cardinality(Entries \ {s}) + 1
    BY <1>1, <1>2, FS_AddElement
  <1>4. GetUsedSize \in Nat
    BY EntriesFinite, FS_CardinalityType DEF GetUsedSize
  <1> QED
    BY <1>2, <1>3, <1>4

LEMMA EffectGrowth ==
  ASSUME OwnInv, Effect, Cardinality(Entries') > GetUsedSize
  PROVE  Cardinality(Entries') <= queueSize
  <1>1. /\ state \in [Seqs -> States] /\ CTypeOK
        /\ queueSize \in Nat /\ GetUsedSize \in Nat
    BY EntriesFinite, FS_CardinalityType, SizeAssumption
       DEF OwnInv, CTypeOK, TypeOK, StoreOK, GetUsedSize
  <1>2. ~Still
    BY NotGrown DEF Still
  <1>3. ~Empties
    BY NotGrown DEF Empties, DeleteBufferInCache
  <1>4. PICK t \in Threads : EffectOf(t)
    BY <1>2, <1>3 DEF Effect
  <1>5. ASSUME NEW s \in Seqs
        PROVE  ~ToFree(t, s) /\ ~ToDirty(t, s) /\ ~ToNowhere(t, s) /\ ~FromDirty(t, s)
    <2>1. ~ToNowhere(t, s)
      BY NotGrown DEF ToNowhere, DeleteBufferInCache
    <2>2. ASSUME s \in held[t] PROVE state[s] # "none"
      BY <2>2, HeldFacts DEF Out
    <2>3. ~ToFree(t, s) /\ ~ToDirty(t, s)
      BY <1>1, <2>2, NotGrown DEF ToFree, ToDirty
    <2>4. ~FromDirty(t, s)
      BY <1>1, DirtyHead, NotGrown DEF FromDirty
    <2> QED BY <2>1, <2>3, <2>4
  <1>6. ASSUME NEW i \in 1..Len(freeList)
        PROVE  ~FromFree(t, i) /\ ~Replaced(t, i) /\ ~DropFree(i)
    <2>1. freeList[i] \in Seqs /\ state[freeList[i]] = "released" /\ freeList[i] < nextSeq
      BY FreeEntries
    <2>2. ~FromFree(t, i) /\ ~DropFree(i)
      BY <1>1, <2>1, NotGrown DEF FromFree, DropFree
    <2>3. ASSUME Replaced(t, i) PROVE FALSE
      <3>1. nextSeq \in Seqs /\ state[nextSeq] = "none"
        BY <2>3, NewSeq DEF Replaced
      <3>2. /\ state'[freeList[i]] = "none" /\ state'[nextSeq] = "requested"
            /\ \A r \in Seqs \ {freeList[i], nextSeq} : state'[r] = state[r]
        BY <1>1, <2>1, <2>3, <3>1 DEF Replaced
      <3>3. Cardinality(Entries') = GetUsedSize
        BY <2>1, <3>1, <3>2, SwappedOne
      <3> QED BY <1>1, <3>3
    <2> QED BY <2>2, <2>3
  <1>7. ASSUME NEW count \in Nat PROVE ~DropOldest(count)
    BY DeletePrefixes, NotGrown DEF DropOldest
  <1>8. PICK s \in Seqs, st \in {"requested", "attached"} : FromNowhere(t, s, st)
    BY <1>4, <1>5, <1>6, <1>7 DEF EffectOf
  <1>9. Cardinality(Entries') = GetUsedSize + 1
    BY <1>1, <1>8, GrownByOne DEF FromNowhere
  <1> QED
    BY <1>1, <1>8, <1>9 DEF FromNowhere

\* Whatever the number of clients and however often the queue is resized while
\* requests wait, neither RequestBuffer nor AttachBuffer makes bufferQueueCache_
\* larger than queueSize_ as it is at that moment.
THEOREM GrowthBounded == CSpec => GrowthWithinQueueSize
  <1>1. OwnInv /\ [CNext]_cvars =>
          [Cardinality(Entries') > GetUsedSize => Cardinality(Entries') <= queueSize]_cvars
    BY StepEffect, EffectGrowth
  <1> QED
    BY <1>1, OwnInvAlways, PTL DEF CSpec, GrowthWithinQueueSize

-----------------------------------------------------------------------------
(* Step by step, the clients' queue is the exchange.                       *)

\* Where the exchange sees each buffer.
Placed ==
    \A s \in Seqs :
        /\ \A t \in Threads : s \in held[t] => holderMap[s] = t
        /\ state[s] = "released" => holderMap[s] = "free"
        /\ state[s] = "flushed" => holderMap[s] = "queued"
        /\ state[s] = "none" => holderMap[s] = "gone"

LEMMA OwnInvPlaced == OwnInv => Placed
  <1> SUFFICES ASSUME OwnInv, NEW s \in Seqs
               PROVE  /\ \A t \in Threads : s \in held[t] => holderMap[s] = t
                      /\ state[s] = "released" => holderMap[s] = "free"
                      /\ state[s] = "flushed" => holderMap[s] = "queued"
                      /\ state[s] = "none" => holderMap[s] = "gone"
    BY DEF Placed
  <1>1. ASSUME NEW t \in Threads, s \in held[t] PROVE holderMap[s] = t
    <2>1. \A u \in Threads : s \in held[u] => u = t
      BY <1>1 DEF OwnInv, Hands, Apart
    <2> QED BY <1>1, <2>1 DEF holderMap
  <1>2. ASSUME state[s] \in {"released", "flushed", "none"}
        PROVE  ~ \E t \in Threads : s \in held[t]
    BY <1>2, NotHeld
  <1> QED
    BY <1>1, <1>2 DEF holderMap

LEMMA PlacedNext == OwnInv' => Placed'
  BY OwnInvPlaced, PTL

\* A buffer that nothing happens to stays where it is.
LEMMA HolderKept ==
  ASSUME NEW s \in Seqs, state'[s] = state[s],
         \A t \in Threads : s \in held'[t] <=> s \in held[t]
  PROVE  holderMap'[s] = holderMap[s]
  BY DEF holderMap

LEMMA HeldAfter ==
  ASSUME CTypeOK, NEW t \in Threads, NEW D \in SUBSET Seqs, Take(t, D) \/ Give(t, D)
  PROVE  /\ \A s \in Seqs \ D, u \in Threads : s \in held'[u] <=> s \in held[u]
         /\ Take(t, D) => \A s \in D : s \in held'[t]
  BY DEF Take, Give, CTypeOK

LEMMA MapsGiven ==
  ASSUME OwnInv, OwnInv', NEW t \in Threads, NEW s \in Seqs
  PROVE  /\ ToFree(t, s) => Exchange!PutBack(t)
         /\ ToDirty(t, s) => Exchange!Submit(t)
         /\ ToNowhere(t, s) => Exchange!Withdraw(t)
         /\ FromDirty(t, s) => Exchange!TakeOldest(t)
  <1>1. Placed /\ Placed'
    BY OwnInvPlaced, PlacedNext
  <1>2. CTypeOK /\ state \in [Seqs -> States] /\ {s} \in SUBSET Seqs
    BY StoreTypes DEF OwnInv
  <1>4. ASSUME Take(t, {s}) \/ Give(t, {s}),
               \A r \in Seqs \ {s} : state'[r] = state[r], NEW h, holderMap'[s] = h
        PROVE  holderMap' = [holderMap EXCEPT ![s] = h]
    <2>1. \A r \in Seqs \ {s} : holderMap'[r] = holderMap[r]
      BY <1>2, <1>4, HeldAfter, HolderKept
    <2>2. holderMap' = [r \in Seqs |-> holderMap'[r]] /\ holderMap = [r \in Seqs |-> holderMap[r]]
      BY DEF holderMap
    <2> QED BY <1>4, <2>1, <2>2
  <1>5. ASSUME ToFree(t, s) PROVE Exchange!PutBack(t)
    <2>1. holderMap[s] = t /\ holderMap'[s] = "free"
      BY <1>1, <1>2, <1>5 DEF Placed, ToFree
    <2> QED BY <1>2, <1>4, <1>5, <2>1 DEF ToFree, Exchange!PutBack
  <1>6. ASSUME ToDirty(t, s) PROVE Exchange!Submit(t)
    <2>1. holderMap[s] = t /\ holderMap'[s] = "queued"
      BY <1>1, <1>2, <1>6 DEF Placed, ToDirty
    <2> QED BY <1>2, <1>4, <1>6, <2>1 DEF ToDirty, Exchange!Submit
  <1>7. ASSUME ToNowhere(t, s) PROVE Exchange!Withdraw(t)
    <2>1. holderMap[s] = t /\ holderMap'[s] = "gone"
      BY <1>1, <1>2, <1>7 DEF Placed, ToNowhere, DeleteBufferInCache
    <2> QED BY <1>2, <1>4, <1>7, <2>1 DEF ToNowhere, DeleteBufferInCache, Exchange!Withdraw
  <1>8. ASSUME FromDirty(t, s) PROVE Exchange!TakeOldest(t)
    <2>1. s \in held'[t]
      BY <1>2, <1>8, HeldAfter DEF FromDirty
    <2>2. holderMap'[s] = t
      BY <1>1, <2>1 DEF Placed
    <2> QED BY <1>2, <1>4, <1>8, <2>2 DEF FromDirty, Exchange!TakeOldest
  <1> QED
    BY <1>5, <1>6, <1>7, <1>8

\* The free buffers of the exchange are those on the free list.
LEMMA FreeInExchange ==
  ASSUME OwnInv, NEW s \in Seqs, state[s] = "released"
  PROVE  s \in Exchange!Free
  BY OwnInvPlaced DEF Placed, Exchange!Free

LEMMA MapsGrant ==
  ASSUME OwnInv, OwnInv', NEW t \in Threads, NEW b \in Seqs, NEW old \in SUBSET Seqs,
         old = {} \/ \E f \in Seqs : old = {f} /\ state[f] = "released",
         state[b] \in {"released", "none"}, b \notin old, Take(t, {b}),
         \A r \in old : state'[r] = "none",
         \A r \in Seqs : r \notin old /\ r # b => state'[r] = state[r],
         UNCHANGED dirtyList
  PROVE  Exchange!Grant(t)
  <1>1. Placed /\ Placed' /\ CTypeOK /\ {b} \in SUBSET Seqs
    BY OwnInvPlaced, PlacedNext DEF OwnInv
  <1>2. holderMap[b] \in {"free", "gone"}
    BY <1>1 DEF Placed
  <1>3. holderMap'[b] = t /\ \A r \in old : holderMap'[r] = "gone"
    BY <1>1, HeldAfter DEF Placed
  <1>4. \A r \in Seqs : r \notin old /\ r # b => holderMap'[r] = holderMap[r]
    BY <1>1, HeldAfter, HolderKept
  <1>5. holderMap' = [r \in Seqs |-> holderMap'[r]]
    BY DEF holderMap
  <1>6. Exchange!Move(old, {b}, t)
    BY <1>3, <1>4, <1>5 DEF Exchange!Move
  <1>7. old \in {{}} \cup {{f} : f \in Exchange!Free}
    BY FreeInExchange
  <1> QED
    BY <1>2, <1>6, <1>7 DEF Exchange!Grant

LEMMA MapsTaken ==
  ASSUME OwnInv, OwnInv', NEW t \in Threads
  PROVE  /\ \A s \in Seqs, st \in {"requested", "attached"} :
                FromNowhere(t, s, st) => Exchange!Grant(t)
         /\ \A i \in 1..Len(freeList) :
                FromFree(t, i) \/ Replaced(t, i) => Exchange!Grant(t)
  <1>1. CTypeOK /\ state \in [Seqs -> States]
    BY StoreTypes DEF OwnInv
  <1>2. ASSUME NEW s \in Seqs, NEW st \in {"requested", "attached"}, FromNowhere(t, s, st)
        PROVE  Exchange!Grant(t)
    <2> DEFINE none == {}
    <2>1. none \in SUBSET Seqs /\ none = {} /\ s \notin none
      OBVIOUS
    <2> QED BY <1>1, <1>2, <2>1, MapsGrant DEF FromNowhere
  <1>3. ASSUME NEW i \in 1..Len(freeList), FromFree(t, i) PROVE Exchange!Grant(t)
    <2>1. freeList[i] \in Seqs /\ state[freeList[i]] = "released"
      BY FreeEntries
    <2>2. {} \in SUBSET Seqs
      OBVIOUS
    <2> QED BY <1>1, <1>3, <2>1, <2>2, MapsGrant DEF FromFree
  <1>4. ASSUME NEW i \in 1..Len(freeList), Replaced(t, i) PROVE Exchange!Grant(t)
    <2>1. freeList[i] \in Seqs /\ state[freeList[i]] = "released"
      BY FreeEntries
    <2>2. nextSeq \in Seqs /\ state[nextSeq] = "none"
      BY <1>4, NewSeq DEF Replaced
    <2>3. {freeList[i]} \in SUBSET Seqs /\ nextSeq \notin {freeList[i]}
      BY <2>1, <2>2
    <2>4. /\ state'[freeList[i]] = "none"
          /\ \A r \in Seqs : r # freeList[i] /\ r # nextSeq => state'[r] = state[r]
      BY <1>1, <1>4, <2>1, <2>2 DEF Replaced
    <2> DEFINE old == {freeList[i]}
    <2>5. /\ old \in SUBSET Seqs /\ nextSeq \notin old
          /\ \E f \in Seqs : old = {f} /\ state[f] = "released"
          /\ \A r \in old : state'[r] = "none"
          /\ \A r \in Seqs : r \notin old /\ r # nextSeq => state'[r] = state[r]
      BY <2>1, <2>3, <2>4
    <2>6. Take(t, {nextSeq}) /\ UNCHANGED dirtyList
      BY <1>4 DEF Replaced
    <2> HIDE DEF old
    <2> QED BY <2>2, <2>5, <2>6, MapsGrant
  <1> QED
    BY <1>2, <1>3, <1>4

LEMMA MapsShrink ==
  ASSUME OwnInv, OwnInv', NEW F \in SUBSET Seqs, NEW n \in 0..Len(dirtyList),
         \A f \in F : state[f] = "released",
         \A s \in F \cup {dirtyList[i] : i \in 1..n} : s \in Seqs => state'[s] = "none",
         \A s \in Seqs : s \notin F \cup {dirtyList[i] : i \in 1..n} => state'[s] = state[s],
         UNCHANGED held, dirtyList' = SubSeq(dirtyList, n + 1, Len(dirtyList))
  PROVE  Exchange!Shrink
  <1> DEFINE D == F \cup {dirtyList[i] : i \in 1..n}
  <1>1. Placed'
    BY PlacedNext
  <1>2. \A s \in Seqs : s \in D => holderMap'[s] = "gone"
    BY <1>1 DEF Placed
  <1>3. \A s \in Seqs : s \notin D => holderMap'[s] = holderMap[s]
    BY HolderKept
  <1>4. holderMap' = [s \in Seqs |-> holderMap'[s]]
    BY DEF holderMap
  <1>5. Exchange!Move(D, {}, "gone")
    BY <1>2, <1>3, <1>4 DEF Exchange!Move
  <1>6. F \in SUBSET Exchange!Free
    BY FreeInExchange
  <1> QED
    BY <1>5, <1>6 DEF Exchange!Shrink

LEMMA MapsDropped ==
  ASSUME OwnInv, OwnInv'
  PROVE  /\ \A i \in 1..Len(freeList) : DropFree(i) => Exchange!Shrink
         /\ \A count \in Nat : DropOldest(count) => Exchange!Shrink
  <1>1. /\ state \in [Seqs -> States] /\ freeList \in Seq(Seqs) /\ dirtyList \in Seq(Seqs)
        /\ Len(dirtyList) \in Nat /\ Len(freeList) \in Nat
    BY StoreTypes, LenProperties DEF OwnInv
  <1>2. ASSUME NEW i \in 1..Len(freeList), DropFree(i) PROVE Exchange!Shrink
    <2>1. freeList[i] \in Seqs /\ state[freeList[i]] = "released"
      BY FreeEntries
    <2>2. 0 \in 0..Len(dirtyList) /\ {dirtyList[j] : j \in 1..0} = {}
      BY <1>1
    <2>3. dirtyList' = SubSeq(dirtyList, 0 + 1, Len(dirtyList))
      BY <1>1, <1>2 DEF DropFree
    <2>4. /\ state'[freeList[i]] = "none"
          /\ \A s \in Seqs : s # freeList[i] => state'[s] = state[s]
      BY <1>1, <1>2, <2>1 DEF DropFree
    <2> DEFINE F == {freeList[i]}
    <2>5. /\ F \in SUBSET Seqs /\ \A f \in F : state[f] = "released"
          /\ \A s \in F \cup {dirtyList[j] : j \in 1..0} : s \in Seqs => state'[s] = "none"
          /\ \A s \in Seqs : s \notin F \cup {dirtyList[j] : j \in 1..0} =>
                                state'[s] = state[s]
      BY <2>1, <2>2, <2>4
    <2>6. UNCHANGED held
      BY <1>2 DEF DropFree
    <2> HIDE DEF F
    <2> QED BY <2>2, <2>3, <2>5, <2>6, MapsShrink
  <1>3. ASSUME NEW count \in Nat, DropOldest(count) PROVE Exchange!Shrink
    <2>1. PICK nf \in 0..Len(freeList), nd \in 0..Len(dirtyList) :
           LET gone == {freeList[i] : i \in 1..nf} \cup {dirtyList[i] : i \in 1..nd}
           IN  /\ state' = [s \in Seqs |-> IF s \in gone THEN "none" ELSE state[s]]
               /\ config' = [s \in Seqs |-> IF s \in gone THEN NoConfig ELSE config[s]]
               /\ freeList' = SubSeq(freeList, nf + 1, Len(freeList))
               /\ dirtyList' = SubSeq(dirtyList, nd + 1, Len(dirtyList))
      BY <1>3, DeletePrefixes DEF DropOldest
    <2> DEFINE F == {freeList[i] : i \in 1..nf}
    <2>2. \A i \in 1..nf : i \in 1..Len(freeList)
      BY <1>1
    <2>3. F \in SUBSET Seqs /\ \A f \in F : state[f] = "released"
      BY <2>2, FreeEntries
    <2>4. /\ \A s \in F \cup {dirtyList[i] : i \in 1..nd} : s \in Seqs => state'[s] = "none"
          /\ \A s \in Seqs : s \notin F \cup {dirtyList[i] : i \in 1..nd} =>
                                state'[s] = state[s]
      BY <2>1
    <2> HIDE DEF F
    <2> QED BY <1>3, <2>1, <2>3, <2>4, MapsShrink DEF DropOldest
  <1> QED
    BY <1>2, <1>3

\* Every effect is a step of the exchange, or none.
LEMMA EffectMaps ==
  ASSUME OwnInv, OwnInv', Effect
  PROVE  [Exchange!XNext]_(Exchange!xvars)
  <1>1. CASE Still
    <2>1. holderMap' = holderMap
      BY <1>1 DEF Still, holderMap
    <2> QED BY <1>1, <2>1 DEF Still, Exchange!xvars
  <1>2. CASE Empties
    <2>1. \A s \in Seqs : holderMap'[s] = "gone"
      BY <1>2, PlacedNext DEF Empties, DeleteBufferInCache, Placed
    <2>2. holderMap' = [s \in Seqs |-> holderMap'[s]]
      BY DEF holderMap
    <2>3. Exchange!Clear
      BY <1>2, <2>1, <2>2 DEF Empties, Exchange!Clear
    <2> QED BY <2>3 DEF Exchange!XNext
  <1>3. ASSUME NEW t \in Threads, EffectOf(t) PROVE Exchange!XNext
    BY <1>3, MapsGiven, MapsTaken, MapsDropped, Zenon DEF EffectOf, Exchange!XNext
  <1> QED
    BY <1>1, <1>2, <1>3 DEF Effect

\* For any clients that keep the contract, BufferQueue with its two-section calls,
\* waits, deferred deletions and resizing behaves like the atomic exchange.
THEOREM RefinesExchange == CSpec => ImplementsExchange
  <1>1. CInit => Exchange!XInit
    <2> SUFFICES ASSUME CInit PROVE Exchange!XInit
      OBVIOUS
    <2>1. \A s \in Seqs : holderMap[s] = "gone"
      BY OwnInvInit, OwnInvPlaced DEF Placed, CInit, Init
    <2>2. holderMap = [s \in Seqs |-> holderMap[s]]
      BY DEF holderMap
    <2> QED BY <2>1, <2>2 DEF CInit, Init, Exchange!XInit
  <1>2. OwnInv /\ OwnInv' /\ [CNext]_cvars => [Exchange!XNext]_(Exchange!xvars)
    BY StepEffect, EffectMaps
  <1> QED
    BY <1>1, <1>2, OwnInvAlways, PTL DEF CSpec, ImplementsExchange, Exchange!XSpec
=============================================================================
