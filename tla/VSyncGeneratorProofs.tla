------------------------ MODULE VSyncGeneratorProofs ------------------------
(***************************************************************************)
(* Proofs about VSyncGenerator: its types, what the thread relies on       *)
(* between the two locked sections of a round, and the order and spacing   *)
(* of the vsyncs of every listener, for all modes, offsets and delays.     *)
(***************************************************************************)
EXTENDS VSyncGenerator, TLAPS

-----------------------------------------------------------------------------
(* Division and multiples.                                                 *)

LEMMA DivBounds ==
  ASSUME NEW x \in Nat, NEW p \in Nat \ {0}
  PROVE  /\ x \div p \in Nat
         /\ (x \div p) * p <= x
         /\ x < (x \div p) * p + p
  OBVIOUS

LEMMA Times ==
  ASSUME NEW j \in Nat, NEW p \in Nat
  PROVE  j * p \in Nat /\ (j + 1) * p = j * p + p
  OBVIOUS

\* Two multiples differ by a period or not at all.
LEMMA MultiplesApart ==
  ASSUME NEW j \in Int, NEW k \in Int, NEW p \in Nat \ {0}, j * p < k * p
  PROVE  j * p + p <= k * p
  OBVIOUS

LEMMA ThreeFifths ==
  ASSUME NEW p \in Nat \ {0}
  PROVE  (3 * p) \div 5 \in Nat /\ (3 * p) \div 5 <= p
  OBVIOUS

Shift(c) == refrenceTime + phase + offset[c]

\* The instants at which a listener may be called, before the delay is taken off.
Instant(c, v) == \E k \in Nat : v = k * period + Shift(c)

Counting(c) ==
    /\ period \in Nat \ {0} /\ phase \in Int /\ refrenceTime \in Int
    /\ offset[c] \in Int

LEMMA ShiftInt == ASSUME NEW c, Counting(c) PROVE Shift(c) \in Int
  BY DEF Counting, Shift

LEMMA InstantsApart ==
  ASSUME NEW c, Counting(c), NEW v, NEW w, Instant(c, v), Instant(c, w), v < w
  PROVE  v + period <= w
  <1>1. PICK j \in Nat : v = j * period + Shift(c)
    BY DEF Instant
  <1>2. PICK k \in Nat : w = k * period + Shift(c)
    BY DEF Instant
  <1>3. j * period \in Nat /\ k * period \in Nat /\ Shift(c) \in Int
    BY Times, ShiftInt DEF Counting
  <1>4. j * period + period <= k * period
    BY <1>1, <1>2, <1>3, MultiplesApart DEF Counting
  <1> QED
    BY <1>1, <1>2, <1>3, <1>4 DEF Counting

\* NextMultiple gives the first instant after t, at most a period later unless it is
\* the very first.
LEMMA NextMultipleIs ==
  ASSUME NEW c, Counting(c), NEW t \in Int
  PROVE  /\ NextMultiple(c, t) \in Int /\ NextMultiple(c, t) > t
         /\ Instant(c, NextMultiple(c, t))
         /\ \A v \in Int : Instant(c, v) /\ v > t => NextMultiple(c, t) <= v
         /\ Shift(c) <= t => NextMultiple(c, t) <= t + period
  <1> DEFINE s == Shift(c)
             q == (t - s) \div period
  <1> period \in Nat \ {0} /\ s \in Int
    BY ShiftInt DEF Counting
  <1> NextMultiple(c, t) = IF t - s < 0 THEN s ELSE (q + 1) * period + s
    BY DEF NextMultiple, Shift
  <1> HIDE DEF s
  <1>1. CASE t - s < 0
    <2>1. NextMultiple(c, t) = s
      BY <1>1
    <2>2. s = 0 * period + s /\ 0 \in Nat
      OBVIOUS
    <2>3. Instant(c, s)
      BY <2>2, Zenon DEF Instant, s
    <2>4. ASSUME NEW v \in Int, Instant(c, v) PROVE s <= v
      <3>1. PICK k \in Nat : v = k * period + s
        BY <2>4 DEF Instant, s
      <3> QED BY <3>1, Times
    <2> QED BY <1>1, <2>1, <2>3, <2>4 DEF s
  <1>2. CASE ~(t - s < 0)
    <2>1. t - s \in Nat
      BY <1>2
    <2>2. q \in Nat /\ q * period <= t - s /\ t - s < q * period + period
      BY <2>1, DivBounds
    <2>3. (q + 1) * period = q * period + period /\ q * period \in Nat
      BY <2>2, Times
    <2>4. NextMultiple(c, t) = (q + 1) * period + s
      BY <1>2
    <2>5. Instant(c, NextMultiple(c, t))
      <3>1. q + 1 \in Nat
        BY <2>2
      <3> QED BY <2>4, <3>1, Zenon DEF Instant, s
    <2>6. ASSUME NEW v \in Int, Instant(c, v), v > t PROVE (q + 1) * period + s <= v
      <3>1. PICK k \in Nat : v = k * period + s
        BY <2>6 DEF Instant, s
      <3>2. k * period \in Nat /\ q * period < k * period
        BY <2>2, <2>3, <2>6, <3>1, Times
      <3>3. q * period + period <= k * period
        <4>1. q \in Int /\ k \in Int
          BY <2>2
        <4> HIDE DEF q
        <4> QED BY <3>2, <4>1, MultiplesApart
      <3> QED BY <2>3, <3>1, <3>2, <3>3
    <2> HIDE DEF q
    <2> QED BY <2>2, <2>3, <2>4, <2>5, <2>6
  <1> QED
    BY <1>1, <1>2

-----------------------------------------------------------------------------
(* ComputeListenerNextVSyncTimeStamp.                                      *)

\* The vsync it gives is an instant of the listener less the delay, after t less the
\* delay, and far enough from the last one.
LEMMA ComputedIs ==
  ASSUME NEW c, Counting(c), last[c] \in Int, NEW t \in Int, NEW d \in Nat
  PROVE  LET next == ComputeListenerNextVSyncTimeStamp(c, t, d)
         IN  /\ next \in Int /\ Instant(c, next + d)
             /\ next > last[c] /\ next > t - d
             /\ next + d - last[c] >= (3 * period) \div 5
  <1> DEFINE from == Larger(t, last[c] + d)
             first == NextMultiple(c, from)
             next == ComputeListenerNextVSyncTimeStamp(c, t, d)
             gap == (3 * period) \div 5
  <1>1. period \in Nat \ {0} /\ gap \in Nat /\ gap <= period /\ Shift(c) \in Int
    BY ThreeFifths, ShiftInt DEF Counting
  <1>2. from \in Int /\ from >= t /\ from >= last[c] + d
    BY DEF Larger
  <1>3. first \in Int /\ first > from /\ Instant(c, first)
    BY <1>2, NextMultipleIs
  <1>4. next = (IF first - last[c] < gap THEN first + period ELSE first) - d
    BY DEF ComputeListenerNextVSyncTimeStamp
  <1>5. Instant(c, first + period)
    <2>1. PICK k \in Nat : first = k * period + Shift(c)
      BY <1>3 DEF Instant
    <2>2. k + 1 \in Nat /\ first + period = (k + 1) * period + Shift(c)
      BY <1>1, <2>1, Times
    <2> QED BY <2>2, Zenon DEF Instant
  <1> HIDE DEF from, first, next, gap
  <1>6. CASE first - last[c] < gap
    <2>1. next = first + period - d
      BY <1>1, <1>3, <1>4, <1>6
    <2>2. next + d = first + period /\ next \in Int
      BY <1>1, <1>3, <2>1
    <2>3. Instant(c, next + d)
      BY <1>5, <2>2
    <2> QED BY <1>1, <1>2, <1>3, <2>1, <2>2, <2>3 DEF next, gap
  <1>7. CASE ~(first - last[c] < gap)
    <2>1. next = first - d
      BY <1>4, <1>7
    <2>2. next + d = first /\ next \in Int
      BY <1>3, <2>1
    <2>3. Instant(c, next + d)
      BY <1>3, <2>2
    <2> QED BY <1>1, <1>2, <1>3, <1>7, <2>1, <2>2, <2>3 DEF next, gap
  <1> QED
    BY <1>6, <1>7

\* Seen a period back, the vsync it gives is not later than any instant that is far
\* enough from the last one, or it is over.
LEMMA ComputedNotLater ==
  ASSUME NEW c, Counting(c), last[c] \in Int, NEW t \in Int, NEW d \in Nat,
         d < (3 * period) \div 5,
         NEW v \in Int, Instant(c, v), v - last[c] >= (3 * period) \div 5
  PROVE  LET next == ComputeListenerNextVSyncTimeStamp(c, t - period, d)
         IN  next + d <= v \/ next + d <= t
  <1> DEFINE from == Larger(t - period, last[c] + d)
             first == NextMultiple(c, from)
             next == ComputeListenerNextVSyncTimeStamp(c, t - period, d)
             gap == (3 * period) \div 5
  <1>1. /\ period \in Nat \ {0} /\ gap \in Nat /\ gap <= period
        /\ Shift(c) \in Int /\ d < gap /\ v - last[c] >= gap
    BY ThreeFifths, ShiftInt DEF Counting
  <1>2. /\ from \in Int /\ from \in {t - period, last[c] + d}
    BY <1>1 DEF Larger
  <1>3. /\ first \in Int /\ first > from /\ Instant(c, first)
        /\ v > from => first <= v
        /\ Shift(c) <= from => first <= from + period
    BY <1>2, NextMultipleIs
  <1>4. next = (IF first - last[c] < gap THEN first + period ELSE first) - d
    BY DEF ComputeListenerNextVSyncTimeStamp
  <1>5. Shift(c) <= v
    <2>1. PICK k \in Nat : v = k * period + Shift(c)
      BY DEF Instant
    <2>2. k * period \in Nat
      BY <1>1, Times
    <2> QED BY <1>1, <2>1, <2>2
  <1> HIDE DEF from, first, next, gap
  <1>6. CASE first - last[c] < gap
    <2>1. first < v
      BY <1>1, <1>3, <1>6
    <2>2. first + period <= v
      BY <1>3, <2>1, InstantsApart
    <2> QED BY <1>1, <1>3, <1>4, <1>6, <2>2 DEF next
  <1>7. CASE ~(first - last[c] < gap)
    <2>1. next + d = first
      BY <1>3, <1>4, <1>7
    <2>2. CASE v > from
      BY <1>3, <2>1, <2>2 DEF next
    <2>3. CASE v <= from
      <3>1. from = t - period
        BY <1>1, <1>2, <2>3
      <3>2. first <= from + period
        BY <1>1, <1>2, <1>3, <1>5, <2>3
      <3> QED BY <1>1, <2>1, <3>1, <3>2 DEF next
    <2> QED BY <1>2, <2>2, <2>3
  <1> QED
    BY <1>6, <1>7

\* Without a period the computation gives the shift, less the delay.
LEMMA ComputedAlways ==
  ASSUME TypeOK, NEW c \in Callbacks, NEW t \in Int, NEW d \in Nat
  PROVE  ComputeListenerNextVSyncTimeStamp(c, t, d) \in Int
  <1>1. /\ period \in Nat /\ phase \in Int /\ refrenceTime \in Int
        /\ offset[c] \in Int /\ last[c] \in Int
    BY DEF TypeOK, NumbersOK, ListenersOK
  <1>2. CASE period = 0
    <2>1. NextMultiple(c, Larger(t, last[c] + d)) = refrenceTime + phase + offset[c]
      BY <1>2 DEF NextMultiple
    <2> QED BY <1>1, <2>1 DEF ComputeListenerNextVSyncTimeStamp
  <1>3. CASE period # 0
    BY <1>1, <1>3, ComputedIs DEF Counting
  <1> QED
    BY <1>2, <1>3

-----------------------------------------------------------------------------
(* The average delay.                                                      *)

LEMMA AverageDelayIs ==
  ASSUME wakeupDelay \in 0..MaxDelay, now \in Int, nextTimeStamp \in Int,
         now >= nextTimeStamp
  PROVE  /\ AverageDelay \in 0..MaxDelay
         /\ wakeupDelay - AverageDelay < ErrorThreshold
  <1> DEFINE sum == wakeupDelay * (DelayWeight - 1) + (now - nextTimeStamp)
             avg == sum \div DelayWeight
  <1>1. /\ MaxDelay \in Nat /\ ErrorThreshold \in Nat /\ DelayWeight \in Nat \ {0}
        /\ MaxDelay + DelayWeight <= ErrorThreshold * DelayWeight
    BY GeneratorAssumption, ProportionAssumption
  <1>2. wakeupDelay * (DelayWeight - 1) = wakeupDelay * DelayWeight - wakeupDelay
    BY <1>1
  <1>3. wakeupDelay * DelayWeight \in Nat /\ wakeupDelay * (DelayWeight - 1) \in Nat
    BY <1>1, Times
  <1>4. sum \in Nat /\ sum >= wakeupDelay * DelayWeight - wakeupDelay
    BY <1>2, <1>3
  <1>5. avg \in Nat /\ sum < avg * DelayWeight + DelayWeight
    BY <1>1, <1>4, DivBounds
  <1>6. AverageDelay = IF avg > MaxDelay THEN MaxDelay ELSE avg
    BY DEF AverageDelay
  <1> HIDE DEF avg, sum
  <1>7. wakeupDelay - avg < ErrorThreshold
    <2>1. /\ wakeupDelay * DelayWeight < avg * DelayWeight + DelayWeight + wakeupDelay
          /\ avg * DelayWeight \in Nat /\ ErrorThreshold * DelayWeight \in Nat
      BY <1>1, <1>3, <1>4, <1>5, Times
    <2>2. wakeupDelay * DelayWeight < (avg + ErrorThreshold) * DelayWeight
      <3>1. (avg + ErrorThreshold) * DelayWeight
               = avg * DelayWeight + ErrorThreshold * DelayWeight
        BY <1>1, <1>5
      <3> QED BY <1>1, <1>3, <2>1, <3>1
    <2>3. wakeupDelay < avg + ErrorThreshold
      BY <1>1, <1>5, <2>2
    <2> QED BY <1>1, <1>5, <2>3
  <1> QED
    BY <1>1, <1>5, <1>6, <1>7

-----------------------------------------------------------------------------
(* The inductive invariant: the thread wakes up at or after the instant it *)
(* computed, which is, as long as nothing has changed, the next vsync of   *)
(* a listener.                                                             *)

Fresh == pc \in {"timed", "fireWoken"} /\ ~changed

Due ==
    \E c \in listeners, v \in Int :
        /\ Instant(c, v)
        /\ nextTimeStamp = v - wakeupDelay
        /\ v - last[c] >= (3 * period) \div 5

InTime == pc = "fireWoken" => now >= nextTimeStamp
Roomy  == period > 0 => MaxDelay < (3 * period) \div 5

GInv == TypeOK /\ ModeSeen /\ InTime /\ Roomy /\ (Fresh => Due)

LEMMA ListenerCounts ==
  ASSUME TypeOK, period > 0, NEW c \in Callbacks
  PROVE  Counting(c) /\ last[c] \in Int
  BY DEF TypeOK, NumbersOK, ListenersOK, Counting

LEMMA DivHalf == ASSUME NEW p \in Nat PROVE p \div 2 \in Int
  OBVIOUS

LEMMA TypeStep ==
  TypeOK /\ InTime /\ [Next]_vars => NumbersOK' /\ ListenersOK'
  <1> SUFFICES ASSUME TypeOK, InTime, [Next]_vars
               PROVE  NumbersOK' /\ ListenersOK'
    OBVIOUS
  <1> USE GeneratorAssumption DEF TypeOK, NumbersOK, ListenersOK
  <1>1. CASE UNCHANGED vars
    BY <1>1 DEF vars, mode, reg, ctl, thread
  <1>2. CASE Passes
    BY <1>2 DEF Passes, mode, reg, ctl, thread
  <1>3. CASE Requests
    <2>1. ASSUME NEW m \in Modes, UpdateMode(m) PROVE NumbersOK' /\ ListenersOK'
      BY <2>1 DEF UpdateMode, Notify, Change, reg, ctl
    <2>2. ASSUME NEW c \in Callbacks, NEW o \in Offsets, AddListener(c, o) PROVE NumbersOK' /\ ListenersOK'
      <3>1. now - period \div 2 + phase \in Int
        BY DivHalf
      <3> QED BY <2>2, <3>1 DEF AddListener, Notify, Change, mode, ctl
    <2>3. ASSUME NEW c \in Callbacks, RemoveListener(c) PROVE NumbersOK' /\ ListenersOK'
      BY <2>3 DEF RemoveListener, Notify, Change, mode, ctl
    <2>4. ASSUME NEW c \in Callbacks, NEW o \in Offsets, ChangePhaseOffset(c, o)
          PROVE NumbersOK' /\ ListenersOK'
      BY <2>4 DEF ChangePhaseOffset, Change, mode, ctl, thread
    <2>5. CASE Stop
      BY <2>5 DEF Stop, mode, reg, thread
    <2> QED BY <1>3, <2>1, <2>2, <2>3, <2>4, <2>5 DEF Requests
  <1>4. CASE StopNotify
    BY <1>4 DEF StopNotify, Notify, mode, reg
  <1>5. CASE Loop \/ Idle \/ Wake \/ TimedOut \/ DivideByZero \/ Called \/ SpuriousWake
    <2>1. /\ UNCHANGED <<now, mode, ctl, reg, calls, wakeupDelay>>
          /\ nextTimeStamp' \in {nextTimeStamp, 0}
      BY <1>5 DEF Loop, Idle, Wake, TimedOut, DivideByZero, Called, SpuriousWake, Goto
    <2> QED BY <2>1 DEF mode, ctl, reg
  <1>6. CASE Compute
    <2>1. period > 0
      BY <1>6 DEF Compute
    <2>2. PICK c \in listeners :
            nextTimeStamp' = ComputeListenerNextVSyncTimeStamp(c, now, wakeupDelay)
      BY <1>6 DEF Compute, ComputeNextVSyncTimeStamp
    <2>3. nextTimeStamp' \in Int
      BY <2>1, <2>2, ListenerCounts, ComputedIs
    <2> QED BY <1>6, <2>3 DEF Compute, Goto, mode, ctl, reg
  <1>7. CASE Fire
    <2>1. wakeupDelay' \in 0..MaxDelay /\ now - period \in Int
      BY <1>7, AverageDelayIs DEF Fire, InTime
    <2>2. calls' \subseteq Callbacks
      BY <1>7 DEF Fire, GetListenerTimeouted
    <2>3. \A c \in Callbacks :
             ComputeListenerNextVSyncTimeStamp(c, now - period, wakeupDelay') \in Int
      BY <2>1, ComputedAlways
    <2>4. last' \in [Callbacks -> Int]
      BY <1>7, <2>3 DEF Fire
    <2> QED BY <1>7, <2>1, <2>2, <2>4 DEF Fire, Goto, mode
  <1>8. ASSUME NEW c \in Callbacks, OnVSyncEvent(c) PROVE NumbersOK' /\ ListenersOK'
    BY <1>8 DEF OnVSyncEvent, mode, reg, ctl
  <1> QED
    BY <1>1, <1>2, <1>3, <1>4, <1>5, <1>6, <1>7, <1>8 DEF Next, ThreadLoop

LEMMA FlagsStep == FlagsOK /\ [Next]_vars => FlagsOK'
  <1> SUFFICES ASSUME FlagsOK, [Next]_vars PROVE FlagsOK'
    OBVIOUS
  <1> USE DEF FlagsOK
  <1>1. pc' \in Labels
    BY DEF Next, vars, Passes, Requests, UpdateMode, AddListener, RemoveListener,
           ChangePhaseOffset, Stop, StopNotify, ThreadLoop, Loop, Idle, Wake, Compute,
           TimedOut, Fire, DivideByZero, OnVSyncEvent, Called, SpuriousWake, Goto, Notify, thread, Labels
  <1>2. running' \in BOOLEAN /\ stopping' \in BOOLEAN
    BY DEF Next, vars, Passes, Requests, UpdateMode, AddListener, RemoveListener,
           ChangePhaseOffset, Stop, StopNotify, ThreadLoop, Loop, Idle, Wake, Compute,
           TimedOut, Fire, DivideByZero, OnVSyncEvent, Called, SpuriousWake, Goto, ctl
  <1>3. woken' \in BOOLEAN
    BY DEF Next, vars, Passes, Requests, UpdateMode, AddListener, RemoveListener,
           ChangePhaseOffset, Stop, StopNotify, ThreadLoop, Loop, Idle, Wake, Compute,
           TimedOut, Fire, DivideByZero, OnVSyncEvent, Called, SpuriousWake, Notify, thread
  <1>4. changed' \in BOOLEAN
    <2>1. ASSUME Change PROVE changed' \in BOOLEAN
      BY <2>1 DEF Change
    <2>2. Change \/ changed' = changed \/ changed' = FALSE
      BY DEF Next, vars, Passes, Requests, UpdateMode, AddListener, RemoveListener,
             ChangePhaseOffset, Stop, StopNotify, ThreadLoop, Loop, Idle, Wake, Compute,
             TimedOut, Fire, DivideByZero, OnVSyncEvent, Called, SpuriousWake
    <2> QED BY <2>1, <2>2
  <1> QED
    BY <1>1, <1>2, <1>3, <1>4

LEMMA ModeStep == GInv /\ [Next]_vars => ModeSeen' /\ Roomy'
  <1> SUFFICES ASSUME GInv, [Next]_vars PROVE ModeSeen' /\ Roomy'
    OBVIOUS
  <1> USE DEF GInv
  <1>1. CASE \/ UNCHANGED vars \/ Passes \/ Stop
             \/ \E c \in Callbacks : OnVSyncEvent(c)
    <2>1. UNCHANGED <<mode, listeners, pc, woken, changed>>
      BY <1>1 DEF vars, Passes, Stop, OnVSyncEvent, reg, thread
    <2> QED BY <2>1 DEF ModeSeen, Roomy, mode
  <1>2. CASE StopNotify
    <2>1. UNCHANGED <<mode, listeners, pc, changed>> /\ woken' = (pc = "wait")
      BY <1>2 DEF StopNotify, Notify, reg
    <2> QED BY <2>1 DEF ModeSeen, Roomy, mode
  <1>3. CASE Requests /\ ~Stop /\ pc # "crashed"
    <2>1. pc' = pc /\ (pc \in {"timed", "fireLate", "fireWoken"} => changed')
      BY <1>1, <1>3 DEF Requests, UpdateMode, AddListener, RemoveListener,
                        ChangePhaseOffset, Stop, Notify, Change, ModeSeen, thread
    <2>2. ModeSeen'
      <3>1. CASE pc # "wait"
        BY <1>3, <2>1, <3>1 DEF ModeSeen
      <3>2. CASE pc = "wait" /\ Notify
        BY <2>1, <3>2 DEF Notify, ModeSeen
      <3>3. CASE pc = "wait" /\ UNCHANGED <<period, listeners, woken>>
        BY <2>1, <3>3 DEF ModeSeen
      <3> QED
        BY <1>3, <3>1, <3>2, <3>3 DEF Requests, UpdateMode, AddListener, RemoveListener,
             ChangePhaseOffset, Stop, mode, reg, thread
    <2>3. Roomy'
      <3>1. ASSUME NEW m \in Modes, UpdateMode(m) PROVE Roomy'
        BY <3>1, ProportionAssumption DEF UpdateMode, Roomy
      <3>2. CASE UNCHANGED mode
        BY <3>2 DEF Roomy, mode
      <3> QED
        BY <1>3, <3>1, <3>2
           DEF Requests, AddListener, RemoveListener, ChangePhaseOffset, Stop
    <2> QED BY <2>2, <2>3
  <1>4. CASE Loop \/ Wake \/ SpuriousWake \/ Fire \/ Called
    <2>1. pc' \in {"loop", "compute", "call", "exit"} /\ UNCHANGED mode
      BY <1>4 DEF Loop, Wake, SpuriousWake, Fire, Called, Goto
    <2> QED BY <2>1 DEF ModeSeen, Roomy, mode
  <1>5. CASE Idle \/ Compute \/ TimedOut \/ DivideByZero
    BY <1>5 DEF ModeSeen, Roomy, TypeOK, NumbersOK, Idle, Compute, TimedOut, DivideByZero,
                Goto, reg, mode
  <1> QED
    BY <1>1, <1>2, <1>3, <1>4, <1>5 DEF Next, ThreadLoop

LEMMA DueStep == GInv /\ [Next]_vars => InTime' /\ (Fresh' => Due')
  <1> SUFFICES ASSUME GInv, [Next]_vars PROVE InTime' /\ (Fresh' => Due')
    OBVIOUS
  <1> USE DEF GInv
  <1>1. ASSUME UNCHANGED <<mode, reg, nextTimeStamp, wakeupDelay>> PROVE Due' = Due
    BY <1>1 DEF Due, Instant, Shift, mode, reg
  <1>2. CASE UNCHANGED vars \/ Passes \/ StopNotify \/ Stop
    <2>1. /\ UNCHANGED <<mode, reg, nextTimeStamp, wakeupDelay, pc, changed>>
          /\ now' \in {now, now + 1}
      BY <1>2 DEF vars, Passes, StopNotify, Stop, Notify, thread
    <2> QED BY <1>1, <2>1 DEF Fresh, InTime, TypeOK, NumbersOK
  <1>3. ASSUME Change, UNCHANGED <<now, pc, nextTimeStamp>> PROVE InTime' /\ (Fresh' => Due')
    BY <1>3 DEF Change, Fresh, InTime
  <1>4. CASE Requests
    BY <1>2, <1>3, <1>4
       DEF Requests, UpdateMode, AddListener, RemoveListener, ChangePhaseOffset, Notify,
           thread
  <1>5. CASE \/ Loop \/ Idle \/ Wake \/ Called \/ SpuriousWake \/ Fire \/ DivideByZero
             \/ \E c \in Callbacks : OnVSyncEvent(c)
    BY <1>5 DEF Loop, Idle, Wake, Called, SpuriousWake, Fire, DivideByZero, OnVSyncEvent,
                Goto, Fresh, InTime
  <1>6. CASE TimedOut
    BY <1>1, <1>6 DEF TimedOut, Goto, Fresh, InTime
  <1>7. CASE Compute
    <2>1. /\ period > 0 /\ pc' \in {"timed", "fireLate"}
          /\ UNCHANGED <<mode, reg, wakeupDelay>>
      BY <1>7 DEF Compute, Goto, TypeOK, NumbersOK
    <2>2. PICK c \in listeners :
            nextTimeStamp' = ComputeListenerNextVSyncTimeStamp(c, now, wakeupDelay)
      BY <1>7 DEF Compute, ComputeNextVSyncTimeStamp
    <2>3. c \in Callbacks /\ now \in Int /\ wakeupDelay \in Nat
      BY GeneratorAssumption DEF TypeOK, NumbersOK, ListenersOK
    <2>4. PICK v \in Int :
            /\ Instant(c, v) /\ nextTimeStamp' = v - wakeupDelay
            /\ v - last[c] >= (3 * period) \div 5
      <3> DEFINE next == ComputeListenerNextVSyncTimeStamp(c, now, wakeupDelay)
                 v == next + wakeupDelay
      <3>1. /\ next \in Int /\ Instant(c, v) /\ v - last[c] >= (3 * period) \div 5
        BY <2>1, <2>3, ListenerCounts, ComputedIs
      <3>2. v \in Int /\ next = v - wakeupDelay
        BY <2>3, <3>1
      <3> QED BY <2>2, <3>1, <3>2
    <2>5. c \in listeners' /\ Instant(c, v)'
      BY <2>1, <2>4 DEF Instant, Shift, mode, reg
    <2>6. Due'
      BY <2>1, <2>4, <2>5, Zenon DEF Due, mode, reg
    <2> QED BY <2>1, <2>6 DEF InTime
  <1> QED
    BY <1>2, <1>4, <1>5, <1>6, <1>7 DEF Next, ThreadLoop

LEMMA GInvInit == Init => GInv
  <1> SUFFICES ASSUME Init PROVE GInv
    OBVIOUS
  <1>1. TypeOK
    <2>1. NumbersOK /\ ListenersOK
      BY GeneratorAssumption DEF Init, NumbersOK, ListenersOK
    <2>2. FlagsOK
      BY DEF Init, FlagsOK, Labels
    <2> QED BY <2>1, <2>2 DEF TypeOK, NumbersOK, ListenersOK
  <1>2. ModeSeen /\ InTime /\ Roomy /\ ~Fresh
    BY DEF Init, ModeSeen, InTime, Roomy, Fresh
  <1> QED
    BY <1>1, <1>2 DEF GInv

LEMMA GInvAlways == Spec => []GInv
  <1>1. GInv /\ [Next]_vars => GInv'
    BY TypeStep, FlagsStep, ModeStep, DueStep DEF GInv, TypeOK
  <1> QED
    BY <1>1, GInvInit, PTL DEF Spec

\* The fields of VSyncGenerator keep their types for all modes and offsets: the average
\* wakeupDelay_ stays between 0 and its cap, although it is fed by clock readings.
THEOREM GeneratorTypeCorrect == Spec => []TypeOK
  BY GInvAlways, PTL DEF GInv

\* The thread of VSyncGenerator waits without a timeout only with nothing to generate or
\* a notification pending, and its second section, which divides by the period untested,
\* finds what its first has seen unless a call came in between.
THEOREM ModeSeenKept == Spec => []ModeSeen
  BY GInvAlways, PTL DEF GInv

-----------------------------------------------------------------------------
(* The order of the vsyncs.                                                *)

LEMMA FireInOrder ==
  ASSUME GInv, Fire, period > 0
  PROVE  \A c \in calls' : /\ last'[c] > last[c]
                           /\ last'[c] - last[c] >= (3 * period) \div 5 - wakeupDelay'
                           /\ last'[c] > now - period - wakeupDelay'
  <1> USE DEF GInv
  <1>1. /\ period > 0 /\ period \in Nat /\ now \in Int /\ now - period \in Int
        /\ wakeupDelay' \in Nat
    BY GeneratorAssumption, AverageDelayIs DEF Fire, InTime, TypeOK, NumbersOK
  <1> SUFFICES ASSUME NEW c \in calls'
               PROVE  /\ last'[c] > last[c]
                      /\ last'[c] - last[c] >= (3 * period) \div 5 - wakeupDelay'
                      /\ last'[c] > now - period - wakeupDelay'
    OBVIOUS
  <1>2. c \in Callbacks
    BY DEF Fire, GetListenerTimeouted, TypeOK, ListenersOK
  <1> DEFINE next == ComputeListenerNextVSyncTimeStamp(c, now - period, wakeupDelay')
  <1>3. last'[c] = next /\ last[c] \in Int /\ Counting(c)
    BY <1>1, <1>2, ListenerCounts DEF Fire
  <1>4. /\ next \in Int /\ next > last[c] /\ next > now - period - wakeupDelay'
        /\ next + wakeupDelay' - last[c] >= (3 * period) \div 5
    BY <1>1, <1>3, ComputedIs
  <1> DEFINE least == (3 * period) \div 5
             delay == wakeupDelay'
  <1>5. /\ least \in Int /\ delay \in Int /\ next \in Int /\ last[c] \in Int
        /\ next + delay - last[c] >= least
    BY <1>1, <1>3, <1>4, ThreeFifths
  <1> HIDE DEF next, least, delay, GInv
  <1>6. next - last[c] >= least - delay
    BY <1>5
  <1> QED
    BY <1>3, <1>4, <1>6 DEF least, delay

\* The listener whose vsync the thread waited for is among the ones called.
LEMMA WakeupNotForNothing ==
  ASSUME GInv, Fire, Fresh
  PROVE  calls' # {}
  <1> USE DEF GInv
  <1>1. /\ period > 0 /\ period \in Nat /\ now \in Int
        /\ wakeupDelay \in Nat /\ MaxDelay \in Nat /\ ErrorThreshold \in Nat
        /\ nextTimeStamp \in Int /\ now >= nextTimeStamp /\ ErrorThreshold > 0
    <2>1. ErrorThreshold > 0
      <3>1. ~(0 * DelayWeight >= MaxDelay + DelayWeight)
        BY GeneratorAssumption
      <3> QED BY <3>1, GeneratorAssumption, ProportionAssumption
    <2> QED
      BY <2>1, GeneratorAssumption DEF Fire, Fresh, ModeSeen, InTime, TypeOK, NumbersOK
  <1>2. wakeupDelay' \in 0..MaxDelay /\ wakeupDelay - wakeupDelay' < ErrorThreshold
    BY <1>1, AverageDelayIs DEF Fire, Fresh, TypeOK, NumbersOK
  <1>3. PICK c \in listeners, v \in Int :
          /\ Instant(c, v) /\ nextTimeStamp = v - wakeupDelay
          /\ v - last[c] >= (3 * period) \div 5
    BY DEF Due
  <1>4. Counting(c) /\ last[c] \in Int
    BY <1>1, ListenerCounts DEF TypeOK, ListenersOK
  <1>5. wakeupDelay' \in Nat /\ wakeupDelay' < (3 * period) \div 5 /\ now - period \in Int
    BY <1>1, <1>2, ThreeFifths DEF Roomy
  <1>6. PICK next \in Int :
          next = ComputeListenerNextVSyncTimeStamp(c, now - period, wakeupDelay')
    BY <1>4, <1>5, ComputedIs
  <1>7. next + wakeupDelay' <= v \/ next + wakeupDelay' <= now
    BY <1>1, <1>3, <1>4, <1>5, <1>6, ComputedNotLater
  <1>8. v - wakeupDelay <= now
    BY <1>1, <1>3
  <1>9. next - now < ErrorThreshold
    <2> DEFINE d == wakeupDelay'
    <2>1. d \in Int /\ d >= 0 /\ wakeupDelay - d < ErrorThreshold
      BY <1>2, <1>5
    <2>2. v \in Int /\ next \in Int /\ (next + d <= v \/ next + d <= now)
      BY <1>3, <1>6, <1>7
    <2> HIDE DEF d
    <2> QED BY <1>1, <1>8, <2>1, <2>2
  <1> QED
    BY <1>3, <1>6, <1>9 DEF Fire, GetListenerTimeouted

\* For all modes, phases, offsets and delays in the code's proportions, and however late
\* the thread of VSyncGenerator runs, as long as there is a period: the vsyncs of a listener advance and keep their
\* distance, none is stale, and a wakeup calls someone unless something has changed.
THEOREM VSyncsAdvance == Spec => VSyncsInOrder
  <1>1. GInv /\ [Next]_vars =>
          [Fires =>
             /\ period > 0 => \A c \in calls' :
                   /\ last'[c] > last[c]
                   /\ last'[c] - last[c] >= (3 * period) \div 5 - wakeupDelay'
                   /\ last'[c] > now - period - wakeupDelay'
             /\ pc = "fireWoken" /\ ~changed => calls' # {}]_vars
    <2> SUFFICES ASSUME GInv, [Next]_vars, Fires
                 PROVE  /\ period > 0 => \A c \in calls' :
                             /\ last'[c] > last[c]
                             /\ last'[c] - last[c] >= (3 * period) \div 5 - wakeupDelay'
                             /\ last'[c] > now - period - wakeupDelay'
                        /\ pc = "fireWoken" /\ ~changed => calls' # {}
      OBVIOUS
    <2>1. Fire
      BY DEF Fires, Next, vars, Passes, Requests, UpdateMode, AddListener, RemoveListener,
             ChangePhaseOffset, Stop, StopNotify, ThreadLoop, Loop, Idle, Wake, Compute,
             TimedOut, DivideByZero, OnVSyncEvent, Called, SpuriousWake, Notify, Goto,
             thread
    <2> QED BY <2>1, FireInOrder, WakeupNotForNothing DEF Fresh
  <1> QED
    BY <1>1, GInvAlways, PTL DEF Spec, VSyncsInOrder
=============================================================================
