--------------------------- MODULE VSyncGenerator ---------------------------
(***************************************************************************)
(* rosen/modules/composer/vsync/src/vsync_generator.cpp: the thread that   *)
(* turns the mode estimated by the VSyncSampler (period, phase, reference  *)
(* time) into calls of its listeners, each with a phase of its own.        *)
(*                                                                         *)
(* Time is an integer that passes by itself; GetSysTimeNs() reads it.  The *)
(* sections under mutex_ are atomic.  Divisions are the code's, on values  *)
(* that are not negative there.                                            *)
(*                                                                         *)
(* The callers keep one rule here: a callback is not added while it is     *)
(* registered (VSyncDistributor::EnableVSync adds it once).  The mode may  *)
(* go back to period 0 at any time: VSyncSampler::AddSample sends what     *)
(* Reset has left.  A division by 0 has the outcomes of the processors     *)
(* the code is built for: it ends the process, or the quotient is 0 (ARM). *)
(***************************************************************************)
EXTENDS Integers, FiniteSets

CONSTANTS
    Callbacks,      \* the controllers
    Offsets,        \* the phase offsets that controllers ask for
    Modes,          \* arguments of UpdateMode: period, phase, reference time
    ErrorThreshold, \* errorThreshold
    MaxDelay,       \* maxWaleupDelay
    DelayWeight,    \* 64: the weight of the old average in wakeupDelay_
    MaxTime         \* bound: the last instant

ASSUME GeneratorAssumption ==
    /\ Offsets \subseteq Int
    /\ \A m \in Modes : m.period \in Int /\ m.phase \in Int /\ m.ref \in Int
    /\ ErrorThreshold \in Nat /\ MaxDelay \in Nat
    /\ DelayWeight \in Nat \ {0}
    /\ MaxTime \in Nat

\* The proportions of the code's constants (500000, 1500000 and 64): the threshold
\* exceeds what one average takes off the delay, and the largest delay is below three
\* fifths of a period, which it is below 400 vsyncs a second.
ASSUME ProportionAssumption ==
    /\ MaxDelay + DelayWeight <= ErrorThreshold * DelayWeight
    /\ \A m \in Modes : m.period > 0 => MaxDelay < (3 * m.period) \div 5

VARIABLES
    now,            \* the steady clock
    period, phase, refrenceTime, wakeupDelay,
    listeners,      \* the callbacks in listeners_
    offset,         \* phase_ of each listener
    last,           \* lastTime_ of each listener
    running,        \* vsyncThreadRunning_
    stopping,       \* the destructor has not notified yet
    pc,             \* where the thread is
    woken,          \* the thread in con_.wait has been notified
    nextTimeStamp,  \* the instant the thread waits for, 0 when it does not
    calls,          \* listeners timed out and not yet called
    changed         \* mode or listeners have changed since Compute

mode   == <<period, phase, refrenceTime>>
reg    == <<listeners, offset, last>>
ctl    == <<running, stopping>>
thread == <<pc, woken, nextTimeStamp, calls, wakeupDelay>>
vars   == <<now, mode, reg, ctl, thread, changed>>

Labels == {"loop", "compute", "wait", "timed", "fireLate", "fireWoken", "call",
           "exit", "crashed"}

Init ==
    /\ now = 0
    /\ period = 0 /\ phase = 0 /\ refrenceTime = 0 /\ wakeupDelay = 0
    /\ listeners = {}
    /\ offset = [c \in Callbacks |-> 0]
    /\ last = [c \in Callbacks |-> 0]
    /\ running = TRUE /\ stopping = FALSE
    /\ pc = "loop" /\ woken = FALSE
    /\ nextTimeStamp = 0 /\ calls = {} /\ changed = FALSE

Passes == now < MaxTime /\ now' = now + 1 /\ UNCHANGED <<mode, reg, ctl, thread, changed>>

\* con_.notify_all(); nobody notifies waitForTimeoutCon_.
Notify ==
    /\ woken' = (pc = "wait")
    /\ UNCHANGED <<pc, nextTimeStamp, calls, wakeupDelay>>

\* Mode or listeners change while the thread waits for the time it computed.
Change == changed' = (pc \in {"timed", "fireLate", "fireWoken"})

-----------------------------------------------------------------------------
(* The instant of a listener's next vsync.                                 *)

Larger(a, b) == IF a >= b THEN a ELSE b

\* The first multiple of the period, moved by both phases, after t.  Without a period
\* it is the division by 0 where that does not trap.
NextMultiple(c, t) ==
    LET shift == refrenceTime + phase + offset[c] IN
    IF t - shift < 0 \/ period = 0 THEN shift
                     ELSE ((t - shift) \div period + 1) * period + shift

ComputeListenerNextVSyncTimeStamp_NoGap(c, t, d) ==
    NextMultiple(c, Larger(t, last[c] + d)) - d

\* A vsync too close to the last one is skipped, and the average delay d of the
\* wakeups is taken off.
ComputeListenerNextVSyncTimeStamp(c, t, d) ==
    LET next == NextMultiple(c, Larger(t, last[c] + d)) IN
    (IF next - last[c] < (3 * period) \div 5 THEN next + period ELSE next) - d

-----------------------------------------------------------------------------
(* Calls of the sampler and the controllers.                               *)

UpdateMode_Silent(m) ==
    /\ m.period >= 0 /\ m.ref >= 0
    /\ period' = m.period /\ phase' = m.phase /\ refrenceTime' = m.ref
    /\ Change
    /\ UNCHANGED <<now, reg, ctl, thread>>

UpdateMode(m) ==
    /\ m.period >= 0 /\ m.ref >= 0
    /\ period' = m.period /\ phase' = m.phase /\ refrenceTime' = m.ref
    /\ Notify /\ Change
    /\ UNCHANGED <<now, reg, ctl>>

\* The last vsync of a new listener is half a period ago.
AddListener(c, o) ==
    /\ listeners' = listeners \cup {c}
    /\ offset' = [offset EXCEPT ![c] = o]
    /\ last' = [last EXCEPT ![c] = now - period \div 2 + phase]
    /\ Notify /\ Change
    /\ UNCHANGED <<now, mode, ctl>>

\* The fields of a listener that is gone are of no account.
RemoveListener(c) ==
    /\ c \in listeners
    /\ listeners' = listeners \ {c}
    /\ offset' = [offset EXCEPT ![c] = 0]
    /\ last' = [last EXCEPT ![c] = 0]
    /\ Notify /\ Change
    /\ UNCHANGED <<now, mode, ctl>>

ChangePhaseOffset(c, o) ==
    /\ c \in listeners
    /\ offset' = [offset EXCEPT ![c] = o]
    /\ Change
    /\ UNCHANGED <<now, mode, listeners, last, ctl, thread>>

\* The destructor.
Stop ==
    /\ running /\ running' = FALSE /\ stopping' = TRUE
    /\ UNCHANGED <<now, mode, reg, thread, changed>>

StopNotify ==
    /\ stopping /\ stopping' = FALSE
    /\ Notify
    /\ UNCHANGED <<now, mode, reg, running, changed>>

-----------------------------------------------------------------------------
(* ThreadLoop.                                                             *)

Goto(label) == pc' = label /\ UNCHANGED <<now, mode, ctl>>

\* while (vsyncThreadRunning_ == true), read without the lock
Loop ==
    /\ pc = "loop"
    /\ Goto(IF running THEN "compute" ELSE "exit")
    /\ UNCHANGED <<reg, woken, nextTimeStamp, calls, wakeupDelay, changed>>

\* No period or no listener: wait, without a timeout.
Idle ==
    /\ pc = "compute" /\ (period = 0 \/ listeners = {})
    /\ Goto(IF running THEN "wait" ELSE "loop")
    /\ woken' = FALSE
    /\ UNCHANGED <<reg, nextTimeStamp, calls, wakeupDelay, changed>>

Wake ==
    /\ pc = "wait" /\ woken
    /\ Goto("loop")
    /\ woken' = FALSE
    /\ UNCHANGED <<reg, nextTimeStamp, calls, wakeupDelay, changed>>

\* A wait without a predicate may return by itself.
SpuriousWake ==
    /\ (pc = "wait" /\ ~woken) \/ pc = "timed"
    /\ nextTimeStamp' = 0 /\ changed' = FALSE
    /\ Goto("loop")
    /\ UNCHANGED <<reg, woken, calls, wakeupDelay>>

\* The earliest instant of all listeners: a set with that one member.
ComputeNextVSyncTimeStamp(t) ==
    LET times == {ComputeListenerNextVSyncTimeStamp(c, t, wakeupDelay) :
                      c \in listeners}
    IN  {next \in times : \A other \in times : next <= other}

\* The next vsync of all listeners; one that is over already is not waited for.
Compute ==
    /\ pc = "compute" /\ period # 0 /\ listeners # {}
    /\ nextTimeStamp' \in ComputeNextVSyncTimeStamp(now)
    /\ Goto(IF now < nextTimeStamp' THEN "timed" ELSE "fireLate")
    /\ changed' = FALSE
    /\ UNCHANGED <<reg, woken, calls, wakeupDelay>>

TimedOut ==
    /\ pc = "timed" /\ now >= nextTimeStamp
    /\ Goto("fireWoken")
    /\ UNCHANGED <<reg, woken, nextTimeStamp, calls, wakeupDelay, changed>>

AverageDelay_NoCap ==
    (wakeupDelay * (DelayWeight - 1) + (now - nextTimeStamp)) \div DelayWeight

\* A moving average of how late the thread wakes up, with a cap.
AverageDelay ==
    LET avg == (wakeupDelay * (DelayWeight - 1) + (now - nextTimeStamp))
                   \div DelayWeight
    IN  IF avg > MaxDelay THEN MaxDelay ELSE avg

\* The listeners whose vsync of the last period is over, or nearly so.
GetListenerTimeouted(t, d) ==
    {c \in listeners : ComputeListenerNextVSyncTimeStamp(c, t - period, d) - t
                           < ErrorThreshold}

\* The second section: the vsync of each of them is recorded, and the thread
\* goes to call them, without the lock.
Fire ==
    /\ pc \in {"fireLate", "fireWoken"}
    /\ wakeupDelay' = IF pc = "fireWoken" THEN AverageDelay ELSE wakeupDelay
    /\ calls' = GetListenerTimeouted(now, wakeupDelay')
    /\ last' = [c \in Callbacks |->
                   IF c \in calls'
                     THEN ComputeListenerNextVSyncTimeStamp(c, now - period,
                                                            wakeupDelay')
                     ELSE last[c]]
    /\ nextTimeStamp' = 0 /\ changed' = FALSE
    /\ Goto("call")
    /\ UNCHANGED <<listeners, offset, woken>>

\* The second section does not look at the period again: the division traps.
DivideByZero ==
    /\ pc \in {"fireLate", "fireWoken"} /\ period = 0 /\ listeners # {}
    /\ Goto("crashed")
    /\ UNCHANGED <<reg, woken, nextTimeStamp, calls, wakeupDelay, changed>>

\* OnVSyncEvent, also of a listener that was removed meanwhile.
OnVSyncEvent(c) ==
    /\ pc = "call" /\ c \in calls
    /\ calls' = calls \ {c}
    /\ UNCHANGED <<now, mode, reg, ctl, pc, woken, nextTimeStamp, wakeupDelay,
                   changed>>

Called ==
    /\ pc = "call" /\ calls = {}
    /\ Goto("loop")
    /\ UNCHANGED <<reg, woken, nextTimeStamp, calls, wakeupDelay, changed>>

-----------------------------------------------------------------------------
(* The specification.                                                      *)

Requests ==
    \/ \E m \in Modes : UpdateMode(m)
    \/ \E c \in Callbacks \ listeners, o \in Offsets : AddListener(c, o)
    \/ \E c \in Callbacks : RemoveListener(c)
    \/ \E c \in Callbacks, o \in Offsets : ChangePhaseOffset(c, o)
    \/ Stop

ThreadLoop ==
    \/ Loop \/ Idle \/ Wake \/ Compute \/ TimedOut \/ Fire \/ DivideByZero
    \/ \E c \in Callbacks : OnVSyncEvent(c)
    \/ Called

Next ==
    /\ pc # "crashed"
    /\ Passes \/ (running /\ Requests) \/ StopNotify \/ ThreadLoop \/ SpuriousWake

Spec == Init /\ [][Next]_vars

-----------------------------------------------------------------------------
(* Properties.                                                             *)

NumbersOK ==
    /\ now \in 0..MaxTime /\ nextTimeStamp \in Int
    /\ period \in Nat /\ phase \in Int /\ refrenceTime \in Nat
    /\ wakeupDelay \in 0..MaxDelay
ListenersOK ==
    /\ listeners \subseteq Callbacks /\ calls \subseteq Callbacks
    /\ offset \in [Callbacks -> Int] /\ last \in [Callbacks -> Int]
FlagsOK ==
    /\ running \in BOOLEAN /\ stopping \in BOOLEAN
    /\ woken \in BOOLEAN /\ changed \in BOOLEAN
    /\ pc \in Labels

\* The mode, the listeners and the thread have their types, and the average of the
\* delays stays between 0 and its cap.
TypeOK == NumbersOK /\ ListenersOK /\ FlagsOK

\* The thread's view of the mode over the two locked sections of a round.  It sleeps
\* without a timeout only when it has nothing to generate or a notification is pending,
\* although mode and listeners come and go from other threads; and its second section,
\* which divides by the period without looking at it, finds a period and listeners as
\* the first did unless somebody has changed them in between: only then can it divide
\* by 0 and end the process.
ModeSeen ==
    /\ pc = "wait" /\ ~woken => period = 0 \/ listeners = {}
    /\ pc \in {"timed", "fireLate", "fireWoken", "crashed"} /\ ~changed =>
           period > 0 /\ listeners # {}

Fires == pc \in {"fireLate", "fireWoken"} /\ pc' = "call"

\* However late the thread runs, and although mode, phase or delay change between two
\* rounds, as long as there is a period: the vsyncs of one listener advance and are at
\* least three fifths of a period apart but for the wakeup delay, none is more than one
\* period old but for the delay, and a wakeup is not for nothing: with mode and listeners
\* as they were when the time to wake up was computed, a listener is called.
VSyncsInOrder ==
    [][Fires =>
         /\ period > 0 => \A c \in calls' :
               /\ last'[c] > last[c]
               /\ last'[c] - last[c] >= (3 * period) \div 5 - wakeupDelay'
               /\ last'[c] > now - period - wakeupDelay'
         /\ pc = "fireWoken" /\ ~changed => calls' # {}]_vars
=============================================================================
