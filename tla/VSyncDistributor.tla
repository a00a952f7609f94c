-------------------------- MODULE VSyncDistributor --------------------------
(***************************************************************************)
(* rosen/modules/composer/vsync: a VSyncDistributor with its thread, its   *)
(* VSyncController, the connections it serves and the receivers at the     *)
(* other end of their sockets.                                             *)
(*                                                                         *)
(* Each section that holds mutex_ is one action.  Between them the thread  *)
(* is at a label, as in ThreadMain: at the head of the loop, before the    *)
(* lock, in one of the two waits, posting, or between a failed post and    *)
(* the section that deals with it.                                         *)
(*                                                                         *)
(* Abstractions.  A timestamp is only present or absent, as the thread     *)
(* tells them apart.  vsyncCount counts modulo a common multiple of the    *)
(* rates, which decides vsyncCount % rate as the full count does.  The     *)
(* order in which one round posts to its connections is left open.  A      *)
(* connection whose CreateChannel failed posts like one whose socket is    *)
(* full, with -1, and is not distinguished from it.                        *)
(***************************************************************************)
EXTENDS Integers, FiniteSets

CONSTANTS
    Connections,    \* the VSyncConnection objects that clients create
    Rates,          \* the positive rates that clients ask for
    CountCycle,     \* a common multiple of the rates
    Capacity,       \* bound: events a socket buffers before EAGAIN
    HasController,  \* controller_ is not null
    MaxOwed         \* bound: requests of one connection not yet read

ASSUME RateAssumption ==
    /\ Rates \subseteq Nat \ {0}
    /\ CountCycle \in Nat \ {0}
    /\ \A r \in Rates : CountCycle % r = 0

ASSUME BoundAssumption ==
    /\ Capacity \in Nat \ {0}
    /\ HasController \in BOOLEAN
    /\ MaxOwed \in Nat

VARIABLES
    connections,    \* connections_
    rate,           \* rate_: -1 idle, 0 one vsync requested, n every n-th vsync
    highRate,       \* highPriorityRate_; highPriorityState_ is highRate > 0
    event,          \* event_.timestamp # 0
    vsyncCount,     \* event_.vsyncCount modulo CountCycle
    vsyncEnabled,   \* vsyncEnabled_
    listening,      \* the generator has the controller as a listener
    running,        \* vsyncThreadRunning_
    pc,             \* where the thread is
    woken,          \* the waiting thread has been notified
    conns,          \* collected connections not yet posted to
    failed,         \* the connection whose post has just failed, in a set
    socket,         \* events in each connection's socket
    stopping,       \* the destructor has not notified yet
    added,          \* connections that AddConnection has accepted
    asked,          \* connections whose client waits for a requested vsync
    ahead,          \* events that were in the socket before the last request
    owed,           \* requests accepted and not yet read by the client
    unmetered       \* connections that may get events without a request

registry == <<connections, rate, highRate, added>>
source   == <<event, vsyncCount, vsyncEnabled, listening>>
thread   == <<pc, conns, failed>>
client   == <<socket, asked, ahead, owed, unmetered>>
vars     == <<registry, source, thread, woken, running, stopping, client>>

Labels == {"loop", "collect", "softWait", "wait", "post", "again", "drop", "exit"}

Init ==
    /\ connections = {} /\ added = {}
    /\ rate = [c \in Connections |-> -1]
    /\ highRate = [c \in Connections |-> -1]
    /\ event = FALSE /\ vsyncCount = 0
    /\ vsyncEnabled = FALSE /\ listening = FALSE
    /\ running = TRUE /\ stopping = FALSE
    /\ pc = "loop" /\ woken = FALSE
    /\ conns = {} /\ failed = {}
    /\ socket = [c \in Connections |-> 0]
    /\ asked = {}
    /\ ahead = [c \in Connections |-> 0]
    /\ owed = [c \in Connections |-> 0]
    /\ unmetered = {}

\* con_.notify_all(): only a thread that waits takes notice.
Notify == woken' = (pc \in {"wait", "softWait"})

CountUp == vsyncCount' = (vsyncCount + 1) % CountCycle

-----------------------------------------------------------------------------
(* Calls of the clients, through their connections.                        *)

AddConnection(c) ==
    /\ c \notin connections
    /\ connections' = connections \cup {c}
    /\ added' = added \cup {c}
    /\ UNCHANGED <<rate, highRate, source, thread, woken, running, stopping,
                   client>>

\* The caller gives the connection up, and nobody waits for it any more.
RemoveConnection(c) ==
    /\ c \in connections
    /\ connections' = connections \ {c}
    /\ asked' = asked \ {c}
    /\ UNCHANGED <<rate, highRate, added, source, thread, woken, running,
                   stopping, socket, ahead, owed, unmetered>>

RequestNextVSync_Silent(c) ==
    /\ c \in connections
    /\ asked' = asked \cup {c}
    /\ ahead' = [ahead EXCEPT ![c] = socket[c]]
    /\ IF rate[c] < 0
         THEN /\ owed[c] < MaxOwed
              /\ rate' = [rate EXCEPT ![c] = 0]
              /\ owed' = [owed EXCEPT ![c] = @ + 1]
         ELSE UNCHANGED <<rate, owed>>
    /\ UNCHANGED <<connections, highRate, added, source, thread, running, woken,
                   stopping, socket, unmetered>>

\* Only a request that finds the connection idle changes anything: one that is
\* pending already, or a rate, will bring the vsync.
RequestNextVSync(c) ==
    /\ c \in connections
    /\ asked' = asked \cup {c}
    /\ ahead' = [ahead EXCEPT ![c] = socket[c]]
    /\ IF rate[c] < 0
         THEN /\ owed[c] < MaxOwed
              /\ rate' = [rate EXCEPT ![c] = 0]
              /\ owed' = [owed EXCEPT ![c] = @ + 1]
              /\ Notify
         ELSE UNCHANGED <<rate, owed, woken>>
    /\ UNCHANGED <<connections, highRate, added, source, thread, running,
                   stopping, socket, unmetered>>

SetVSyncRate_AnyRate(c, r) ==
    /\ c \in connections /\ rate[c] # r
    /\ rate' = [rate EXCEPT ![c] = r]
    /\ unmetered' = unmetered \cup {c}
    /\ Notify
    /\ UNCHANGED <<connections, highRate, added, source, thread, running,
                   stopping, socket, asked, ahead, owed>>

SetVSyncRate(c, r) ==
    /\ r > 0
    /\ c \in connections /\ rate[c] # r
    /\ rate' = [rate EXCEPT ![c] = r]
    /\ unmetered' = unmetered \cup {c}
    /\ Notify
    /\ UNCHANGED <<connections, highRate, added, source, thread, running,
                   stopping, socket, asked, ahead, owed>>

SetHighPriorityVSyncRate(c, r) ==
    /\ r > 0
    /\ c \in connections /\ highRate[c] # r
    /\ highRate' = [highRate EXCEPT ![c] = r]
    /\ Notify
    /\ UNCHANGED <<connections, rate, added, source, thread, running, stopping,
                   client>>

\* VSyncCallBackListener::OnReadable reads one event and calls the client back.
\* A vsync that was posted before the request does not answer it.
OnReadable(c) ==
    /\ socket[c] > 0
    /\ socket' = [socket EXCEPT ![c] = @ - 1]
    /\ asked' = IF ahead[c] > 0 THEN asked ELSE asked \ {c}
    /\ ahead' = [ahead EXCEPT ![c] = IF @ > 0 THEN @ - 1 ELSE 0]
    /\ owed' = [owed EXCEPT ![c] = IF @ > 0 THEN @ - 1 ELSE 0]
    /\ UNCHANGED <<registry, source, thread, woken, running, stopping, unmetered>>

-----------------------------------------------------------------------------
(* The source of vsync.                                                    *)

\* VSyncController::SetCallback and SetEnable(true), which registers the
\* controller with the generator.
EnableVSync ==
    IF HasController
      THEN vsyncEnabled' = TRUE /\ listening' = TRUE
      ELSE UNCHANGED <<vsyncEnabled, listening>>

\* The generator calls the controller and the controller its callback.
OnVSyncEvent ==
    /\ listening
    /\ event' = TRUE
    /\ CountUp
    /\ Notify
    /\ UNCHANGED <<registry, vsyncEnabled, listening, thread, running, stopping,
                   client>>

-----------------------------------------------------------------------------
(* ThreadMain.                                                             *)

Goto(label) == pc' = label

\* while (vsyncThreadRunning_ == true), read without the lock
Loop ==
    /\ pc = "loop"
    /\ Goto(IF running THEN "collect" ELSE "exit")
    /\ UNCHANGED <<registry, source, conns, failed, woken, running, stopping,
                   client>>

\* CollectConnections: the rate that counts, and whether a vsync with this
\* count is one that the connection waits for.
EffectiveRate(c) == IF highRate[c] > 0 THEN highRate[c] ELSE rate[c]
Due(c) ==
    \/ EffectiveRate(c) = 0
    \/ EffectiveRate(c) > 0 /\ vsyncCount % EffectiveRate(c) = 0 /\ rate[c] >= 0
Waiters == {c \in connections : Due(c)}

\* There is a vsync for somebody: requests are taken and the thread goes to
\* post, without the lock.
Collect_Twice ==
    /\ pc = "collect" /\ event /\ Waiters # {}
    /\ event' = FALSE
    /\ conns' = Waiters
    /\ Goto("post")
    /\ UNCHANGED <<registry, vsyncCount, vsyncEnabled, listening, failed, woken,
                   running, stopping, client>>

Collect ==
    /\ pc = "collect" /\ event /\ Waiters # {}
    /\ event' = FALSE
    /\ conns' = Waiters
    /\ rate' = [c \in Connections |->
                    IF c \in Waiters /\ rate[c] = 0 THEN -1 ELSE rate[c]]
    /\ Goto("post")
    /\ UNCHANGED <<connections, highRate, added, vsyncCount, vsyncEnabled,
                   listening, failed, woken, running, stopping, client>>

\* There is a vsync and nobody waits for it.
Discard ==
    /\ pc = "collect" /\ event /\ Waiters = {}
    /\ event' = FALSE
    /\ Goto("loop")
    /\ UNCHANGED <<registry, vsyncCount, vsyncEnabled, listening, conns, failed,
                   woken, running, stopping, client>>

\* Somebody waits and vsync is off: enable it and wait for it, with a timeout.
Enable ==
    /\ pc = "collect" /\ ~event /\ Waiters # {} /\ ~vsyncEnabled
    /\ EnableVSync
    /\ Goto("softWait")
    /\ woken' = FALSE
    /\ UNCHANGED <<registry, event, vsyncCount, conns, failed, running, stopping,
                   client>>

Sleep_Unchecked ==
    /\ pc = "collect" /\ ~event /\ (Waiters = {} \/ vsyncEnabled)
    /\ Goto("wait")
    /\ woken' = FALSE
    /\ UNCHANGED <<registry, source, conns, failed, running, stopping, client>>

\* Otherwise wait for a request or a vsync, without a timeout.
Sleep ==
    /\ pc = "collect" /\ ~event /\ (Waiters = {} \/ vsyncEnabled)
    /\ Goto(IF running THEN "wait" ELSE "loop")
    /\ woken' = FALSE
    /\ UNCHANGED <<registry, source, conns, failed, running, stopping, client>>

Wake ==
    /\ pc \in {"wait", "softWait"} /\ woken
    /\ Goto("loop")
    /\ woken' = FALSE
    /\ UNCHANGED <<registry, source, conns, failed, running, stopping, client>>

\* Neither wait has a predicate.
SpuriousWake ==
    /\ pc \in {"wait", "softWait"} /\ ~woken
    /\ Goto("loop")
    /\ UNCHANGED <<registry, source, conns, failed, woken, running, stopping,
                   client>>

\* wait_for reports a timeout, which it may do after a notification too: the
\* thread makes a vsync of its own.
SoftwareVSync ==
    /\ pc = "softWait"
    /\ event' = TRUE
    /\ CountUp
    /\ Goto("loop")
    /\ woken' = FALSE
    /\ UNCHANGED <<registry, vsyncEnabled, listening, conns, failed, running,
                   stopping, client>>

\* PostEvent, which sends on the socket.
PostSent(c) ==
    /\ pc = "post" /\ c \in conns /\ socket[c] < Capacity
    /\ socket' = [socket EXCEPT ![c] = @ + 1]
    /\ conns' = conns \ {c}
    /\ UNCHANGED <<registry, source, pc, failed, woken, running, stopping, asked,
                   ahead, owed, unmetered>>

PostFull(c) ==
    /\ pc = "post" /\ c \in conns /\ socket[c] = Capacity
    /\ conns' = conns \ {c} /\ failed' = {c}
    /\ Goto("again")
    /\ UNCHANGED <<registry, source, woken, running, stopping, client>>

\* SendData repeats send while errno is EINTR, and a send that succeeds leaves
\* errno as it is: once interrupted it sends until the socket is full.
PostInterrupted(c) ==
    /\ pc = "post" /\ c \in conns
    /\ socket' = [socket EXCEPT ![c] = Capacity]
    /\ unmetered' = unmetered \cup {c}
    /\ conns' = conns \ {c} /\ failed' = {c}
    /\ Goto("again")
    /\ UNCHANGED <<registry, source, woken, running, stopping, asked, ahead, owed>>

PostError(c) ==
    /\ pc = "post" /\ c \in conns
    /\ conns' = conns \ {c} /\ failed' = {c}
    /\ Goto("drop")
    /\ UNCHANGED <<registry, source, woken, running, stopping, client>>

PostDone ==
    /\ pc = "post" /\ conns = {}
    /\ Goto("loop")
    /\ UNCHANGED <<registry, source, conns, failed, woken, running, stopping,
                   client>>

Again_Forgets ==
    /\ pc = "again"
    /\ failed' = {}
    /\ Goto("post")
    /\ UNCHANGED <<registry, source, conns, woken, running, stopping, client>>

\* ERRNO_EAGAIN: the request is put back, unless a newer one or a rate is there.
Again ==
    /\ pc = "again"
    /\ rate' = [c \in Connections |->
                    IF c \in failed /\ rate[c] < 0 THEN 0 ELSE rate[c]]
    /\ failed' = {}
    /\ Goto("post")
    /\ UNCHANGED <<connections, highRate, added, source, conns, woken, running,
                   stopping, client>>

\* Any other error: the thread removes the connection.
Drop ==
    /\ pc = "drop"
    /\ connections' = connections \ failed
    /\ asked' = asked \ failed
    /\ failed' = {}
    /\ Goto("post")
    /\ UNCHANGED <<rate, highRate, added, source, conns, woken, running, stopping,
                   socket, ahead, owed, unmetered>>

-----------------------------------------------------------------------------
(* The destructor: the flag under the lock, the notification after it.     *)

Stop ==
    /\ running
    /\ running' = FALSE /\ stopping' = TRUE
    /\ UNCHANGED <<registry, source, thread, woken, client>>

StopNotify ==
    /\ stopping
    /\ stopping' = FALSE
    /\ Notify
    /\ UNCHANGED <<registry, source, thread, running, client>>

-----------------------------------------------------------------------------
(* The specification.  A connection is added once, as its creators do.  A   *)
(* destroyed distributor gets no more events: that the controller keeps its *)
(* pointer, since nothing disables it, is not modelled.                     *)

Calls ==
    \/ \E c \in Connections \ added : AddConnection(c)
    \/ \E c \in Connections :
          \/ RemoveConnection(c) \/ RequestNextVSync(c)
          \/ \E r \in Rates \cup {-2, 0} :
                SetVSyncRate(c, r) \/ SetHighPriorityVSyncRate(c, r)

ThreadMain ==
    \/ Loop \/ Collect \/ Discard \/ Enable \/ Sleep \/ Wake \/ SoftwareVSync
    \/ \E c \in Connections : PostSent(c) \/ PostFull(c) \/ PostInterrupted(c)
                                \/ PostError(c)
    \/ PostDone \/ Again \/ Drop

Next ==
    \/ running /\ Calls
    \/ \E c \in Connections : OnReadable(c)
    \/ pc # "exit" /\ OnVSyncEvent
    \/ ThreadMain \/ SpuriousWake
    \/ Stop \/ StopNotify

Spec == Init /\ [][Next]_vars

-----------------------------------------------------------------------------
(* Properties.                                                             *)

RegistryOK ==
    /\ connections \subseteq added /\ added \subseteq Connections
    /\ rate \in [Connections -> {-1, 0} \cup Rates]
    /\ highRate \in [Connections -> {-1} \cup Rates]

SourceOK ==
    /\ event \in BOOLEAN /\ vsyncCount \in 0..(CountCycle - 1)
    /\ vsyncEnabled \in BOOLEAN /\ listening \in BOOLEAN

ThreadOK ==
    /\ running \in BOOLEAN /\ stopping \in BOOLEAN
    /\ pc \in Labels /\ woken \in BOOLEAN
    /\ conns \subseteq Connections /\ failed \subseteq Connections

ClientOK ==
    /\ socket \in [Connections -> 0..Capacity]
    /\ asked \subseteq Connections
    /\ ahead \in [Connections -> 0..Capacity]
    /\ owed \in [Connections -> 0..MaxOwed]
    /\ unmetered \subseteq Connections

\* The fields of the distributor, its connections and its thread have their
\* types.
TypeOK == RegistryOK /\ SourceOK /\ ThreadOK /\ ClientOK

\* A client that was told OK by RequestNextVSync and still waits has its request
\* somewhere: in rate_, among the connections about to be posted to or just
\* failed, or as an event that was sent after it.  Taking the request before the
\* lock is released, and putting it back after EAGAIN, loses none.
RequestKept ==
    \A c \in asked :
        rate[c] >= 0 \/ c \in conns \cup failed \/ socket[c] > ahead[c]

\* A client gets at most one vsync per request: what is pending for it, taken,
\* failed and sent never exceeds what it asked for and has not read, as long as
\* it set no rate and no send was interrupted.
Pending(c) ==
    (IF rate[c] = 0 THEN 1 ELSE 0) + (IF c \in conns \cup failed THEN 1 ELSE 0)
NoUnaskedVSync ==
    \A c \in Connections \ unmetered : Pending(c) + socket[c] <= owed[c]

\* The thread sleeps without a timeout only when nothing is left for it: no
\* vsync has come, and a connection that wants one, at whatever rate, has the
\* generator turned on.
NoSleepOnRequest ==
    (pc = "wait" /\ ~woken) =>
        /\ ~event
        /\ (\E c \in connections : Due(c)) => listening
        /\ HasController /\ (\E c \in connections : rate[c] >= 0) => listening

-----------------------------------------------------------------------------
(* Liveness.                                                               *)

\* The thread is scheduled, its timed wait ends and is not cut short for ever by
\* spurious wakeups, receivers read their sockets, and a generator with a listener
\* keeps calling it.
Fairness ==
    /\ WF_vars(ThreadMain)
    /\ SF_vars(SoftwareVSync)
    /\ \A c \in Connections : WF_vars(OnReadable(c))
    /\ WF_vars(pc # "exit" /\ OnVSyncEvent)
    /\ WF_vars(StopNotify)

FairSpec == Spec /\ Fairness

\* A client that asks for the next vsync gets it, unless it leaves, asks for a
\* rate (whose vsync the thread may miss again and again while it posts), keeps
\* asking again before it has read what is there, or the distributor is destroyed.
AsksUnread(c) == RequestNextVSync(c) /\ socket[c] > 0
RequestAnswered ==
    \A c \in Connections :
        \/ []<><<AsksUnread(c)>>_vars
        \/ c \in asked ~>
               (c \notin asked \/ rate[c] > 0 \/ highRate[c] > 0 \/ ~running)

\* The destructor's join returns: the thread ends once it is told to.
ThreadJoins == ~running ~> pc = "exit"
=============================================================================
