-------------------------- MODULE RSRenderService --------------------------
(***************************************************************************)
(* RSRenderService and the RSRenderServiceConnection objects it hands out, *)
(* over the screen manager: what clients make through a connection, and    *)
(* how it is taken back when a client dies or its connection is replaced.  *)
(*                                                                         *)
(* Calls of clients run on binder threads; each is sent, keeps a strong    *)
(* reference to the connection while it is in flight, and may still be     *)
(* running, or not yet picked up, when the client's death is handled.      *)
(* A connection is destroyed by whoever drops the last reference, and the  *)
(* destructor cleans too.  A client is its process and its token: it makes *)
(* one connection at a time, and names only virtual screens and surfaces   *)
(* of its own: SetVirtualScreenSurface holds no lock that two connections  *)
(* share, so that it could give one surface to screens of two clients.     *)
(* No screen is plugged in or out here, so that all screens are virtual.   *)
(***************************************************************************)
EXTENDS RSScreenManager, SequencesExt

CONSTANTS
    Clients,            \* client processes, each with its connection token
    NoConn,             \* nullptr
    SurfaceOf,          \* the surfaces a client has made
    Operations,         \* what clients ask for
    MaxCalls,           \* bound: calls in flight on a connection
    MaxInputs           \* bound: calls, connections and deaths of clients in all

Conns == Callbacks      \* a connection has one callback, named after it

ASSUME ServiceAssumption ==
    /\ NoConn \notin Conns
    /\ SurfaceOf \in [Clients -> SUBSET Surfaces]
    /\ \A cl, d \in Clients : cl # d => SurfaceOf[cl] \cap SurfaceOf[d] = {}
    /\ MaxCalls \in Nat /\ MaxInputs \in Nat

VARIABLES
    alive,              \* the client's process is there
    proxy,              \* the connection the client holds a proxy of
    creating,           \* the client's CreateConnection call: its step and connections
    connections,        \* connections_: by token
    state,              \* the object: "unused", "live", "dying" (destructor), "gone"
    owner,              \* remotePid_ and token_
    watched,            \* a death recipient is set and has not been called
    virtualScreenIds,   \* virtualScreenIds_
    hasCallback,        \* screenChangeCallback_ is not null
    vsyncListed,        \* vsyncConnections_ has the connection's VSyncConnection
    cleanDone,          \* cleanDone_
    cleaning,           \* the step that CleanAll is in
    locked,             \* the connection's mutex is held between two steps
    calls,              \* the calls in flight
    inputs,             \* how much clients have done so far
    tasks,              \* tasks posted to the main thread
    distributor,        \* connections whose VSyncConnection the distributor has
    cacheCommandQueue,  \* connections with a transaction that is not processed yet
    nodes,              \* connections whose node is in the main thread's node map
    late,               \* calls were in flight when CleanAll began
    overtaken           \* a transaction was waiting when the client's nodes were dropped

connVars == <<state, owner, watched, virtualScreenIds, hasCallback, vsyncListed,
              cleanDone, cleaning, locked, calls, late>>
clientVars == <<alive, proxy, creating, inputs>>
nodeVars == <<cacheCommandQueue, nodes, overtaken>>
vars == <<screenVars, clientVars, connections, connVars, tasks, distributor, nodeVars,
          aborted>>

Idle == [at |-> "idle", conn |-> NoConn, old |-> NoConn]

Init ==
    /\ ScreenInit
    /\ alive = [cl \in Clients |-> TRUE]
    /\ proxy = [cl \in Clients |-> NoConn]
    /\ creating = [cl \in Clients |-> Idle]
    /\ connections = [cl \in Clients |-> NoConn]
    /\ state = [c \in Conns |-> "unused"]
    /\ owner = [c \in Conns |-> NoConn]
    /\ watched = [c \in Conns |-> FALSE]
    /\ virtualScreenIds = [c \in Conns |-> {}]
    /\ hasCallback = [c \in Conns |-> FALSE]
    /\ vsyncListed = [c \in Conns |-> FALSE]
    /\ cleanDone = [c \in Conns |-> FALSE]
    /\ cleaning = [c \in Conns |-> "no"]
    /\ locked = [c \in Conns |-> FALSE]
    /\ calls = [c \in Conns |-> {}]
    /\ inputs = 0
    /\ tasks = <<>>
    /\ distributor = {}
    /\ cacheCommandQueue = {}
    /\ nodes = {}
    /\ late = [c \in Conns |-> FALSE]
    /\ overtaken = {}

-----------------------------------------------------------------------------
(* Making connections. *)

\* Objects that were not used yet do not differ.
Unused == {c \in Conns : state[c] = "unused"}
Fresh  == CHOOSE c \in Unused : TRUE

Input == inputs < MaxInputs /\ inputs' = inputs + 1

ConnectCalled(cl) ==
    /\ alive[cl] /\ proxy[cl] = NoConn /\ creating[cl].at = "idle"
    /\ Cardinality(Unused) > Cardinality({d \in Clients : creating[d].at = "called"})
    /\ Input
    /\ creating' = [creating EXCEPT ![cl].at = "called"]
    /\ UNCHANGED <<screenVars, alive, proxy, connections, connVars, tasks, distributor,
                   nodeVars, aborted>>

\* The constructor sets a death recipient, which fails when the client is dead already.
ConstructConnection(cl, c) ==
    /\ creating[cl].at = "called"
    /\ creating' = [creating EXCEPT ![cl] = [at |-> "made", conn |-> c, old |-> NoConn]]
    /\ state' = [state EXCEPT ![c] = "live"]
    /\ owner' = [owner EXCEPT ![c] = cl]
    /\ watched' = [watched EXCEPT ![c] = alive[cl]]
    /\ UNCHANGED <<screenVars, alive, proxy, inputs, connections, virtualScreenIds, hasCallback,
                   vsyncListed, cleanDone, cleaning, locked, calls, late, tasks,
                   distributor, nodeVars, aborted>>

\* A connection with the same token is replaced, and its reference dropped.
InsertConnection(cl) ==
    /\ creating[cl].at = "made"
    /\ creating' = [creating EXCEPT ![cl].at = "inserted", ![cl].old = connections[cl]]
    /\ connections' = [connections EXCEPT ![cl] = creating[cl].conn]
    /\ UNCHANGED <<screenVars, alive, proxy, inputs, connVars, tasks, distributor, nodeVars, aborted>>

\* Mutant: the old connection is left to be destroyed by another thread.
ReplyConnection_NoWait(cl) ==
    /\ creating[cl].at = "inserted"
    /\ \/ alive[cl] /\ proxy' = [proxy EXCEPT ![cl] = creating[cl].conn]
       \/ UNCHANGED proxy
    /\ creating' = [creating EXCEPT ![cl] = Idle]
    /\ UNCHANGED <<screenVars, alive, inputs, connections, connVars, tasks, distributor,
                   nodeVars, aborted>>

\* The call returns when the old connection's destructor is through; a reply that
\* cannot be read leaves the client without a connection, to ask again.
ReplyConnection(cl) ==
    /\ creating[cl].at = "inserted"
    /\ LET old == creating[cl].old
       IN  alive[cl] /\ old # NoConn => state[old] = "gone"
    /\ \/ alive[cl] /\ proxy' = [proxy EXCEPT ![cl] = creating[cl].conn]
       \/ UNCHANGED proxy
    /\ creating' = [creating EXCEPT ![cl] = Idle]
    /\ UNCHANGED <<screenVars, alive, inputs, connections, connVars, tasks, distributor, nodeVars,
                   aborted>>

ClientDies(cl) ==
    /\ alive[cl]
    /\ Input
    /\ alive' = [alive EXCEPT ![cl] = FALSE]
    /\ proxy' = [proxy EXCEPT ![cl] = NoConn]
    /\ UNCHANGED <<screenVars, creating, connections, connVars, tasks, distributor, nodeVars,
                   aborted>>

-----------------------------------------------------------------------------
(* Calls on a connection. *)

OwnIds(c) == virtualScreenIds[c] \ {INVALID_SCREEN_ID}
Call(op, id, s) == [op |-> op, id |-> id, surface |-> s]
NoId == INVALID_SCREEN_ID

\* What the client may ask: it uses no id that it has asked to remove.
Askable(c) ==
    LET free == {id \in OwnIds(c) : \A k \in calls[c] : k.id # id}
        surf == SurfaceOf[owner[c]]
    IN  {Call("create", m, s) : m \in Mirrored, s \in surf \cup {NoSurface}}
          \cup {Call("surface", id, s) : id \in free, s \in surf}
          \cup {Call("remove", id, NoSurface) : id \in free}
          \cup {Call(op, NoId, NoSurface) : op \in {"callback", "noCallback", "node", "commit"}}
          \cup (IF c \in distributor \/ vsyncListed[c] THEN {}
                ELSE {Call("vsync", NoId, NoSurface)})

\* The bound on virtual screens, counting the ones that are being made.
Room == LET asked(c) == Cardinality({k \in calls[c] : k.op = "create"})
        IN  Cardinality(DOMAIN screens \ Phys) + FoldSet(LAMBDA c, n : n + asked(c), 0, Conns)
              < MaxVirtual

SendCall(c, k) ==
    /\ state[c] = "live" /\ alive[owner[c]] /\ proxy[owner[c]] = c
    /\ Cardinality(calls[c]) < MaxCalls /\ Input
    /\ k \in Askable(c) \ calls[c] /\ k.op \in Operations
    /\ k.op = "create" => Room
    /\ calls' = [calls EXCEPT ![c] = @ \cup {k}]
    /\ UNCHANGED <<screenVars, alive, proxy, creating, connections, state, owner, watched,
                   virtualScreenIds, hasCallback, vsyncListed, cleanDone, cleaning, locked,
                   late, tasks, distributor, nodeVars, aborted>>

\* The call k of c is in flight, at its step op.
At(c, k, op) == k \in calls[c] /\ k.op = op
Return(c, k) == calls' = [calls EXCEPT ![c] = @ \ {k}]
Goes(c, k, op) == calls' = [calls EXCEPT ![c] = (@ \ {k}) \cup {[k EXCEPT !.op = op]}]

CallCreateVirtualScreen(c, k) ==
    /\ At(c, k, "create") /\ ~locked[c]
    /\ CreateVirtualScreen(k.surface, k.id)
    /\ virtualScreenIds' = [virtualScreenIds EXCEPT ![c] = @ \cup {CreatedId(k.surface)}]
    /\ Return(c, k)
    /\ UNCHANGED <<clientVars, connections, state, owner, watched, hasCallback, vsyncListed,
                   cleanDone, cleaning, locked, late, tasks, distributor, nodeVars, aborted>>

\* SetVirtualScreenSurface looks for another user of the surface, under the
\* connection's mutex only.
CallCheckSurface(c, k) ==
    /\ At(c, k, "surface") /\ ~locked[c]
    /\ IF SurfaceUsed(k.surface, DOMAIN screens \ {k.id})
         THEN Return(c, k) /\ UNCHANGED locked
         ELSE Goes(c, k, "assign") /\ locked' = [locked EXCEPT ![c] = TRUE]
    /\ UNCHANGED <<screenVars, clientVars, connections, state, owner, watched,
                   virtualScreenIds, hasCallback, vsyncListed, cleanDone, cleaning,
                   late, tasks, distributor, nodeVars, aborted>>

\* The screen may be gone by now.
CallAssignSurface(c, k) ==
    /\ At(c, k, "assign")
    /\ AssignSurface(k.id, k.surface)
    /\ locked' = [locked EXCEPT ![c] = FALSE]
    /\ Return(c, k)
    /\ UNCHANGED <<clientVars, connections, state, owner, watched, virtualScreenIds,
                   hasCallback, vsyncListed, cleanDone, cleaning, late, tasks,
                   distributor, nodeVars>>

\* Mutant: the id stays in virtualScreenIds_.
CallRemoveVirtualScreen_KeepsId(c, k) ==
    /\ At(c, k, "remove") /\ ~locked[c]
    /\ RemoveVirtualScreen(k.id)
    /\ Return(c, k)
    /\ UNCHANGED <<callbacks, told, flapped, clientVars, connections, state, owner, watched,
                   virtualScreenIds, hasCallback, vsyncListed, cleanDone, cleaning, locked,
                   late, tasks, distributor, nodeVars, aborted>>

CallRemoveVirtualScreen(c, k) ==
    /\ At(c, k, "remove") /\ ~locked[c]
    /\ RemoveVirtualScreen(k.id)
    /\ virtualScreenIds' = [virtualScreenIds EXCEPT ![c] = @ \ {k.id}]
    /\ Return(c, k)
    /\ UNCHANGED <<callbacks, told, flapped, clientVars, connections, state, owner, watched,
                   hasCallback, vsyncListed, cleanDone, cleaning, locked, late, tasks,
                   distributor, nodeVars, aborted>>

\* SetScreenChangeCallback with null, with the callback that is set already, which is
\* refused, or with another, added when the old one is removed: the mutex of the connection
\* is held over both, and no screen comes or goes in between here.
CallSetCallback(c, k) ==
    /\ \/ /\ At(c, k, "callback")
          /\ \/ hasCallback[c] /\ UNCHANGED <<callbacks, told, flapped>>
             \/ AddScreenChangeCallback(c)
          /\ hasCallback' = [hasCallback EXCEPT ![c] = TRUE]
       \/ /\ At(c, k, "noCallback")
          /\ IF hasCallback[c] THEN RemoveScreenChangeCallback({c})
             ELSE UNCHANGED <<callbacks, told, flapped>>
          /\ hasCallback' = [hasCallback EXCEPT ![c] = FALSE]
    /\ ~locked[c]
    /\ Return(c, k)
    /\ UNCHANGED <<screens, defaultScreenId, mipiChecked, pendingEvents, processing,
                   connectedIds, freeIds, virtualNum, clientVars, connections, state, owner,
                   watched, virtualScreenIds, vsyncListed, cleanDone, cleaning, locked,
                   late, tasks, distributor, nodeVars, aborted>>

\* CreateVSyncConnection gives the connection to the distributor, then lists it.
CallAddVSync(c, k) ==
    /\ At(c, k, "vsync")
    /\ distributor' = distributor \cup {c}
    /\ Goes(c, k, "list")
    /\ UNCHANGED <<screenVars, clientVars, connections, state, owner, watched,
                   virtualScreenIds, hasCallback, vsyncListed, cleanDone, cleaning, locked,
                   late, tasks, nodeVars, aborted>>

\* Mutant: the connection is given to the distributor only.
CallListVSync_Unlisted(c, k) ==
    /\ At(c, k, "list") /\ ~locked[c]
    /\ Return(c, k)
    /\ UNCHANGED <<screenVars, clientVars, connections, state, owner, watched,
                   virtualScreenIds, hasCallback, vsyncListed, cleanDone, cleaning, locked,
                   late, tasks, distributor, nodeVars, aborted>>

CallListVSync(c, k) ==
    /\ At(c, k, "list") /\ ~locked[c]
    /\ vsyncListed' = [vsyncListed EXCEPT ![c] = TRUE]
    /\ Return(c, k)
    /\ UNCHANGED <<screenVars, clientVars, connections, state, owner, watched,
                   virtualScreenIds, hasCallback, cleanDone, cleaning, locked, late,
                   tasks, distributor, nodeVars, aborted>>

\* CreateNodeAndSurface posts the registration of the node.
CallCreateNode(c, k) ==
    /\ At(c, k, "node")
    /\ tasks' = Append(tasks, [do |-> "register", conn |-> c])
    /\ Return(c, k)
    /\ UNCHANGED <<screenVars, clientVars, connections, state, owner, watched,
                   virtualScreenIds, hasCallback, vsyncListed, cleanDone, cleaning, locked,
                   late, distributor, nodeVars, aborted>>

\* CommitTransaction queues commands, one of which creates a node, for the main loop.
CallCommitTransaction(c, k) ==
    /\ At(c, k, "commit")
    /\ cacheCommandQueue' = cacheCommandQueue \cup {c}
    /\ Return(c, k)
    /\ UNCHANGED <<screenVars, clientVars, connections, state, owner, watched,
                   virtualScreenIds, hasCallback, vsyncListed, cleanDone, cleaning, locked,
                   late, tasks, distributor, nodes, overtaken, aborted>>

CallStep(c) ==
    \E k \in calls[c] :
        \/ CallCreateVirtualScreen(c, k) \/ CallCheckSurface(c, k)
        \/ CallAssignSurface(c, k)       \/ CallRemoveVirtualScreen(c, k)
        \/ CallSetCallback(c, k)         \/ CallAddVSync(c, k)
        \/ CallListVSync(c, k)           \/ CallCreateNode(c, k)
        \/ CallCommitTransaction(c, k)

-----------------------------------------------------------------------------
(* CleanAll, from the death recipient and from the destructor. *)

StartClean(c) ==
    /\ cleaning' = [cleaning EXCEPT ![c] = "posted"]
    /\ tasks' = Append(tasks, [do |-> "clean", conn |-> c])
    /\ late' = [late EXCEPT ![c] = calls[c] # {}]

\* RSConnectionDeathRecipient::OnRemoteDied; the connection is not promoted any more
\* once its destructor runs.
OnRemoteDied(c) ==
    /\ state[c] = "live" /\ watched[c] /\ ~alive[owner[c]] /\ ~locked[c]
    /\ watched' = [watched EXCEPT ![c] = FALSE]
    /\ IF cleanDone[c] THEN UNCHANGED <<cleaning, tasks, late>> ELSE StartClean(c)
    /\ UNCHANGED <<screenVars, clientVars, connections, state, owner, virtualScreenIds,
                   hasCallback, vsyncListed, cleanDone, locked, calls, distributor,
                   nodeVars, aborted>>

Referenced(c) ==
    \/ connections[owner[c]] = c
    \/ proxy[owner[c]] = c
    \/ creating[owner[c]].conn = c
    \/ calls[c] # {}
    \/ cleaning[c] # "no"

Destroy(c) ==
    /\ state[c] = "live" /\ ~Referenced(c)
    /\ IF cleanDone[c]
         THEN state' = [state EXCEPT ![c] = "gone"] /\ UNCHANGED <<cleaning, tasks, late>>
         ELSE state' = [state EXCEPT ![c] = "dying"] /\ StartClean(c)
    /\ UNCHANGED <<screenVars, clientVars, connections, owner, watched, virtualScreenIds,
                   hasCallback, vsyncListed, cleanDone, locked, calls, distributor,
                   nodeVars, aborted>>

\* The posted part: CleanVirtualScreens, then CleanRenderNodes of the whole process.
TaskClean(c) ==
    /\ tasks # <<>> /\ Head(tasks) = [do |-> "clean", conn |-> c]
    /\ ~locked[c]
    /\ tasks' = Tail(tasks)
    /\ \E order \in SetToSeqs(Removable(virtualScreenIds[c])) : RemoveVirtualScreens(order)
    /\ RemoveScreenChangeCallback(IF hasCallback[c] THEN {c} ELSE {})
    /\ virtualScreenIds' = [virtualScreenIds EXCEPT ![c] = {}]
    /\ hasCallback' = [hasCallback EXCEPT ![c] = FALSE]
    /\ nodes' = {d \in nodes : owner[d] # owner[c]}
    /\ overtaken' = overtaken \cup {d \in cacheCommandQueue : owner[d] = owner[c]}
    /\ cleaning' = [cleaning EXCEPT ![c] = "walk"]
    /\ UNCHANGED <<clientVars, connections, state, owner, watched, vsyncListed, cleanDone,
                   locked, calls, late, distributor, cacheCommandQueue, aborted>>

TaskRegisterNode(c) ==
    /\ tasks # <<>> /\ Head(tasks) = [do |-> "register", conn |-> c]
    /\ ~processing
    /\ tasks' = Tail(tasks)
    /\ nodes' = nodes \cup {c}
    /\ UNCHANGED <<screenVars, clientVars, connections, connVars, distributor,
                   cacheCommandQueue, overtaken, aborted>>

\* ProcessCommand in the main loop, which a vsync posts at the lowest priority.
ProcessCommand ==
    /\ cacheCommandQueue # {} /\ ~processing
    /\ cacheCommandQueue' = {}
    /\ nodes' = nodes \cup cacheCommandQueue
    /\ UNCHANGED <<screenVars, clientVars, connections, connVars, tasks, distributor,
                   overtaken, aborted>>

\* vsyncConnections_ is walked without the mutex ...
CleanVSyncConnections(c) ==
    /\ cleaning[c] = "walk"
    /\ distributor' = IF vsyncListed[c] THEN distributor \ {c} ELSE distributor
    /\ cleaning' = [cleaning EXCEPT ![c] = "finish"]
    /\ UNCHANGED <<screenVars, clientVars, connections, state, owner, watched,
                   virtualScreenIds, hasCallback, vsyncListed, cleanDone, locked, calls,
                   late, tasks, nodeVars, aborted>>

\* ... and cleared with it.
CleanFinish(c) ==
    /\ cleaning[c] = "finish" /\ ~locked[c]
    /\ vsyncListed' = [vsyncListed EXCEPT ![c] = FALSE]
    /\ cleanDone' = [cleanDone EXCEPT ![c] = TRUE]
    /\ \/ /\ state[c] = "dying"
          /\ state' = [state EXCEPT ![c] = "gone"]
          /\ cleaning' = [cleaning EXCEPT ![c] = "no"]
       \/ /\ state[c] = "live"
          /\ cleaning' = [cleaning EXCEPT ![c] = "remove"]
          /\ UNCHANGED state
    /\ UNCHANGED <<screenVars, clientVars, connections, owner, watched, virtualScreenIds,
                   hasCallback, locked, calls, late, tasks, distributor, nodeVars, aborted>>

\* Mutant: the service is not told that the connection is cleaned.
RemoveConnection_Kept(c) ==
    /\ cleaning[c] = "remove"
    /\ cleaning' = [cleaning EXCEPT ![c] = "no"]
    /\ UNCHANGED <<screenVars, clientVars, connections, state, owner, watched,
                   virtualScreenIds, hasCallback, vsyncListed, cleanDone, locked, calls,
                   late, tasks, distributor, nodeVars, aborted>>

\* RemoveConnection takes what the token has now.
RemoveConnection(c) ==
    /\ cleaning[c] = "remove"
    /\ connections' = [connections EXCEPT ![owner[c]] = NoConn]
    /\ cleaning' = [cleaning EXCEPT ![c] = "no"]
    /\ UNCHANGED <<screenVars, clientVars, state, owner, watched, virtualScreenIds,
                   hasCallback, vsyncListed, cleanDone, locked, calls, late, tasks,
                   distributor, nodeVars, aborted>>

CleanStep(c) ==
    \/ TaskClean(c) \/ CleanVSyncConnections(c) \/ CleanFinish(c) \/ RemoveConnection(c)

CreateConnection(cl) ==
    \/ \E c \in Unused : c = Fresh /\ ConstructConnection(cl, c)
    \/ InsertConnection(cl)
    \/ ReplyConnection(cl)

ServiceStep ==
    \/ \E cl \in Clients : CreateConnection(cl)
    \/ \E c \in Conns : \/ CallStep(c) \/ OnRemoteDied(c) \/ CleanStep(c)
                        \/ TaskRegisterNode(c)
                        \/ state[c] = "live" /\ Destroy(c)
    \/ ProcessCommand

ClientStep ==
    \/ \E cl \in Clients : ConnectCalled(cl) \/ ClientDies(cl)
    \/ \E c \in Conns : state[c] = "live" /\ \E k \in Askable(c) : SendCall(c, k)

Next == ~aborted /\ (ServiceStep \/ ClientStep)

Spec == Init /\ [][Next]_vars

\* The threads of the service do not all stop while one of them has a step to take,
\* and a death is reported.  Clients do a bounded number of things, so that every
\* thread is through in the end.
FairSpec == Spec /\ WF_vars(~aborted /\ ServiceStep)

-----------------------------------------------------------------------------
(* Properties. *)

Steps == {"create", "surface", "assign", "remove", "callback", "noCallback", "vsync",
          "list", "node", "commit"}
CallType == [op : Steps, id : Ids, surface : Surfaces \cup {NoSurface}]
TaskType == [do : {"clean", "register"}, conn : Conns]
CreatingType == [at : {"idle", "called", "made", "inserted"},
                 conn : Conns \cup {NoConn}, old : Conns \cup {NoConn}]

ClientsOK ==
    /\ alive \in [Clients -> BOOLEAN]
    /\ proxy \in [Clients -> Conns \cup {NoConn}]
    /\ creating \in [Clients -> CreatingType]
    /\ inputs \in 0 .. MaxInputs
ObjectsOK ==
    /\ connections \in [Clients -> Conns \cup {NoConn}]
    /\ state \in [Conns -> {"unused", "live", "dying", "gone"}]
    /\ owner \in [Conns -> Clients \cup {NoConn}]
    /\ virtualScreenIds \in [Conns -> SUBSET (VirtualIds \cup {INVALID_SCREEN_ID})]
    /\ cleaning \in [Conns -> {"no", "posted", "walk", "finish", "remove"}]
FlagsOK ==
    /\ watched \in [Conns -> BOOLEAN]     /\ hasCallback \in [Conns -> BOOLEAN]
    /\ vsyncListed \in [Conns -> BOOLEAN] /\ cleanDone \in [Conns -> BOOLEAN]
    /\ locked \in [Conns -> BOOLEAN]      /\ late \in [Conns -> BOOLEAN]
WorkOK ==
    /\ calls \in [Conns -> SUBSET CallType]
    /\ tasks \in Seq(TaskType)
    /\ distributor \subseteq Conns
    /\ cacheCommandQueue \cup nodes \cup overtaken \subseteq Conns

VirtualOK ==
    /\ DOMAIN screens \subseteq VirtualIds /\ freeIds \in Seq(VirtualIds)
    /\ \A id \in DOMAIN screens : Virtual(id)

\* The state of the screen manager and of the connections is of the right kind, and no id
\* but that of a virtual screen is ever freed.
TypeOK == ScreenTypeOK /\ ClientsOK /\ ObjectsOK /\ FlagsOK /\ WorkOK /\ VirtualOK

NoneLate == \A c \in Conns : ~late[c]

\* virtualScreenIds_ of the connections share out the virtual screens: each screen is
\* in one connection's set, and the free ids are the ones that no screen has, each once.
\* So an id that is used again is never taken back by a connection that had it before.
\* No two virtual screens have one surface, and screens_.at(id) finds the screen.
\* A call that was in flight when its dead client's connection was cleaned may still
\* use or free an id that is another's by then.
OwnScreens ==
    NoneLate =>
        /\ ~aborted
        /\ \A c \in Conns : OwnIds(c) \subseteq DOMAIN screens \cap VirtualIds
        /\ \A c, d \in Conns : c # d => OwnIds(c) \cap OwnIds(d) = {}
        /\ \A id \in DOMAIN screens : Virtual(id) =>
                \E c \in Conns : id \in OwnIds(c) /\ state[c] \in {"live", "dying"}
        /\ \A i, j \in DOMAIN freeIds : i # j => freeIds[i] # freeIds[j]
        /\ {freeIds[i] : i \in DOMAIN freeIds} = (0 .. virtualNum - 1) \ DOMAIN screens
        /\ \A i, j \in DOMAIN screens :
                Virtual(i) /\ Virtual(j) /\ i # j /\ screens[i].surface # NoSurface
                    => screens[i].surface # screens[j].surface

\* When a connection is gone nothing that was made through it is left: no virtual
\* screen, callback, VSyncConnection or node, and no posted task that would use the
\* freed object.  The exceptions are a call that overlapped the cleaning, and the nodes of
\* a transaction that was still in cacheCommandQueue_ when the client's nodes were dropped:
\* the main loop creates them afterwards.
NothingLeft ==
    \A c \in Conns :
        state[c] = "gone" /\ ~late[c] =>
            /\ OwnIds(c) = {}
            /\ c \notin callbacks \cup distributor
            /\ c \in nodes \cup cacheCommandQueue => c \in overtaken
            /\ \A i \in DOMAIN tasks : tasks[i].conn # c

\* What a living client made stays until it takes it back itself: the cleaning of
\* another connection, of another client or of its own that was replaced (its nodes
\* are dropped by pid), takes nothing of it.
HeldKept ==
    [][\A c \in Conns :
          state[c] = "live" /\ alive[owner[c]] /\ proxy[owner[c]] = c /\ NoneLate' =>
              /\ c \in nodes => c \in nodes'
              /\ c \in distributor => c \in distributor'
              /\ c \in callbacks /\ hasCallback'[c] => c \in callbacks'
              /\ \A id \in OwnIds(c) : id \in virtualScreenIds'[c] => id \in DOMAIN screens'
      ]_vars

\* The connection of a client that died after it had been inserted is cleaned and
\* destroyed.  (One that is inserted after the death was handled stays.)
DeadClientGone ==
    \A c \in Conns :
        (state[c] = "live" /\ watched[c] /\ ~alive[owner[c]] /\ connections[owner[c]] = c)
            ~> (state[c] = "gone" \/ aborted)
=============================================================================
