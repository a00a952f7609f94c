-------------------------- MODULE RSScreenManager --------------------------
(***************************************************************************)
(* RSScreenManager: the physical screens that the composer plugs in and    *)
(* out, the virtual screens that clients create, the default screen and    *)
(* the callbacks that are told of physical screens.                        *)
(*                                                                         *)
(* Hot-plug events are queued by the composer's thread and processed by    *)
(* the main thread under the manager's mutex, one step per event here:     *)
(* `processing' is that the mutex is held meanwhile.  Every other          *)
(* operation that locks the mutex is one step.  A physical screen has the  *)
(* id of its output; the n-th id made for a virtual screen is n here and   *)
(* (n << 32) | 0xffffffff in the code.                                     *)
(*                                                                         *)
(* Clients may name any id.  RemoveVirtualScreen does not ask whether the  *)
(* screen is a virtual one: a physical screen is erased like any other,    *)
(* its id joins the free ones, and the next virtual screen gets it.        *)
(***************************************************************************)
EXTENDS Integers, Sequences, FiniteSets

CONSTANTS
    Phys,               \* ids of the outputs the composer may report
    Mipi,               \* the ones whose interface is DISP_INTF_MIPI
    INVALID_SCREEN_ID,
    Surfaces,           \* producer surfaces that clients give to virtual screens
    NoSurface,          \* nullptr
    Mirrored,           \* what clients ask virtual screens to mirror
    Callbacks,          \* the screen change callbacks
    MaxVirtual,         \* bound: ids made for virtual screens
    MaxEvents,          \* bound: hot-plug events not yet processed
    MaxFree             \* bound: ids waiting to be used again

ASSUME ScreenAssumption ==
    /\ Mipi \subseteq Phys
    /\ INVALID_SCREEN_ID \notin Phys \cup Nat
    /\ Phys \cap Nat = {}
    /\ NoSurface \notin Surfaces
    /\ Mirrored \subseteq Phys \cup (0 .. MaxVirtual - 1) \cup {INVALID_SCREEN_ID}
    /\ MaxVirtual \in Nat /\ MaxEvents \in Nat /\ MaxFree \in Nat

VARIABLES
    screens,            \* screens_: by id; the surface, the mirrored screen, isVirtual_
    defaultScreenId,    \* defaultScreenId_
    mipiChecked,        \* mipiCheckInFirstHotPlugEvent_
    pendingEvents,      \* pendingHotPlugEvents_
    processing,         \* the main thread is in ProcessScreenHotPlugEvents
    connectedIds,       \* connectedIds_
    freeIds,            \* freeVirtualScreenIds_
    virtualNum,         \* maxVirtualScreenNum_
    callbacks,          \* screenChangeCallbacks_
    told,               \* the ids a callback was last told to be connected
    flapped,            \* ids told to be connected by a batch that took them away
    aborted             \* the service threw std::out_of_range

screenVars == <<screens, defaultScreenId, mipiChecked, pendingEvents, processing,
                connectedIds, freeIds, virtualNum, callbacks, told, flapped>>

VirtualIds == 0 .. MaxVirtual - 1
ScreenIds  == Phys \cup VirtualIds
Events     == [id : Phys, connected : BOOLEAN]

Virtual(id) == screens[id].virtual
Physical    == {id \in DOMAIN screens : ~Virtual(id)}

ScreenInit ==
    /\ screens = [id \in {} |-> {}]
    /\ defaultScreenId = INVALID_SCREEN_ID
    /\ mipiChecked = FALSE
    /\ pendingEvents = <<>>
    /\ processing = FALSE
    /\ connectedIds = {}
    /\ freeIds = <<>>
    /\ virtualNum = 0
    /\ callbacks = {}
    /\ told = [cb \in Callbacks |-> {}]
    /\ flapped = {}
    /\ aborted = FALSE

-----------------------------------------------------------------------------
(* Hot-plug events. *)

Without(id) == [j \in DOMAIN screens \ {id} |-> screens[j]]
With(id, new) == [j \in DOMAIN screens \cup {id} |-> IF j = id THEN new ELSE screens[j]]
Screen(s, m, v) == [surface |-> s, mirror |-> m, virtual |-> v]
TellAll(id) == [cb \in Callbacks |-> IF cb \in callbacks THEN told[cb] \ {id} ELSE told[cb]]

\* OnHotPlugEvent queues the event and asks for a vsync.
OnHotPlugEvent(id, connected) ==
    /\ ~processing
    /\ Len(pendingEvents) < MaxEvents
    /\ pendingEvents' = Append(pendingEvents, [id |-> id, connected |-> connected])
    /\ UNCHANGED <<screens, defaultScreenId, mipiChecked, processing, connectedIds,
                   freeIds, virtualNum, callbacks, told, flapped>>

\* ProcessScreenHotPlugEvents takes the mutex; from Init it runs with no event too.
ProcessBegin ==
    /\ ~processing
    /\ pendingEvents # <<>> \/ ~mipiChecked
    /\ processing' = TRUE
    /\ UNCHANGED <<screens, defaultScreenId, mipiChecked, pendingEvents, connectedIds,
                   freeIds, virtualNum, callbacks, told, flapped>>

NextEvent(id, connected) ==
    /\ processing
    /\ pendingEvents # <<>>
    /\ Head(pendingEvents) = [id |-> id, connected |-> connected]
    /\ pendingEvents' = Tail(pendingEvents)
    /\ UNCHANGED <<processing, freeIds, virtualNum, callbacks, flapped>>

\* A screen that exists already is told to be disconnected and made anew.
ProcessScreenConnected(id) ==
    /\ NextEvent(id, TRUE)
    /\ told' = IF id \in DOMAIN screens THEN TellAll(id) ELSE told
    /\ screens' = With(id, Screen(NoSurface, INVALID_SCREEN_ID, FALSE))
    /\ \/ /\ id \in Mipi
          /\ defaultScreenId' = IF mipiChecked THEN defaultScreenId ELSE id
          /\ mipiChecked' = TRUE
       \/ /\ id \notin Mipi
          /\ defaultScreenId' =
                IF defaultScreenId = INVALID_SCREEN_ID THEN id ELSE defaultScreenId
          /\ UNCHANGED mipiChecked
    /\ connectedIds' = connectedIds \cup {id}

\* Mutant: the default is not reset when no screen is left.
HandleDefaultScreenDisConnected_Kept(left) ==
    \/ \E id \in left : ~Virtual(id) /\ defaultScreenId' = id
    \/ /\ \A id \in left : Virtual(id)
       /\ \E id \in left : defaultScreenId' = id
    \/ left = {} /\ UNCHANGED defaultScreenId

\* The screens left are in an unordered_map: the first of them is any of them.
HandleDefaultScreenDisConnected(left) ==
    \/ \E id \in left : ~Virtual(id) /\ defaultScreenId' = id
    \/ /\ \A id \in left : Virtual(id)
       /\ \E id \in left : defaultScreenId' = id
    \/ left = {} /\ defaultScreenId' = INVALID_SCREEN_ID

ProcessScreenDisConnected(id) ==
    /\ NextEvent(id, FALSE)
    /\ told' = IF id \in DOMAIN screens THEN TellAll(id) ELSE told
    /\ screens' = Without(id)
    /\ IF id = defaultScreenId
         THEN HandleDefaultScreenDisConnected(DOMAIN screens \ {id})
         ELSE UNCHANGED defaultScreenId
    /\ UNCHANGED <<mipiChecked, connectedIds>>

\* Mutant: connectedIds_ is cleared before the callbacks are told.
ProcessEnd_ClearedFirst ==
    /\ processing
    /\ pendingEvents = <<>>
    /\ mipiChecked' = TRUE
    /\ connectedIds' = {}
    /\ processing' = FALSE
    /\ UNCHANGED <<screens, defaultScreenId, pendingEvents, freeIds, virtualNum, callbacks,
                   told, flapped>>

\* Connected screens are told at the end, in one go.
ProcessEnd ==
    /\ processing
    /\ pendingEvents = <<>>
    /\ told' = [cb \in Callbacks |->
                  IF cb \in callbacks THEN told[cb] \cup connectedIds ELSE told[cb]]
    /\ flapped' = (flapped \cup connectedIds) \ DOMAIN screens
    /\ mipiChecked' = TRUE
    /\ connectedIds' = {}
    /\ processing' = FALSE
    /\ UNCHANGED <<screens, defaultScreenId, pendingEvents, freeIds, virtualNum, callbacks>>

ProcessHotPlug ==
    \/ ProcessBegin
    \/ \E id \in Phys : ProcessScreenConnected(id) \/ ProcessScreenDisConnected(id)
    \/ ProcessEnd

-----------------------------------------------------------------------------
(* Virtual screens and callbacks, as the connections use them. *)

SurfaceUsed(s, ids) ==
    s # NoSurface /\ \E id \in ids : Virtual(id) /\ screens[id].surface = s

\* Mutant: a free id is taken off the queue and a new one used.
GeneratedId_AlwaysNew == virtualNum

\* GenerateVirtualScreenIdLocked takes the oldest free id, or a new one; a screen that has
\* the free id meanwhile is replaced.
GeneratedId == IF freeIds # <<>> THEN Head(freeIds) ELSE virtualNum
CanGenerate == freeIds # <<>> \/ virtualNum < MaxVirtual

\* The id that CreateVirtualScreen returns; the surface must not be in use.
CreatedId(s) == IF SurfaceUsed(s, DOMAIN screens) THEN INVALID_SCREEN_ID ELSE GeneratedId

CreateVirtualScreen(s, m) ==
    /\ ~processing
    /\ \/ /\ SurfaceUsed(s, DOMAIN screens)
          /\ UNCHANGED <<screens, freeIds, virtualNum>>
       \/ /\ ~SurfaceUsed(s, DOMAIN screens)
          /\ CanGenerate
          /\ screens' = With(GeneratedId, Screen(s, m, TRUE))
          /\ IF freeIds # <<>>
               THEN freeIds' = Tail(freeIds) /\ UNCHANGED virtualNum
               ELSE virtualNum' = virtualNum + 1 /\ UNCHANGED freeIds
    /\ UNCHANGED <<defaultScreenId, mipiChecked, pendingEvents, processing, connectedIds,
                   callbacks, told, flapped>>

\* SetVirtualScreenSurface takes no lock of the manager: the search for another user
\* of the surface and the assignment are two steps.  screens_.at(id) throws when there is
\* no such screen.
AssignSurface(id, s) ==
    /\ IF id \in DOMAIN screens
         THEN screens' = [screens EXCEPT ![id].surface = s] /\ UNCHANGED aborted
         ELSE aborted' = TRUE /\ UNCHANGED screens
    /\ UNCHANGED <<defaultScreenId, mipiChecked, pendingEvents, processing, connectedIds,
                   freeIds, virtualNum, callbacks, told, flapped>>

\* RemoveVirtualScreenLocked: the loop over the other screens declares an id of its own,
\* so what it resets is a screen that mirrors itself.
WithoutAll(gone) ==
    [j \in DOMAIN screens \ gone |->
        IF gone # {} /\ screens[j].mirror = j
          THEN [screens[j] EXCEPT !.mirror = INVALID_SCREEN_ID] ELSE screens[j]]

RemoveVirtualScreen(id) ==
    /\ ~processing
    /\ \/ /\ id \in DOMAIN screens
          /\ screens' = WithoutAll({id})
          /\ freeIds' = Append(freeIds, id)
       \/ /\ id \notin DOMAIN screens
          /\ UNCHANGED <<screens, freeIds>>
    /\ UNCHANGED <<defaultScreenId, mipiChecked, pendingEvents, processing, connectedIds,
                   virtualNum>>

\* Mutant: an id without a screen is put among the free ones too.
Removable_Unchecked(ids) == ids

\* RemoveVirtualScreen leaves an id that no screen has alone.
Removable(ids) == ids \cap DOMAIN screens

\* CleanVirtualScreens of a connection removes its screens in turn.
RemoveVirtualScreens(order) ==
    /\ ~processing
    /\ screens' = WithoutAll({order[i] : i \in DOMAIN order})
    /\ freeIds' = freeIds \o order
    /\ UNCHANGED <<defaultScreenId, mipiChecked, pendingEvents, processing, connectedIds,
                   virtualNum>>

\* AddScreenChangeCallback tells the new callback of the physical screens there are.
AddScreenChangeCallback(cb) ==
    /\ ~processing
    /\ callbacks' = callbacks \cup {cb}
    /\ told' = [told EXCEPT ![cb] = Physical]
    /\ UNCHANGED flapped

RemoveScreenChangeCallback(cbs) ==
    /\ ~processing
    /\ callbacks' = callbacks \ cbs
    /\ told' = [cb \in Callbacks |-> IF cb \in cbs THEN {} ELSE told[cb]]
    /\ UNCHANGED flapped

-----------------------------------------------------------------------------
(* The manager with any clients, which may pass any id.                    *)

Rest == UNCHANGED <<screens, defaultScreenId, mipiChecked, pendingEvents, processing,
                    connectedIds, freeIds, virtualNum>>

ManagerStep ==
    \/ \E id \in Phys, connected \in BOOLEAN : OnHotPlugEvent(id, connected)
    \/ ProcessHotPlug
    \/ \E s \in Surfaces \cup {NoSurface}, m \in Mirrored : CreateVirtualScreen(s, m)
    \/ \E id \in ScreenIds : /\ Len(freeIds) < MaxFree
                            /\ RemoveVirtualScreen(id)
                            /\ UNCHANGED <<callbacks, told, flapped>>
    \/ \E cb \in Callbacks \ callbacks : AddScreenChangeCallback(cb) /\ Rest
    \/ \E cb \in callbacks : RemoveScreenChangeCallback({cb}) /\ Rest

ScreenNext ==
    /\ ~aborted
    /\ \/ ManagerStep /\ UNCHANGED aborted
       \/ \E id \in ScreenIds, s \in Surfaces :
             ~SurfaceUsed(s, DOMAIN screens \ {id}) /\ AssignSurface(id, s)

ScreenSpec == ScreenInit /\ [][ScreenNext]_<<screenVars, aborted>>

-----------------------------------------------------------------------------
(* Properties. *)

Ids == ScreenIds \cup {INVALID_SCREEN_ID}

\* The ids a screen may have by now, and those waiting to be used again.
Given == Phys \cup (0 .. virtualNum - 1)
Freed == {freeIds[i] : i \in DOMAIN freeIds}

\* The state of the screen manager is of the right kind: only an output's id has a
\* physical screen, and no virtual screen and no free id is ahead of the ids made so far.
ScreenTypeOK ==
    /\ DOMAIN screens \subseteq Given
    /\ \A id \in DOMAIN screens : screens[id] \in
            [surface : Surfaces \cup {NoSurface}, mirror : Ids, virtual : BOOLEAN]
    /\ Physical \subseteq Phys
    /\ defaultScreenId \in Ids
    /\ mipiChecked \in BOOLEAN /\ processing \in BOOLEAN /\ aborted \in BOOLEAN
    /\ pendingEvents \in Seq(Events) /\ Len(pendingEvents) <= MaxEvents
    /\ connectedIds \subseteq Phys /\ flapped \subseteq Phys
    /\ freeIds \in Seq(Given) /\ virtualNum \in 0 .. MaxVirtual
    /\ callbacks \subseteq Callbacks /\ told \in [Callbacks -> SUBSET Phys]

\* Between two batches of hot-plug events every callback knows of all the physical
\* screens (ProcessScreenHotPlugEvents tells of the connected ones when it is through).
\* An id that it takes for connected and that is no physical screen's was plugged in and
\* out by one batch, or a client removed that screen: its id is free, or a virtual screen
\* has it.  RemoveVirtualScreenLocked tells no callback.
ToldOfScreens ==
    ~processing =>
        \A cb \in callbacks : /\ Physical \subseteq told[cb]
                               /\ told[cb] \subseteq
                                    DOMAIN screens \cup flapped \cup Freed

\* The default screen is there, unless a client removed it: then its id is a free one,
\* since only the composer's event for that id makes another screen the default.  While
\* the default is invalid the only physical screens are MIPI ones, which are made default
\* in the first batch only.
DefaultScreen ==
    /\ defaultScreenId \in DOMAIN screens \cup Freed \cup {INVALID_SCREEN_ID}
    /\ defaultScreenId = INVALID_SCREEN_ID => Physical \subseteq Mipi
=============================================================================
