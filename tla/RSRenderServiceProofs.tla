----------------------- MODULE RSRenderServiceProofs -----------------------
(***************************************************************************)
(* Theorems about RSScreenManager with any clients, for any screens,       *)
(* callbacks and bounds, and about the connections of RSRenderService over *)
(* it, for any clients, connections and calls.                             *)
(***************************************************************************)
EXTENDS RSRenderService, SequenceTheorems, FiniteSetTheorems, TLAPS

USE ScreenAssumption

\* A sequence is a sequence over a larger set, and its elements are of its set.
LEMMA WiderSeq == ASSUME NEW S, NEW T, S \subseteq T, NEW q \in Seq(S) PROVE q \in Seq(T)
BY SeqMonotonic

LEMMA FreedIn == ASSUME NEW S, NEW q \in Seq(S) PROVE \A i \in DOMAIN q : q[i] \in S
BY ElementOfSeq, LenProperties

\* The ids that were given out grow, and the bound on virtual screens is kept by them.
LEMMA GivenGrows ==
    ASSUME virtualNum \in Nat, virtualNum' \in {virtualNum, virtualNum + 1}
    PROVE  Given \subseteq Given'
BY DEF Given

LEMMA GivenIsId == ASSUME virtualNum \in 0 .. MaxVirtual PROVE Given \subseteq ScreenIds
BY DEF Given, ScreenIds, VirtualIds

\* The screens after an event, a creation or a removal.
Kinds == [surface : Surfaces \cup {NoSurface}, mirror : Ids, virtual : BOOLEAN]
ScreensOK ==
    /\ DOMAIN screens \subseteq Given
    /\ \A id \in DOMAIN screens : screens[id] \in Kinds
    /\ Physical \subseteq Phys

LEMMA WithOK ==
    ASSUME ScreensOK, NEW new \in Kinds, NEW id, id \in Given', Given \subseteq Given',
           screens' = With(id, new), new.virtual \/ id \in Phys
    PROVE  /\ ScreensOK' /\ DOMAIN screens' = DOMAIN screens \cup {id}
           /\ Physical' = IF new.virtual THEN Physical \ {id} ELSE Physical \cup {id}
<1>1. /\ DOMAIN screens' = DOMAIN screens \cup {id}
      /\ screens'[id] = new
      /\ \A j \in DOMAIN screens : j # id => screens'[j] = screens[j]
  BY DEF With
<1>2. Physical' = IF new.virtual THEN Physical \ {id} ELSE Physical \cup {id}
  BY <1>1 DEF Physical, Virtual
<1> QED BY <1>1, <1>2 DEF ScreensOK

LEMMA WithoutOK ==
    ASSUME ScreensOK, NEW id, screens' = Without(id), virtualNum' = virtualNum
    PROVE  /\ ScreensOK' /\ DOMAIN screens' = DOMAIN screens \ {id}
           /\ Physical' = Physical \ {id}
<1>1. /\ DOMAIN screens' = DOMAIN screens \ {id}
      /\ \A j \in DOMAIN screens : j # id => screens'[j] = screens[j]
  BY DEF Without
<1>2. Physical' = Physical \ {id}
  BY <1>1 DEF Physical, Virtual
<1> QED BY <1>1, <1>2 DEF ScreensOK, Given

LEMMA WithoutAllOK ==
    ASSUME ScreensOK, NEW gone, screens' = WithoutAll(gone), virtualNum' = virtualNum
    PROVE  /\ ScreensOK' /\ DOMAIN screens' = DOMAIN screens \ gone
           /\ \A j \in DOMAIN screens' : /\ screens'[j].virtual = screens[j].virtual
                                         /\ screens'[j].surface = screens[j].surface
           /\ Physical' = Physical \ gone
<1>1. DOMAIN screens' = DOMAIN screens \ gone
  BY DEF WithoutAll
<1>2. ASSUME NEW j \in DOMAIN screens'
      PROVE  /\ screens'[j] \in Kinds
             /\ screens'[j].virtual = screens[j].virtual
             /\ screens'[j].surface = screens[j].surface
  <2> DEFINE n == [screens[j] EXCEPT !.mirror = INVALID_SCREEN_ID]
  <2>1. screens[j] \in Kinds
    BY <1>1 DEF ScreensOK
  <2>2. n \in Kinds /\ n.virtual = screens[j].virtual /\ n.surface = screens[j].surface
    BY <2>1 DEF Kinds, Ids
  <2>3. screens'[j] = screens[j] \/ screens'[j] = n
    BY <1>1 DEF WithoutAll
  <2> QED BY <2>1, <2>2, <2>3
<1>3. Physical' = Physical \ gone
  BY <1>1, <1>2 DEF Physical, Virtual
<1> QED BY <1>1, <1>2, <1>3 DEF ScreensOK, Given

RestOK ==
    /\ defaultScreenId \in Ids
    /\ mipiChecked \in BOOLEAN /\ processing \in BOOLEAN /\ aborted \in BOOLEAN
    /\ pendingEvents \in Seq(Events) /\ Len(pendingEvents) <= MaxEvents
    /\ connectedIds \subseteq Phys /\ flapped \subseteq Phys
    /\ freeIds \in Seq(Given) /\ virtualNum \in 0 .. MaxVirtual
    /\ callbacks \subseteq Callbacks /\ told \in [Callbacks -> SUBSET Phys]

LEMMA TypeParts ==
    /\ ScreenTypeOK <=> ScreensOK /\ RestOK
    /\ ScreenTypeOK' <=> ScreensOK' /\ RestOK'
BY DEF ScreenTypeOK, ScreensOK, RestOK, Kinds

-----------------------------------------------------------------------------
(* The invariant.  While a batch is processed a callback may not have been *)
(* told of the screens that the batch has connected so far.                *)

KnownScreens ==
    /\ ~processing => connectedIds = {}
    /\ \A cb \in callbacks : /\ Physical \subseteq told[cb] \cup connectedIds
                             /\ told[cb] \subseteq DOMAIN screens \cup flapped \cup Freed
Inv == ScreenTypeOK /\ DefaultScreen /\ KnownScreens

\* A step that loses no id, makes no screen a physical one and tells nothing.
Aside ==
    /\ UNCHANGED <<defaultScreenId, processing, connectedIds, callbacks, told, flapped>>
    /\ Physical' \subseteq Physical
    /\ DOMAIN screens \cup Freed \subseteq DOMAIN screens' \cup Freed'

LEMMA AsideKeeps ==
    ASSUME DefaultScreen, KnownScreens, Aside
    PROVE  DefaultScreen' /\ KnownScreens'
BY DEF DefaultScreen, KnownScreens, Aside

LEMMA OnHotPlugEventKeeps ==
    ASSUME Inv, NEW id \in Phys, NEW connected \in BOOLEAN, OnHotPlugEvent(id, connected),
           UNCHANGED aborted
    PROVE  Inv'
<1> USE DEF OnHotPlugEvent
<1> DEFINE e == [id |-> id, connected |-> connected]
<1>1. e \in Events
  BY DEF Events
<1> HIDE DEF e
<1>2. Append(pendingEvents, e) \in Seq(Events) /\ Len(pendingEvents) \in Nat
      /\ Len(Append(pendingEvents, e)) = Len(pendingEvents) + 1
  BY <1>1, AppendProperties, TypeParts DEF Inv, RestOK
<1>3. pendingEvents' = Append(pendingEvents, e)
  BY DEF e
<1>4. RestOK'
  BY <1>2, <1>3, TypeParts DEF Inv, RestOK, Given
<1>5. ScreensOK' /\ Aside
  BY TypeParts DEF Inv, ScreensOK, Aside, Physical, Virtual, Given, Freed
<1> QED BY <1>4, <1>5, TypeParts, AsideKeeps DEF Inv

LEMMA ProcessBeginKeeps == ASSUME Inv, ProcessBegin, UNCHANGED aborted PROVE Inv'
<1>1. RestOK' /\ ScreensOK'
  BY TypeParts DEF Inv, RestOK, ScreensOK, ProcessBegin, Given, Physical, Virtual
<1>2. DefaultScreen' /\ KnownScreens'
  BY DEF Inv, ProcessBegin, DefaultScreen, KnownScreens, Physical, Virtual, Freed
<1> QED BY <1>1, <1>2, TypeParts DEF Inv

LEMMA TellAllType ==
    ASSUME RestOK, NEW id
    PROVE  TellAll(id) \in [Callbacks -> SUBSET Phys]
BY DEF RestOK, TellAll

LEMMA NextEventTypes ==
    ASSUME RestOK, NEW id, NEW connected, NextEvent(id, connected)
    PROVE  pendingEvents' \in Seq(Events) /\ Len(pendingEvents') <= MaxEvents
<1>1. pendingEvents' \in Seq(Events) /\ Len(pendingEvents') = Len(pendingEvents) - 1
  BY HeadTailProperties DEF RestOK, NextEvent
<1>2. Len(pendingEvents) \in Nat
  BY DEF RestOK
<1> QED BY <1>1, <1>2 DEF RestOK

LEMMA ConnectedKeeps ==
    ASSUME Inv, NEW id \in Phys, ProcessScreenConnected(id), UNCHANGED aborted
    PROVE  Inv'
<1> DEFINE new == Screen(NoSurface, INVALID_SCREEN_ID, FALSE)
<1>1. ScreensOK /\ RestOK
  BY TypeParts DEF Inv
<1>2. UNCHANGED <<virtualNum, freeIds>> /\ Given' = Given /\ Freed' = Freed
  BY DEF ProcessScreenConnected, NextEvent, Given, Freed
<1>3. new \in Kinds /\ ~new.virtual /\ id \in Given' /\ screens' = With(id, new)
  BY <1>2 DEF Kinds, Screen, Ids, Given, ProcessScreenConnected
<1>4. /\ ScreensOK' /\ DOMAIN screens' = DOMAIN screens \cup {id}
      /\ Physical' = Physical \cup {id}
  <2> HIDE DEF new
  <2> QED BY <1>1, <1>2, <1>3, WithOK
<1>5. RestOK'
  BY <1>1, <1>2, NextEventTypes, TellAllType
     DEF RestOK, ProcessScreenConnected, NextEvent, Ids, ScreenIds
<1>6. DefaultScreen'
  BY <1>2, <1>4 DEF Inv, DefaultScreen, ProcessScreenConnected
<1>7. KnownScreens'
  <2>1. /\ UNCHANGED <<processing, callbacks, flapped>> /\ processing
        /\ connectedIds' = connectedIds \cup {id}
    BY DEF ProcessScreenConnected, NextEvent
  <2>2. CASE id \in DOMAIN screens
    <3>1. \A cb \in callbacks : told'[cb] = told[cb] \ {id}
      BY <1>1, <2>2 DEF ProcessScreenConnected, TellAll, RestOK
    <3> QED BY <1>2, <1>4, <2>1, <3>1 DEF Inv, KnownScreens
  <2>3. CASE id \notin DOMAIN screens
    <3>1. told' = told
      BY <2>3 DEF ProcessScreenConnected
    <3> QED BY <1>2, <1>4, <2>1, <3>1 DEF Inv, KnownScreens
  <2> QED BY <2>2, <2>3
<1> QED BY <1>4, <1>5, <1>6, <1>7, TypeParts DEF Inv

LEMMA DisConnectedKeeps ==
    ASSUME Inv, NEW id \in Phys, ProcessScreenDisConnected(id), UNCHANGED aborted
    PROVE  Inv'
<1>1. ScreensOK /\ RestOK
  BY TypeParts DEF Inv
<1>2. UNCHANGED <<virtualNum, freeIds>> /\ Given' = Given /\ Freed' = Freed
  BY DEF ProcessScreenDisConnected, NextEvent, Given, Freed
<1>3. /\ ScreensOK' /\ DOMAIN screens' = DOMAIN screens \ {id}
      /\ Physical' = Physical \ {id}
  BY <1>1, <1>2, WithoutOK DEF ProcessScreenDisConnected
<1>4. DOMAIN screens \subseteq ScreenIds
  BY <1>1, GivenIsId DEF ScreensOK, RestOK
<1>5. RestOK'
  <2>1. defaultScreenId' \in Ids
    BY <1>1, <1>4 DEF RestOK, ProcessScreenDisConnected, Ids, HandleDefaultScreenDisConnected
  <2>2. pendingEvents' \in Seq(Events) /\ Len(pendingEvents') <= MaxEvents
    BY <1>1, NextEventTypes DEF ProcessScreenDisConnected
  <2>3. told' \in [Callbacks -> SUBSET Phys]
    BY <1>1, TellAllType DEF RestOK, ProcessScreenDisConnected
  <2>4. UNCHANGED <<mipiChecked, connectedIds, processing, freeIds, virtualNum, callbacks,
                    flapped>>
    BY DEF ProcessScreenDisConnected, NextEvent
  <2> QED BY <1>1, <1>2, <2>1, <2>2, <2>3, <2>4 DEF RestOK
<1>6. DefaultScreen'
  <2> DEFINE left == DOMAIN screens \ {id}
  <2>1. CASE id = defaultScreenId
    <3>2. defaultScreenId' \in left \/ (left = {} /\ defaultScreenId' = INVALID_SCREEN_ID)
      BY <2>1 DEF ProcessScreenDisConnected, HandleDefaultScreenDisConnected
    <3>3. INVALID_SCREEN_ID \notin left
      BY <1>4, ScreenAssumption DEF ScreenIds, VirtualIds
    <3>4. Physical \subseteq DOMAIN screens
      BY DEF Physical
    <3> QED BY <1>3, <3>2, <3>3, <3>4 DEF DefaultScreen
  <2>2. CASE id # defaultScreenId
    <3>1. UNCHANGED defaultScreenId
      BY <2>2 DEF ProcessScreenDisConnected
    <3> QED BY <1>2, <1>3, <2>2, <3>1 DEF Inv, DefaultScreen
  <2> QED BY <2>1, <2>2
<1>7. KnownScreens'
  <2>1. UNCHANGED <<processing, callbacks, flapped, connectedIds>> /\ processing
    BY DEF ProcessScreenDisConnected, NextEvent
  <2>2. CASE id \in DOMAIN screens
    <3>1. \A cb \in callbacks : told'[cb] = told[cb] \ {id}
      BY <1>1, <2>2 DEF ProcessScreenDisConnected, TellAll, RestOK
    <3> QED BY <1>2, <1>3, <2>1, <3>1 DEF Inv, KnownScreens
  <2>3. CASE id \notin DOMAIN screens
    <3>1. told' = told
      BY <2>3 DEF ProcessScreenDisConnected
    <3> QED BY <1>2, <1>3, <2>1, <2>3, <3>1 DEF Inv, KnownScreens
  <2> QED BY <2>2, <2>3
<1> QED BY <1>3, <1>5, <1>6, <1>7, TypeParts DEF Inv

LEMMA ProcessEndKeeps == ASSUME Inv, ProcessEnd, UNCHANGED aborted PROVE Inv'
<1>1. ScreensOK /\ RestOK
  BY TypeParts DEF Inv
<1>2. ScreensOK' /\ RestOK' /\ Physical' = Physical
  BY <1>1 DEF ScreensOK, RestOK, ProcessEnd, Physical, Virtual, Given
<1>3. DefaultScreen'
  BY DEF Inv, DefaultScreen, ProcessEnd, Physical, Virtual, Freed
<1>4. KnownScreens'
  <2>1. \A cb \in callbacks : told'[cb] = told[cb] \cup connectedIds
    BY <1>1 DEF ProcessEnd, RestOK
  <2> QED BY <1>2, <2>1 DEF Inv, KnownScreens, ProcessEnd, Freed
<1> QED BY <1>2, <1>3, <1>4, TypeParts DEF Inv

\* A creation takes its id off the free ones or makes a new one.
LEMMA GeneratedTaken ==
    ASSUME RestOK, CanGenerate,
           IF freeIds # <<>>
             THEN freeIds' = Tail(freeIds) /\ UNCHANGED virtualNum
             ELSE virtualNum' = virtualNum + 1 /\ UNCHANGED freeIds
    PROVE  /\ freeIds' \in Seq(Given') /\ virtualNum' \in 0 .. MaxVirtual
           /\ GeneratedId \in Given' /\ Given \subseteq Given'
           /\ Freed \subseteq Freed' \cup {GeneratedId}
<1>1. virtualNum \in Nat
  BY DEF RestOK
<1>2. CASE freeIds # <<>>
  <2>1. freeIds' = Tail(freeIds) /\ virtualNum' = virtualNum /\ Given' = Given
    BY <1>2 DEF Given
  <2>2. /\ Tail(freeIds) \in Seq(Given) /\ Head(freeIds) \in Given
        /\ Head(freeIds) = freeIds[1] /\ Len(Tail(freeIds)) = Len(freeIds) - 1
        /\ \A i \in 1 .. Len(Tail(freeIds)) : Tail(freeIds)[i] = freeIds[i + 1]
    BY <1>2, HeadTailProperties DEF RestOK
  <2>3. ASSUME NEW i \in DOMAIN freeIds PROVE freeIds[i] \in Freed' \cup {GeneratedId}
    <3>1. DOMAIN freeIds = 1 .. Len(freeIds) /\ Len(freeIds) \in Nat
          /\ DOMAIN freeIds' = 1 .. (Len(freeIds) - 1)
      BY <2>1, <2>2, LenProperties DEF RestOK
    <3>2. CASE i = 1
      BY <1>2, <2>2, <3>2 DEF GeneratedId
    <3>3. CASE i # 1
      <4>1. i - 1 \in DOMAIN freeIds' /\ freeIds'[i - 1] = freeIds[i]
        BY <2>1, <2>2, <3>1, <3>3
      <4> QED BY <4>1 DEF Freed
    <3> QED BY <3>2, <3>3
  <2>4. Freed \subseteq Freed' \cup {GeneratedId}
    BY <2>3 DEF Freed
  <2> QED BY <1>2, <2>1, <2>2, <2>4 DEF RestOK, GeneratedId
<1>3. CASE freeIds = <<>>
  <2>1. freeIds' = freeIds /\ virtualNum' = virtualNum + 1 /\ virtualNum < MaxVirtual
    BY <1>3 DEF CanGenerate
  <2>2. virtualNum + 1 \in 0 .. MaxVirtual
    BY <1>1, <2>1, ScreenAssumption
  <2>3. Given \subseteq Given'
    BY <1>1, <2>1, GivenGrows
  <2>4. freeIds' \in Seq(Given')
    BY <2>1, <2>3, WiderSeq DEF RestOK
  <2>5. GeneratedId \in Given'
    BY <1>1, <1>3, <2>1 DEF GeneratedId, Given
  <2>6. Freed' = Freed
    BY <2>1 DEF Freed
  <2> QED BY <2>1, <2>2, <2>3, <2>4, <2>5, <2>6
<1> QED BY <1>2, <1>3

LEMMA CreateKeeps ==
    ASSUME Inv, NEW s \in Surfaces \cup {NoSurface}, NEW m \in Mirrored,
           CreateVirtualScreen(s, m), UNCHANGED aborted
    PROVE  Inv'
<1>1. ScreensOK /\ RestOK /\ ScreenTypeOK
  BY TypeParts DEF Inv
<1>2. CASE SurfaceUsed(s, DOMAIN screens) /\ UNCHANGED <<screens, freeIds, virtualNum>>
  <2>1. ScreensOK' /\ RestOK' /\ Aside
    BY <1>1, <1>2 DEF CreateVirtualScreen, ScreensOK, RestOK, Aside, Physical, Virtual, Given,
                      Freed
  <2> QED BY <2>1, AsideKeeps, TypeParts DEF Inv
<1>3. CASE /\ CanGenerate
           /\ screens' = With(GeneratedId, Screen(s, m, TRUE))
           /\ IF freeIds # <<>>
                THEN freeIds' = Tail(freeIds) /\ UNCHANGED virtualNum
                ELSE virtualNum' = virtualNum + 1 /\ UNCHANGED freeIds
  <2> DEFINE new == Screen(s, m, TRUE)
  <2>1. /\ freeIds' \in Seq(Given') /\ virtualNum' \in 0 .. MaxVirtual
        /\ GeneratedId \in Given' /\ Given \subseteq Given'
        /\ Freed \subseteq Freed' \cup {GeneratedId}
    BY <1>1, <1>3, GeneratedTaken
  <2>2. new \in Kinds /\ new.virtual
    <3>1. m \in Ids
      BY DEF Ids, ScreenIds, VirtualIds
    <3> QED BY <3>1 DEF Kinds, Screen
  <2>3. screens' = With(GeneratedId, new)
    BY <1>3
  <2>4. /\ ScreensOK' /\ DOMAIN screens' = DOMAIN screens \cup {GeneratedId}
        /\ Physical' = Physical \ {GeneratedId}
    <3> HIDE DEF new
    <3> QED BY <1>1, <2>1, <2>2, <2>3, WithOK
  <2>5. RestOK'
    BY <1>1, <2>1 DEF CreateVirtualScreen, RestOK
  <2>6. Aside
    BY <2>1, <2>4 DEF CreateVirtualScreen, Aside
  <2> QED BY <2>4, <2>5, <2>6, AsideKeeps, TypeParts DEF Inv
<1> QED BY <1>2, <1>3 DEF CreateVirtualScreen

LEMMA AssignKeeps ==
    ASSUME Inv, NEW id, NEW s \in Surfaces, AssignSurface(id, s)
    PROVE  Inv'
<1>1. ScreensOK /\ RestOK
  BY TypeParts DEF Inv
<1>2. CASE id \notin DOMAIN screens
  <2>1. UNCHANGED screens /\ aborted' = TRUE
    BY <1>2 DEF AssignSurface
  <2>2. ScreensOK' /\ RestOK' /\ Aside
    BY <1>1, <2>1 DEF AssignSurface, ScreensOK, RestOK, Aside, Physical, Virtual, Given, Freed
  <2> QED BY <2>2, AsideKeeps, TypeParts DEF Inv
<1>3. CASE id \in DOMAIN screens
  <2> DEFINE n == [screens[id] EXCEPT !.surface = s]
  <2>1. n \in Kinds /\ n.virtual = screens[id].virtual
    BY <1>1, <1>3 DEF ScreensOK, Kinds
  <2>2. /\ DOMAIN screens' = DOMAIN screens /\ screens'[id] = n
        /\ \A j \in DOMAIN screens : j # id => screens'[j] = screens[j]
        /\ UNCHANGED <<aborted, virtualNum, freeIds>>
    BY <1>3 DEF AssignSurface
  <2> HIDE DEF n
  <2>3. Physical' = Physical
    BY <2>1, <2>2 DEF Physical, Virtual
  <2>4. ScreensOK'
    BY <1>1, <2>1, <2>2, <2>3 DEF ScreensOK, Given
  <2>5. RestOK' /\ Aside
    BY <1>1, <2>2, <2>3 DEF AssignSurface, RestOK, Aside, Given, Freed
  <2> QED BY <2>4, <2>5, AsideKeeps, TypeParts DEF Inv
<1> QED BY <1>2, <1>3

LEMMA RemoveKeeps ==
    ASSUME Inv, NEW id, RemoveVirtualScreen(id),
           UNCHANGED <<callbacks, told, flapped, aborted>>
    PROVE  Inv'
<1>1. ScreensOK /\ RestOK
  BY TypeParts DEF Inv
<1>2. UNCHANGED virtualNum /\ Given' = Given
  BY DEF RemoveVirtualScreen, Given
<1>3. CASE id \notin DOMAIN screens /\ UNCHANGED <<screens, freeIds>>
  <2>1. ScreensOK' /\ RestOK' /\ Aside
    BY <1>1, <1>2, <1>3 DEF RemoveVirtualScreen, ScreensOK, RestOK, Aside, Physical, Virtual,
                            Freed
  <2> QED BY <2>1, AsideKeeps, TypeParts DEF Inv
<1>4. CASE /\ id \in DOMAIN screens
           /\ screens' = WithoutAll({id})
           /\ freeIds' = Append(freeIds, id)
  <2>1. /\ ScreensOK' /\ DOMAIN screens' = DOMAIN screens \ {id}
        /\ Physical' = Physical \ {id}
    BY <1>1, <1>2, <1>4, WithoutAllOK
  <2>2. id \in Given
    BY <1>1, <1>4 DEF ScreensOK
  <2>3. /\ freeIds' \in Seq(Given) /\ Len(freeIds') = Len(freeIds) + 1
        /\ \A i \in 1 .. Len(freeIds) : freeIds'[i] = freeIds[i]
        /\ freeIds'[Len(freeIds) + 1] = id
    BY <1>1, <1>4, <2>2, AppendProperties DEF RestOK
  <2>4. Freed \cup {id} \subseteq Freed'
    <3>1. /\ DOMAIN freeIds = 1 .. Len(freeIds) /\ Len(freeIds) \in Nat
          /\ DOMAIN freeIds' = 1 .. (Len(freeIds) + 1)
      BY <1>1, <2>3, LenProperties DEF RestOK
    <3> QED BY <2>3, <3>1 DEF Freed
  <2>5. RestOK'
    BY <1>1, <1>2, <2>3 DEF RemoveVirtualScreen, RestOK
  <2>6. Aside
    BY <2>1, <2>4 DEF RemoveVirtualScreen, Aside
  <2> QED BY <2>1, <2>5, <2>6, AsideKeeps, TypeParts DEF Inv
<1> QED BY <1>3, <1>4 DEF RemoveVirtualScreen

LEMMA CallbackKeeps ==
    ASSUME Inv, NEW cb \in Callbacks, Rest, UNCHANGED aborted,
           AddScreenChangeCallback(cb) \/ RemoveScreenChangeCallback({cb})
    PROVE  Inv'
<1>1. ScreensOK /\ RestOK
  BY TypeParts DEF Inv
<1>2. /\ ScreensOK' /\ Physical' = Physical /\ DefaultScreen'
      /\ Freed' = Freed /\ Given' = Given
  BY <1>1 DEF Inv, Rest, ScreensOK, Physical, Virtual, DefaultScreen, Given, Freed
<1>3. Physical \subseteq Phys /\ Physical \subseteq DOMAIN screens
  BY <1>1 DEF Physical, ScreensOK
<1>4. RestOK'
  BY <1>1, <1>2, <1>3 DEF Rest, RestOK, AddScreenChangeCallback, RemoveScreenChangeCallback
<1>5. KnownScreens'
  BY <1>1, <1>2, <1>3 DEF Inv, KnownScreens, Rest, RestOK, AddScreenChangeCallback,
                    RemoveScreenChangeCallback
<1> QED BY <1>2, <1>4, <1>5, TypeParts DEF Inv

managerVars == <<screenVars, aborted>>

LEMMA InvStep == Inv /\ [ScreenNext]_managerVars => Inv'
<1> SUFFICES ASSUME Inv, [ScreenNext]_managerVars PROVE Inv'
  OBVIOUS
<1>1. CASE UNCHANGED managerVars
  <2>1. ScreensOK' /\ RestOK' /\ Aside
    BY <1>1, TypeParts DEF managerVars, screenVars, Inv, ScreensOK, RestOK, Aside, Physical,
                           Virtual, Given, Freed
  <2> QED BY <2>1, TypeParts, AsideKeeps DEF Inv
<1>2. callbacks \subseteq Callbacks
  BY DEF Inv, ScreenTypeOK
<1>3. CASE ManagerStep /\ UNCHANGED aborted
  BY <1>2, <1>3, OnHotPlugEventKeeps, ProcessBeginKeeps, ConnectedKeeps, DisConnectedKeeps,
     ProcessEndKeeps, CreateKeeps, RemoveKeeps, CallbackKeeps DEF ManagerStep, ProcessHotPlug
<1> QED BY <1>1, <1>3, AssignKeeps DEF ScreenNext

LEMMA InvInit == ScreenInit => Inv
<1> SUFFICES ASSUME ScreenInit PROVE Inv
  OBVIOUS
<1>1. DOMAIN screens = {}
  BY DEF ScreenInit
<1>2. ScreensOK /\ DefaultScreen /\ KnownScreens
  BY <1>1 DEF ScreenInit, ScreensOK, DefaultScreen, KnownScreens, Physical
<1>3. RestOK
  <2>1. pendingEvents \in Seq(Events) /\ freeIds \in Seq(Given)
    BY EmptySeq DEF ScreenInit
  <2>2. Len(pendingEvents) <= MaxEvents /\ virtualNum \in 0 .. MaxVirtual
    <3>1. Len(<<>>) <= MaxEvents /\ 0 \in 0 .. MaxVirtual
      BY ScreenAssumption
    <3> QED BY <3>1 DEF ScreenInit
  <2>3. told \in [Callbacks -> SUBSET Phys] /\ defaultScreenId \in Ids
    BY DEF ScreenInit, Ids
  <2> QED BY <2>1, <2>2, <2>3 DEF ScreenInit, RestOK
<1> QED BY <1>2, <1>3, TypeParts DEF Inv

-----------------------------------------------------------------------------
(* The theorems. *)

\* The manager's state has its types, whatever is plugged in and out and whatever ids
\* clients create and remove: no id in use or free is ahead of the ones made so far, so that
\* GenerateVirtualScreenIdLocked makes none twice.
THEOREM ScreenTypeCorrect == ScreenSpec => []ScreenTypeOK
<1>1. Inv => ScreenTypeOK
  BY DEF Inv
<1> QED BY <1>1, InvInit, InvStep, PTL DEF ScreenSpec, managerVars

\* Between two batches every callback has been told of all the physical screens, and of no
\* others but those that one batch connected and disconnected (ProcessScreenHotPlugEvents)
\* and those that a client removed (RemoveVirtualScreenLocked).
THEOREM CallbacksKnow == ScreenSpec => []ToldOfScreens
<1>1. Inv => ToldOfScreens
  BY DEF Inv, KnownScreens, ToldOfScreens
<1> QED BY <1>1, InvInit, InvStep, PTL DEF ScreenSpec, managerVars

\* The default screen is there, or its id is one that a client freed by removing it, and
\* there is a default screen unless only MIPI screens that came late are connected
\* (HandleDefaultScreenDisConnectedLocked).
THEOREM DefaultConnected == ScreenSpec => []DefaultScreen
<1>1. Inv => DefaultScreen
  BY DEF Inv
<1> QED BY <1>1, InvInit, InvStep, PTL DEF ScreenSpec, managerVars

-----------------------------------------------------------------------------
(* The service.  Types, and what calls in flight look like.                *)

USE ServiceAssumption

Uses(k) == k.op \in {"surface", "assign", "remove"}
OwnSurfaces(c) == SurfaceOf[owner[c]] \cup {NoSurface}

Owned == \A c \in Conns : state[c] # "unused" => owner[c] \in Clients

\* A call that names a screen names a virtual one, a surface is one of the client's, and
\* between the halves of SetVirtualScreenSurface the connection is locked.
CallKinds ==
    \A c \in Conns : \A k \in calls[c] :
        /\ k.op = "create" => k.id \in Mirrored
        /\ k.op \in {"surface", "assign"} => k.surface \in Surfaces
        /\ Uses(k) => k.id \in VirtualIds
        /\ k.op = "assign" => locked[c] /\ \A l \in calls[c] : l.op = "assign" => l = k
        /\ k.surface \in OwnSurfaces(c)
        /\ state[c] # "unused"

LEMMA Asked ==
    ASSUME TypeOK, NEW c \in Conns, owner[c] \in Clients, NEW k \in Askable(c)
    PROVE  /\ k \in CallType
           /\ k.op \notin {"assign", "list"}
           /\ k.op = "create" => k.id \in Mirrored
           /\ Uses(k) => k.id \in OwnIds(c) /\ k.id \in VirtualIds
                         /\ \A l \in calls[c] : l.id # k.id
           /\ k.op = "surface" => k.surface \in Surfaces
           /\ k.surface \in OwnSurfaces(c)
<1>1. SurfaceOf[owner[c]] \subseteq Surfaces /\ Mirrored \subseteq Ids
  BY DEF Ids, ScreenIds, VirtualIds
<1>2. OwnIds(c) \subseteq VirtualIds /\ VirtualIds \subseteq Ids /\ INVALID_SCREEN_ID \in Ids
  BY DEF TypeOK, ObjectsOK, OwnIds, Ids, ScreenIds
<1>3. CASE \E m \in Mirrored, s \in SurfaceOf[owner[c]] \cup {NoSurface} : k = Call("create", m, s)
  BY <1>1, <1>3 DEF Call, CallType, Steps, Uses, OwnSurfaces
<1>4. CASE \E id \in OwnIds(c), s \in SurfaceOf[owner[c]] :
             (\A l \in calls[c] : l.id # id) /\ k = Call("surface", id, s)
  BY <1>1, <1>2, <1>4 DEF Call, CallType, Steps, Uses, OwnSurfaces
<1>5. CASE \E id \in OwnIds(c) :
             (\A l \in calls[c] : l.id # id) /\ k = Call("remove", id, NoSurface)
  BY <1>2, <1>5 DEF Call, CallType, Steps, Uses, OwnSurfaces
<1>6. CASE \E op \in {"callback", "noCallback", "node", "vsync", "commit"} : k = Call(op, NoId, NoSurface)
  BY <1>2, <1>6 DEF Call, CallType, Steps, Uses, OwnSurfaces, NoId
<1> QED BY <1>3, <1>4, <1>5, <1>6 DEF Askable

\* A step of a call ends it or takes it to its next step.
LEMMA CallEnds ==
    ASSUME TypeOK, NEW c \in Conns, NEW k, Return(c, k)
    PROVE  /\ calls' \in [Conns -> SUBSET CallType]
           /\ calls'[c] = calls[c] \ {k} /\ \A d \in Conns \ {c} : calls'[d] = calls[d]
BY DEF TypeOK, WorkOK, Return

LEMMA CallGoes ==
    ASSUME TypeOK, NEW c \in Conns, NEW k \in calls[c], NEW op \in Steps, Goes(c, k, op)
    PROVE  /\ calls' \in [Conns -> SUBSET CallType]
           /\ \E n : /\ n.op = op /\ n.id = k.id /\ n.surface = k.surface
                     /\ calls'[c] = (calls[c] \ {k}) \cup {n}
           /\ \A d \in Conns \ {c} : calls'[d] = calls[d]
<1> DEFINE n == [k EXCEPT !.op = op]
<1>1. k \in CallType
  BY DEF TypeOK, WorkOK
<1>2. n \in CallType /\ n.op = op /\ n.id = k.id /\ n.surface = k.surface
  BY <1>1 DEF CallType
<1>3. calls' = [calls EXCEPT ![c] = (@ \ {k}) \cup {n}]
  BY DEF Goes
<1> HIDE DEF n
<1>4. calls'[c] = (calls[c] \ {k}) \cup {n}
  BY <1>3 DEF TypeOK, WorkOK
<1> QED BY <1>2, <1>3, <1>4 DEF TypeOK, WorkOK

\* What SetToSeqs gives for a set of ids: its elements, each once.
LEMMA InOrder ==
    ASSUME NEW S \in SUBSET VirtualIds, NEW order \in SetToSeqs(S)
    PROVE  /\ order \in Seq(S) /\ DOMAIN order = 1 .. Len(order)
           /\ {order[i] : i \in DOMAIN order} = S
           /\ \A i, j \in DOMAIN order : i # j => order[i] # order[j]
<1> DEFINE n == Cardinality(S)
<1>1. IsFiniteSet(S) /\ n \in Nat
  <2>1. IsFiniteSet(VirtualIds)
    BY FS_Interval DEF VirtualIds
  <2> QED BY <2>1, FS_Subset, FS_CardinalityType
<1>2. order \in [1 .. n -> S] /\ \A i, j \in 1 .. n : i # j => order[i] # order[j]
  BY DEF SetToSeqs
<1> HIDE DEF n
<1>3. IsFiniteSet(1 .. n) /\ Cardinality(1 .. n) = n
  BY <1>1, FS_Interval
<1>4. order \in Injection(1 .. n, S)
  BY <1>2 DEF Injection, IsInjective
<1>5. order \in Surjection(1 .. n, S)
  BY <1>1, <1>3, <1>4, FS_Injection DEF n
<1>6. {order[i] : i \in 1 .. n} = S
  BY <1>2, <1>5 DEF Surjection
<1>7. order \in Seq(S) /\ Len(order) = n
  BY <1>1, <1>2
<1> QED BY <1>2, <1>6, <1>7

LEMMA FreedJoined ==
    ASSUME NEW S, freeIds \in Seq(S), NEW order \in Seq(S), freeIds' = freeIds \o order
    PROVE  freeIds' \in Seq(S) /\ Freed' = Freed \cup {order[i] : i \in DOMAIN order}
<1>1. /\ freeIds' \in Seq(S) /\ Len(freeIds') = Len(freeIds) + Len(order)
      /\ \A i \in 1 .. Len(freeIds) + Len(order) :
            freeIds'[i] = IF i <= Len(freeIds) THEN freeIds[i] ELSE order[i - Len(freeIds)]
  BY ConcatProperties
<1>2. /\ Len(freeIds) \in Nat /\ DOMAIN freeIds = 1 .. Len(freeIds)
      /\ Len(order) \in Nat /\ DOMAIN order = 1 .. Len(order)
      /\ DOMAIN freeIds' = 1 .. Len(freeIds')
  BY <1>1, LenProperties
<1>3. Freed' \subseteq Freed \cup {order[i] : i \in DOMAIN order}
  BY <1>1, <1>2 DEF Freed
<1>4. Freed \subseteq Freed'
  BY <1>1, <1>2 DEF Freed
<1>5. ASSUME NEW i \in DOMAIN order PROVE order[i] \in Freed'
  <2>1. Len(freeIds) + i \in DOMAIN freeIds' /\ freeIds'[Len(freeIds) + i] = order[i]
    BY <1>1, <1>2
  <2> QED BY <2>1 DEF Freed
<1> QED BY <1>1, <1>3, <1>4, <1>5

LEMMA RemoveAllKeeps ==
    ASSUME Inv, VirtualOK, NEW ids \in SUBSET (VirtualIds \cup {INVALID_SCREEN_ID}),
           NEW order \in SetToSeqs(Removable(ids)), RemoveVirtualScreens(order),
           NEW cbs \in SUBSET Callbacks, RemoveScreenChangeCallback(cbs), UNCHANGED aborted
    PROVE  Inv' /\ VirtualOK'
<1> DEFINE gone == Removable(ids)
<1>1. ScreensOK /\ RestOK
  BY TypeParts DEF Inv
<1>2. gone \subseteq DOMAIN screens /\ gone \in SUBSET VirtualIds
  BY DEF VirtualOK, Removable
<1>3. order \in Seq(gone) /\ {order[i] : i \in DOMAIN order} = gone
  BY <1>2, InOrder
<1> HIDE DEF gone
<1>4. UNCHANGED virtualNum /\ Given' = Given
  BY DEF RemoveVirtualScreens, Given
<1>5. /\ ScreensOK' /\ DOMAIN screens' = DOMAIN screens \ gone
      /\ Physical' = Physical \ gone
      /\ \A j \in DOMAIN screens' : screens'[j].virtual = screens[j].virtual
  BY <1>1, <1>3, <1>4, WithoutAllOK DEF RemoveVirtualScreens
<1>6. gone \subseteq Given
  BY <1>1, <1>2 DEF ScreensOK
<1>7. freeIds' \in Seq(Given) /\ Freed' = Freed \cup gone
  <2>1. order \in Seq(Given)
    BY <1>3, <1>6, WiderSeq
  <2>2. freeIds \in Seq(Given) /\ freeIds' = freeIds \o order
    BY <1>1 DEF RestOK, RemoveVirtualScreens
  <2>3. freeIds' \in Seq(Given) /\ Freed' = Freed \cup {order[i] : i \in DOMAIN order}
    BY ONLY <2>1, <2>2, FreedJoined
  <2> QED BY ONLY <1>3, <2>3
<1>8. freeIds' \in Seq(VirtualIds)
  <2>1. order \in Seq(VirtualIds)
    BY <1>2, <1>3, WiderSeq
  <2> QED BY <2>1, FreedJoined DEF VirtualOK, RemoveVirtualScreens
<1>9. /\ callbacks' = callbacks \ cbs /\ \A cb \in callbacks' : told'[cb] = told[cb]
      /\ told' \in [Callbacks -> SUBSET Phys] /\ flapped' = flapped
  BY <1>1 DEF RemoveScreenChangeCallback, RestOK
<1>10. RestOK'
  BY <1>1, <1>4, <1>7, <1>9 DEF RestOK, RemoveVirtualScreens
<1>11. DefaultScreen' /\ KnownScreens'
  BY <1>2, <1>5, <1>7, <1>9 DEF Inv, DefaultScreen, KnownScreens, RemoveVirtualScreens
<1>12. VirtualOK'
  BY <1>5, <1>8 DEF VirtualOK, Virtual
<1> QED BY <1>5, <1>10, <1>11, <1>12, TypeParts DEF Inv

LEMMA SameScreens ==
    ASSUME Inv, VirtualOK, UNCHANGED <<screenVars, aborted>>
    PROVE  Inv' /\ VirtualOK'
<1>1. Inv'
  BY InvStep DEF managerVars
<1> QED BY <1>1 DEF VirtualOK, Virtual, screenVars

\* The bound on virtual screens is kept by the ids that are free or were given out.
LEMMA GeneratedIdType ==
    ASSUME VirtualOK, virtualNum \in 0 .. MaxVirtual, CanGenerate
    PROVE  GeneratedId \in VirtualIds
<1>1. CASE freeIds # <<>>
  BY <1>1, HeadTailProperties DEF VirtualOK, GeneratedId
<1>2. CASE freeIds = <<>>
  BY <1>2 DEF GeneratedId, CanGenerate, VirtualIds
<1> QED BY <1>1, <1>2

LEMMA CreateVirtual ==
    ASSUME Inv, VirtualOK, NEW s, NEW m, CreateVirtualScreen(s, m)
    PROVE  VirtualOK'
<1>1. CASE UNCHANGED <<screens, freeIds, virtualNum>>
  BY <1>1 DEF VirtualOK, Virtual
<1>2. CASE /\ CanGenerate
           /\ screens' = With(GeneratedId, Screen(s, m, TRUE))
           /\ IF freeIds # <<>>
                THEN freeIds' = Tail(freeIds) /\ UNCHANGED virtualNum
                ELSE virtualNum' = virtualNum + 1 /\ UNCHANGED freeIds
  <2>1. GeneratedId \in VirtualIds
    BY <1>2, GeneratedIdType DEF Inv, ScreenTypeOK
  <2>2. freeIds' \in Seq(VirtualIds)
    BY <1>2, HeadTailProperties DEF VirtualOK
  <2> QED BY <1>2, <2>1, <2>2 DEF VirtualOK, Virtual, With, Screen
<1> QED BY <1>1, <1>2 DEF CreateVirtualScreen

LEMMA AssignVirtual ==
    ASSUME Inv, VirtualOK, NEW id, NEW s, AssignSurface(id, s)
    PROVE  VirtualOK'
<1>1. UNCHANGED freeIds /\ DOMAIN screens' = DOMAIN screens
  BY DEF AssignSurface
<1>2. ASSUME NEW j \in DOMAIN screens PROVE screens'[j].virtual = screens[j].virtual
  <2>1. screens[j] \in Kinds
    BY TypeParts DEF Inv, ScreensOK
  <2> DEFINE n == [screens[j] EXCEPT !.surface = s]
  <2>2. n.virtual = screens[j].virtual
    BY <2>1 DEF Kinds
  <2>3. screens'[j] = screens[j] \/ screens'[j] = n
    BY <1>1 DEF AssignSurface
  <2> QED BY <2>2, <2>3
<1> QED BY <1>1, <1>2 DEF VirtualOK, Virtual

LEMMA RemoveVirtual ==
    ASSUME Inv, VirtualOK, NEW id, RemoveVirtualScreen(id)
    PROVE  VirtualOK'
<1>1. CASE UNCHANGED <<screens, freeIds>>
  BY <1>1 DEF VirtualOK, Virtual
<1>2. CASE /\ id \in DOMAIN screens
           /\ screens' = WithoutAll({id})
           /\ freeIds' = Append(freeIds, id)
  <2>1. /\ DOMAIN screens' = DOMAIN screens \ {id}
        /\ \A j \in DOMAIN screens' : screens'[j].virtual = screens[j].virtual
    BY <1>2, WithoutAllOK, TypeParts DEF Inv, RemoveVirtualScreen
  <2>2. freeIds' \in Seq(VirtualIds)
    BY <1>2, AppendProperties DEF VirtualOK
  <2> QED BY <2>1, <2>2 DEF VirtualOK, Virtual
<1> QED BY <1>1, <1>2 DEF RemoveVirtualScreen

\* The service keeps what the manager's theorems say of it, and has virtual screens only.
LEMMA ScreenStep == ASSUME Inv, TypeOK, CallKinds, Next PROVE Inv' /\ VirtualOK'
<1>0. VirtualOK
  BY DEF TypeOK
<1>1. ASSUME NEW cl \in Clients, NEW c \in Conns, ConstructConnection(cl, c)
      PROVE  Inv' /\ VirtualOK'
  BY <1>0, <1>1, SameScreens DEF ConstructConnection
<1>2. ASSUME NEW c \in Conns,
             \/ OnRemoteDied(c) \/ Destroy(c) \/ TaskRegisterNode(c)
             \/ CleanVSyncConnections(c) \/ CleanFinish(c) \/ RemoveConnection(c)
             \/ \E k \in Askable(c) : SendCall(c, k)
      PROVE  Inv' /\ VirtualOK'
  BY <1>0, <1>2, SameScreens
     DEF SendCall, OnRemoteDied, Destroy, TaskRegisterNode, CleanVSyncConnections,
         CleanFinish, RemoveConnection
<1>3. ASSUME NEW cl \in Clients,
             ConnectCalled(cl) \/ ClientDies(cl) \/ InsertConnection(cl) \/ ReplyConnection(cl)
      PROVE  Inv' /\ VirtualOK'
  BY <1>0, <1>3, SameScreens DEF ConnectCalled, ClientDies, InsertConnection, ReplyConnection
<1>4. ASSUME NEW c \in Conns, CallStep(c) PROVE Inv' /\ VirtualOK'
  <2>1. PICK k \in calls[c] :
            \/ CallCreateVirtualScreen(c, k) \/ CallCheckSurface(c, k)
            \/ CallAssignSurface(c, k)       \/ CallRemoveVirtualScreen(c, k)
            \/ CallSetCallback(c, k)         \/ CallAddVSync(c, k)
            \/ CallListVSync(c, k)           \/ CallCreateNode(c, k)
            \/ CallCommitTransaction(c, k)
    BY <1>4 DEF CallStep
  <2>2. k \in CallType
    BY DEF TypeOK, WorkOK
  <2>3. CASE CallCheckSurface(c, k) \/ CallAddVSync(c, k) \/ CallListVSync(c, k)
             \/ CallCreateNode(c, k) \/ CallCommitTransaction(c, k)
    BY <1>0, <2>3, SameScreens
       DEF CallCheckSurface, CallAddVSync, CallListVSync, CallCreateNode, CallCommitTransaction
  <2>4. CASE CallCreateVirtualScreen(c, k)
    <3>1. k.id \in Mirrored /\ k.surface \in Surfaces \cup {NoSurface}
      BY <2>2, <2>4 DEF CallKinds, CallCreateVirtualScreen, At, CallType
    <3>2. CreateVirtualScreen(k.surface, k.id) /\ UNCHANGED aborted
      BY <2>4 DEF CallCreateVirtualScreen
    <3> QED BY <1>0, <3>1, <3>2, CreateKeeps, CreateVirtual
  <2>5. CASE CallAssignSurface(c, k)
    <3>1. k.surface \in Surfaces
      BY <2>5 DEF CallKinds, CallAssignSurface, At
    <3> QED BY <1>0, <2>5, <3>1, AssignKeeps, AssignVirtual DEF CallAssignSurface
  <2>6. CASE CallRemoveVirtualScreen(c, k)
    <3>1. RemoveVirtualScreen(k.id) /\ UNCHANGED <<callbacks, told, flapped, aborted>>
      BY <2>6 DEF CallRemoveVirtualScreen
    <3> QED BY <1>0, <3>1, RemoveKeeps, RemoveVirtual
  <2>7. CASE CallSetCallback(c, k)
    <3>1. /\ Rest /\ UNCHANGED aborted
          /\ \/ AddScreenChangeCallback(c) \/ RemoveScreenChangeCallback({c})
             \/ UNCHANGED screenVars
      BY <2>7 DEF CallSetCallback, Rest, screenVars
    <3>2. Inv'
      BY <1>0, <3>1, CallbackKeeps, SameScreens DEF Conns
    <3> QED BY <1>0, <3>1, <3>2 DEF Rest, VirtualOK, Virtual
  <2> QED BY <2>1, <2>3, <2>4, <2>5, <2>6, <2>7
<1>5. ASSUME NEW c \in Conns, TaskClean(c) PROVE Inv' /\ VirtualOK'
  <2>1. virtualScreenIds[c] \in SUBSET (VirtualIds \cup {INVALID_SCREEN_ID})
    BY DEF TypeOK, ObjectsOK
  <2>2. (IF hasCallback[c] THEN {c} ELSE {}) \in SUBSET Callbacks
    BY DEF Conns
  <2> QED BY <1>0, <1>5, <2>1, <2>2, RemoveAllKeeps DEF TaskClean
<1>6. ASSUME ProcessCommand PROVE Inv' /\ VirtualOK'
  BY <1>0, <1>6, SameScreens DEF ProcessCommand
<1> QED
  BY <1>1, <1>2, <1>3, <1>4, <1>5, <1>6
     DEF Next, ServiceStep, ClientStep, CreateConnection, CleanStep, Unused

LEMMA TaskAdded ==
    ASSUME TypeOK, NEW c \in Conns, NEW do \in {"clean", "register"},
           tasks' = Append(tasks, [do |-> do, conn |-> c])
    PROVE  /\ tasks' \in Seq(TaskType) /\ Len(tasks) \in Nat /\ Len(tasks') = Len(tasks) + 1
           /\ DOMAIN tasks = 1 .. Len(tasks) /\ DOMAIN tasks' = 1 .. Len(tasks) + 1
           /\ \A i \in DOMAIN tasks : tasks'[i] = tasks[i]
           /\ tasks'[Len(tasks) + 1] = [do |-> do, conn |-> c]
<1> DEFINE e == [do |-> do, conn |-> c]
<1>1. e \in TaskType /\ tasks \in Seq(TaskType)
  BY DEF TypeOK, WorkOK, TaskType
<1>2. tasks' = Append(tasks, e)
  OBVIOUS
<1> HIDE DEF e
<1>3. tasks' \in Seq(TaskType) /\ Len(tasks') = Len(tasks) + 1
      /\ (\A i \in 1 .. Len(tasks) : tasks'[i] = tasks[i]) /\ tasks'[Len(tasks) + 1] = e
  BY <1>1, <1>2, AppendProperties
<1>4. DOMAIN tasks = 1 .. Len(tasks) /\ DOMAIN tasks' = 1 .. Len(tasks') /\ Len(tasks) \in Nat
  BY <1>1, <1>3, LenProperties
<1> QED BY <1>3, <1>4 DEF e

LEMMA TaskDone ==
    ASSUME TypeOK, tasks # <<>>, tasks' = Tail(tasks)
    PROVE  /\ tasks' \in Seq(TaskType) /\ Len(tasks) \in Nat
           /\ DOMAIN tasks = 1 .. Len(tasks) /\ DOMAIN tasks' = 1 .. Len(tasks) - 1
           /\ 1 \in DOMAIN tasks /\ Head(tasks) = tasks[1]
           /\ \A i \in DOMAIN tasks' : i + 1 \in DOMAIN tasks /\ tasks'[i] = tasks[i + 1]
<1>1. tasks \in Seq(TaskType)
  BY DEF TypeOK, WorkOK
<1>2. tasks' \in Seq(TaskType) /\ Len(tasks') = Len(tasks) - 1
      /\ \A i \in 1 .. Len(tasks') : tasks'[i] = tasks[i + 1]
  BY <1>1, HeadTailProperties
<1>3. DOMAIN tasks = 1 .. Len(tasks) /\ DOMAIN tasks' = 1 .. Len(tasks') /\ Len(tasks) \in Nat
  BY <1>1, <1>2, LenProperties
<1>4. Len(tasks) > 0
  BY <1>1, EmptySeq
<1> QED BY <1>1, <1>2, <1>3, <1>4

\* The steps of CreateConnection.
LEMMA Creating ==
    ASSUME TypeOK, NEW cl \in Clients
    PROVE  /\ ConnectCalled(cl) => /\ creating'[cl].at = "called"
                                   /\ creating'[cl].conn = creating[cl].conn
           /\ \A c \in Conns : ConstructConnection(cl, c) =>
                  creating'[cl].at = "made" /\ creating'[cl].conn = c
           /\ InsertConnection(cl) => /\ creating'[cl].at = "inserted"
                                      /\ creating'[cl].conn = creating[cl].conn
                                      /\ creating'[cl].old = connections[cl]
           /\ ReplyConnection(cl) => creating'[cl] = Idle
           /\ ConnectCalled(cl) \/ CreateConnection(cl) =>
                  /\ creating' \in [Clients -> CreatingType]
                  /\ \A d \in Clients \ {cl} : creating'[d] = creating[d]
<1>1. /\ creating \in [Clients -> CreatingType] /\ creating[cl] \in CreatingType
      /\ connections[cl] \in Conns \cup {NoConn}
  BY DEF TypeOK, ClientsOK, ObjectsOK
<1>2. ASSUME ConnectCalled(cl)
      PROVE  /\ creating'[cl].at = "called" /\ creating'[cl].conn = creating[cl].conn
             /\ creating' \in [Clients -> CreatingType]
             /\ \A d \in Clients \ {cl} : creating'[d] = creating[d]
  <2> DEFINE n == [creating[cl] EXCEPT !.at = "called"]
  <2>1. creating' = [creating EXCEPT ![cl] = n]
    BY <1>1, <1>2 DEF ConnectCalled
  <2>2. n \in CreatingType /\ n.at = "called" /\ n.conn = creating[cl].conn
    BY <1>1 DEF CreatingType
  <2> HIDE DEF n
  <2> QED BY <1>1, <2>1, <2>2
<1>3. ASSUME NEW c \in Conns, ConstructConnection(cl, c)
      PROVE  /\ creating'[cl].at = "made" /\ creating'[cl].conn = c
             /\ creating' \in [Clients -> CreatingType]
             /\ \A d \in Clients \ {cl} : creating'[d] = creating[d]
  <2> DEFINE n == [at |-> "made", conn |-> c, old |-> NoConn]
  <2>1. creating' = [creating EXCEPT ![cl] = n]
    BY <1>3 DEF ConstructConnection
  <2>2. n \in CreatingType /\ n.at = "made" /\ n.conn = c
    BY DEF CreatingType
  <2> HIDE DEF n
  <2> QED BY <1>1, <2>1, <2>2
<1>4. ASSUME InsertConnection(cl)
      PROVE  /\ creating'[cl].at = "inserted" /\ creating'[cl].conn = creating[cl].conn
             /\ creating'[cl].old = connections[cl]
             /\ creating' \in [Clients -> CreatingType]
             /\ \A d \in Clients \ {cl} : creating'[d] = creating[d]
  <2> DEFINE n == [creating[cl] EXCEPT !.at = "inserted", !.old = connections[cl]]
  <2>1. creating' = [creating EXCEPT ![cl] = n]
    BY <1>1, <1>4 DEF InsertConnection
  <2>2. n \in CreatingType /\ n.at = "inserted" /\ n.conn = creating[cl].conn
        /\ n.old = connections[cl]
    BY <1>1 DEF CreatingType
  <2> HIDE DEF n
  <2> QED BY <1>1, <2>1, <2>2
<1>5. ASSUME ReplyConnection(cl)
      PROVE  /\ creating'[cl] = Idle /\ creating' \in [Clients -> CreatingType]
             /\ \A d \in Clients \ {cl} : creating'[d] = creating[d]
  <2>1. creating' = [creating EXCEPT ![cl] = Idle] /\ Idle \in CreatingType
    BY <1>5 DEF ReplyConnection, CreatingType, Idle
  <2> QED BY <1>1, <2>1
<1> QED BY <1>2, <1>3, <1>4, <1>5 DEF CreateConnection, Unused

\* ProcessCommand moves the connections from the queue to the node map, and nothing else.
LEMMA ProcessFacts ==
    ASSUME ProcessCommand
    PROVE  /\ cacheCommandQueue' = {} /\ nodes' = nodes \cup cacheCommandQueue
           /\ UNCHANGED <<alive, proxy, creating, inputs, connections, state, owner, watched,
                          virtualScreenIds, hasCallback, vsyncListed, cleanDone, cleaning,
                          locked, calls, late, tasks, distributor, overtaken, aborted>>
           /\ UNCHANGED <<screens, freeIds, virtualNum, callbacks>>
BY DEF ProcessCommand, screenVars, clientVars, connVars

LEMMA ClientsStep == ASSUME TypeOK, Owned, Next PROVE ClientsOK'
<1>1. ClientsOK /\ ObjectsOK
  BY DEF TypeOK
<1>2. CASE UNCHANGED clientVars
  BY <1>1, <1>2 DEF clientVars, ClientsOK
<1>3. Input => inputs' \in 0 .. MaxInputs
  <2>1. ASSUME inputs \in 0 .. MaxInputs, inputs < MaxInputs PROVE inputs + 1 \in 0 .. MaxInputs
    BY <2>1
  <2> QED BY <1>1, <2>1 DEF Input, ClientsOK
<1>4. ASSUME NEW cl \in Clients, ConnectCalled(cl) \/ ClientDies(cl) PROVE ClientsOK'
  BY <1>1, <1>3, <1>4, Creating DEF ConnectCalled, ClientDies, ClientsOK
<1>5. ASSUME NEW cl \in Clients, CreateConnection(cl) PROVE ClientsOK'
  <2>1. creating' \in [Clients -> CreatingType] /\ UNCHANGED <<alive, inputs>>
    BY <1>5, Creating DEF CreateConnection, ConstructConnection, InsertConnection,
       ReplyConnection
  <2>2. creating[cl].conn \in Conns \cup {NoConn}
    BY <1>1 DEF ClientsOK, CreatingType
  <2>3. proxy' \in [Clients -> Conns \cup {NoConn}]
    BY <1>1, <1>5, <2>2 DEF CreateConnection, ConstructConnection, InsertConnection,
       ReplyConnection, ClientsOK
  <2> QED BY <1>1, <2>1, <2>3 DEF ClientsOK
<1>6. ASSUME NEW c \in Conns, NEW k, SendCall(c, k) PROVE ClientsOK'
  BY <1>1, <1>3, <1>6 DEF SendCall, ClientsOK
<1>7. ASSUME NEW c \in Conns,
             CallStep(c) \/ OnRemoteDied(c) \/ CleanStep(c) \/ TaskRegisterNode(c) \/ Destroy(c)
      PROVE  UNCHANGED clientVars
  BY <1>7 DEF CallStep, OnRemoteDied, CleanStep, TaskRegisterNode, Destroy,
     CallCreateVirtualScreen, CallCheckSurface, CallAssignSurface, CallRemoveVirtualScreen,
     CallSetCallback, CallAddVSync, CallListVSync, CallCreateNode,
     CallCommitTransaction, TaskClean,
     CleanVSyncConnections, CleanFinish, RemoveConnection
<1>8. ASSUME ProcessCommand PROVE UNCHANGED clientVars
  BY <1>8 DEF ProcessCommand
<1> QED
  BY <1>2, <1>4, <1>5, <1>6, <1>7, <1>8 DEF Next, ServiceStep, ClientStep

\* The id that a call adds to virtualScreenIds_.
LEMMA CreatedIdType ==
    ASSUME TypeOK, NEW s, NEW m, CreateVirtualScreen(s, m)
    PROVE  CreatedId(s) \in VirtualIds \cup {INVALID_SCREEN_ID}
<1>1. VirtualOK /\ virtualNum \in 0 .. MaxVirtual
  BY DEF TypeOK, ScreenTypeOK
<1>2. CASE SurfaceUsed(s, DOMAIN screens)
  BY <1>2 DEF CreatedId
<1>3. CASE ~SurfaceUsed(s, DOMAIN screens)
  BY <1>1, <1>3, GeneratedIdType DEF CreateVirtualScreen, CreatedId
<1> QED BY <1>2, <1>3

LEMMA ObjectsStep == ASSUME TypeOK, Owned, Next PROVE ObjectsOK'
<1>1. ScreenTypeOK /\ ClientsOK /\ ObjectsOK /\ FlagsOK
  BY DEF TypeOK
<1>2. ASSUME NEW cl \in Clients, CreateConnection(cl) PROVE ObjectsOK'
  <2>1. creating[cl].conn \in Conns \cup {NoConn}
    BY <1>1 DEF ClientsOK, CreatingType
  <2>2. ASSUME NEW c \in Conns, ConstructConnection(cl, c) PROVE ObjectsOK'
    BY <1>1, <2>2 DEF ConstructConnection, ObjectsOK
  <2>3. CASE InsertConnection(cl) \/ ReplyConnection(cl)
    BY <1>1, <2>1, <2>3 DEF InsertConnection, ReplyConnection, ObjectsOK, connVars
  <2> QED BY <1>2, <2>2, <2>3 DEF CreateConnection, Unused
<1>3. ASSUME NEW cl \in Clients, ConnectCalled(cl) \/ ClientDies(cl) PROVE ObjectsOK'
  BY <1>1, <1>3 DEF ConnectCalled, ClientDies, connVars, ObjectsOK
<1>4. ASSUME NEW c \in Conns, NEW k, SendCall(c, k) PROVE ObjectsOK'
  BY <1>1, <1>4 DEF SendCall, ObjectsOK
<1>5. ASSUME NEW c \in Conns, CallStep(c) PROVE ObjectsOK'
  BY <1>1, <1>5, CreatedIdType
     DEF CallStep, ObjectsOK, CallCreateVirtualScreen, CallCheckSurface, CallAssignSurface,
         CallRemoveVirtualScreen, CallSetCallback, CallAddVSync, CallListVSync, CallCreateNode,
     CallCommitTransaction
<1>6. ASSUME NEW c \in Conns, OnRemoteDied(c) \/ TaskRegisterNode(c) \/ Destroy(c)
      PROVE  ObjectsOK'
  BY <1>1, <1>6 DEF OnRemoteDied, TaskRegisterNode, Destroy, StartClean, ObjectsOK, connVars
<1>7. ASSUME NEW c \in Conns, CleanStep(c) PROVE ObjectsOK'
  BY <1>1, <1>7 DEF CleanStep, TaskClean, CleanVSyncConnections, CleanFinish,
     RemoveConnection, ObjectsOK
<1>8. ASSUME ProcessCommand PROVE ObjectsOK'
  BY <1>1, <1>8, ProcessFacts DEF ObjectsOK
<1> QED
  BY <1>2, <1>3, <1>4, <1>5, <1>6, <1>7, <1>8 DEF Next, ServiceStep, ClientStep

LEMMA FlagsStep == ASSUME TypeOK, Owned, Next PROVE FlagsOK'
<1>1. FlagsOK /\ ClientsOK
  BY DEF TypeOK
<1>2. ASSUME NEW cl \in Clients, CreateConnection(cl) PROVE FlagsOK'
  BY <1>1, <1>2 DEF CreateConnection, ConstructConnection, InsertConnection,
     ReplyConnection, FlagsOK, ClientsOK, connVars
<1>3. ASSUME NEW cl \in Clients, ConnectCalled(cl) \/ ClientDies(cl) PROVE FlagsOK'
  BY <1>1, <1>3 DEF ConnectCalled, ClientDies, connVars, FlagsOK
<1>4. ASSUME NEW c \in Conns, NEW k, SendCall(c, k) PROVE FlagsOK'
  BY <1>1, <1>4 DEF SendCall, FlagsOK
<1>5. ASSUME NEW c \in Conns, CallStep(c) PROVE FlagsOK'
  BY <1>1, <1>5
     DEF CallStep, FlagsOK, CallCreateVirtualScreen, CallCheckSurface, CallAssignSurface,
         CallRemoveVirtualScreen, CallSetCallback, CallAddVSync, CallListVSync, CallCreateNode,
     CallCommitTransaction
<1>6. ASSUME NEW c \in Conns, OnRemoteDied(c) \/ TaskRegisterNode(c) \/ Destroy(c)
      PROVE  FlagsOK'
  BY <1>1, <1>6 DEF OnRemoteDied, TaskRegisterNode, Destroy, StartClean, FlagsOK, connVars
<1>7. ASSUME NEW c \in Conns, CleanStep(c) PROVE FlagsOK'
  BY <1>1, <1>7 DEF CleanStep, TaskClean, CleanVSyncConnections, CleanFinish,
     RemoveConnection, FlagsOK
<1>8. ASSUME ProcessCommand PROVE FlagsOK'
  BY <1>1, <1>8, ProcessFacts DEF FlagsOK
<1> QED
  BY <1>2, <1>3, <1>4, <1>5, <1>6, <1>7, <1>8 DEF Next, ServiceStep, ClientStep

LEMMA WorkStep == ASSUME TypeOK, Owned, Next PROVE WorkOK'
<1>1. WorkOK
  BY DEF TypeOK
<1>2. CASE UNCHANGED <<calls, tasks, distributor, nodeVars>>
  BY <1>1, <1>2 DEF WorkOK, nodeVars
<1>3. ASSUME NEW cl \in Clients, CreateConnection(cl) \/ ConnectCalled(cl) \/ ClientDies(cl)
      PROVE  UNCHANGED <<calls, tasks, distributor, nodeVars>>
  BY <1>3 DEF CreateConnection, ConstructConnection, InsertConnection, ReplyConnection,
     ConnectCalled, ClientDies, connVars
<1>4. ASSUME NEW c \in Conns, state[c] = "live", NEW k \in Askable(c), SendCall(c, k)
      PROVE  WorkOK'
  <2>1. k \in CallType
    BY <1>4, Asked DEF Owned
  <2> QED BY <1>1, <1>4, <2>1 DEF SendCall, WorkOK, nodeVars
<1>5. ASSUME NEW c \in Conns, CallStep(c) PROVE WorkOK'
  <2>1. PICK k \in calls[c] :
            \/ CallCreateVirtualScreen(c, k) \/ CallCheckSurface(c, k)
            \/ CallAssignSurface(c, k)       \/ CallRemoveVirtualScreen(c, k)
            \/ CallSetCallback(c, k)         \/ CallAddVSync(c, k)
            \/ CallListVSync(c, k)           \/ CallCreateNode(c, k)
            \/ CallCommitTransaction(c, k)
    BY <1>5 DEF CallStep
  <2>2. calls' \in [Conns -> SUBSET CallType]
    <3>1. Return(c, k) \/ Goes(c, k, "assign") \/ Goes(c, k, "list")
      BY <2>1 DEF CallCreateVirtualScreen, CallCheckSurface, CallAssignSurface,
         CallRemoveVirtualScreen, CallSetCallback, CallAddVSync, CallListVSync, CallCreateNode,
     CallCommitTransaction
    <3> QED BY <3>1, CallEnds, CallGoes DEF Steps
  <2>3. tasks' \in Seq(TaskType)
    <3>1. tasks' = tasks \/ tasks' = Append(tasks, [do |-> "register", conn |-> c])
      BY <2>1 DEF CallCreateVirtualScreen, CallCheckSurface, CallAssignSurface,
         CallRemoveVirtualScreen, CallSetCallback, CallAddVSync, CallListVSync, CallCreateNode,
     CallCommitTransaction
    <3> QED BY <1>1, <3>1, TaskAdded DEF WorkOK
  <2>4. /\ UNCHANGED <<nodes, overtaken>> /\ distributor' \subseteq distributor \cup {c}
        /\ cacheCommandQueue' \subseteq cacheCommandQueue \cup {c}
    BY <2>1 DEF nodeVars, CallCreateVirtualScreen, CallCheckSurface, CallAssignSurface,
       CallRemoveVirtualScreen, CallSetCallback, CallAddVSync, CallListVSync, CallCreateNode,
     CallCommitTransaction
  <2> QED BY <1>1, <2>2, <2>3, <2>4 DEF WorkOK
<1>6. ASSUME NEW c \in Conns, OnRemoteDied(c) \/ Destroy(c) PROVE WorkOK'
  <2>1. /\ UNCHANGED <<calls, distributor, nodes, cacheCommandQueue, overtaken>>
        /\ tasks' = tasks \/ tasks' = Append(tasks, [do |-> "clean", conn |-> c])
    BY <1>6 DEF OnRemoteDied, Destroy, StartClean, nodeVars
  <2>2. tasks' \in Seq(TaskType)
    BY <1>1, <2>1, TaskAdded DEF WorkOK
  <2> QED BY <1>1, <2>1, <2>2 DEF WorkOK
<1>7. ASSUME NEW c \in Conns, TaskClean(c) \/ TaskRegisterNode(c) PROVE WorkOK'
  <2>1. /\ UNCHANGED <<calls, distributor, cacheCommandQueue>>
        /\ nodes' \subseteq nodes \cup {c}
        /\ overtaken' \subseteq overtaken \cup cacheCommandQueue
        /\ tasks # <<>> /\ tasks' = Tail(tasks)
    BY <1>7 DEF TaskClean, TaskRegisterNode, connVars
  <2>2. tasks' \in Seq(TaskType)
    BY <2>1, TaskDone
  <2> QED BY <1>1, <2>1, <2>2 DEF WorkOK
<1>8. ASSUME NEW c \in Conns,
             CleanVSyncConnections(c) \/ CleanFinish(c) \/ RemoveConnection(c)
      PROVE  WorkOK'
  BY <1>1, <1>8 DEF CleanVSyncConnections, CleanFinish, RemoveConnection, WorkOK, nodeVars
<1>9. ASSUME ProcessCommand PROVE WorkOK'
  BY <1>1, <1>9, ProcessFacts DEF WorkOK
<1> QED
  BY <1>2, <1>3, <1>4, <1>5, <1>6, <1>7, <1>8, <1>9 DEF Next, ServiceStep, ClientStep, CleanStep

-----------------------------------------------------------------------------
(* The inductive invariant of the service: who refers to a connection,     *)
(* how far its clean-up is, and what was made through it.                  *)

Refers(cl, c) == c \in {connections[cl], proxy[cl], creating[cl].conn}

\* The connections that a client or the service can reach are live and the client's own.
Linked ==
    /\ Owned
    /\ \A cl \in Clients, c \in Conns : Refers(cl, c) => state[c] = "live" /\ owner[c] = cl
    /\ \A cl \in Clients :
          /\ creating[cl].at \in {"idle", "called"} => creating[cl].conn = NoConn
          /\ proxy[cl] # NoConn => /\ alive[cl] /\ creating[cl].at = "idle"
                                   /\ connections[cl] = proxy[cl]
          /\ alive[cl] /\ creating[cl].at = "inserted" => connections[cl] = creating[cl].conn

\* A living client has no other connection than those, but for the one that
\* CreateConnection has just replaced and waits for.
OneConnection ==
    \A c \in Conns : state[c] \in {"live", "dying"} /\ alive[owner[c]] =>
        \/ Refers(owner[c], c)
        \/ creating[owner[c]].at = "inserted" /\ creating[owner[c]].old = c

Started(c) == cleaning[c] # "no" \/ cleanDone[c]
Emptied(c) == Started(c) /\ cleaning[c] # "posted"

\* CleanAll runs once for a connection, when its client is dead or nobody refers to it.
Stages ==
    \A c \in Conns :
        /\ state[c] = "unused" => ~Started(c) /\ ~watched[c] /\ ~late[c]
        /\ state[c] = "live" /\ Started(c) => ~alive[owner[c]] /\ ~watched[c]
        /\ state[c] = "dying" => cleaning[c] \in {"posted", "walk", "finish"}
        /\ state[c] = "gone" => cleaning[c] = "no" /\ cleanDone[c]
        /\ cleaning[c] \in {"posted", "walk", "finish"} => ~cleanDone[c]
        /\ cleaning[c] = "remove" => cleanDone[c] /\ state[c] = "live"
        /\ late[c] => Started(c)
        /\ calls[c] # {} => state[c] = "live"
        /\ Started(c) /\ ~late[c] => calls[c] = {}

IsTask(i, do, c) == tasks[i] = [do |-> do, conn |-> c]

\* The task of a clean-up comes after the nodes that were created through the
\* connection, and nothing of the connection is posted after it.
Posted ==
    \A c \in Conns :
        /\ \A i \in DOMAIN tasks :
              /\ tasks[i].conn = c => state[c] # "unused"
              /\ IsTask(i, "clean", c) => cleaning[c] = "posted"
        /\ \A i, j \in DOMAIN tasks : IsTask(i, "clean", c) /\ IsTask(j, "clean", c) => i = j
        /\ ~late[c] => \A i, j \in DOMAIN tasks :
                           IsTask(i, "clean", c) /\ tasks[j].conn = c => j <= i
        /\ ~late[c] /\ Emptied(c) => \A i \in DOMAIN tasks : tasks[i].conn # c

LEMMA LinkStep ==
    ASSUME TypeOK, Linked, OneConnection, Stages, Next
    PROVE  Linked' /\ OneConnection'
<1>1. /\ creating \in [Clients -> CreatingType] /\ NoConn \notin Conns
      /\ alive \in [Clients -> BOOLEAN]
      /\ proxy \in [Clients -> Conns \cup {NoConn}]
      /\ connections \in [Clients -> Conns \cup {NoConn}]
      /\ state \in [Conns -> {"unused", "live", "dying", "gone"}]
      /\ owner \in [Conns -> Clients \cup {NoConn}]
  BY DEF TypeOK, ClientsOK, ObjectsOK
<1>2. CASE UNCHANGED <<alive, proxy, creating, connections, state, owner>>
  BY <1>2 DEF Linked, Owned, Refers, OneConnection
<1>3. ASSUME NEW cl \in Clients, ConnectCalled(cl) PROVE Linked' /\ OneConnection'
  <2>1. /\ creating[cl].at = "idle" /\ creating'[cl].at = "called" /\ proxy[cl] = NoConn
        /\ creating'[cl].conn = creating[cl].conn
        /\ \A d \in Clients \ {cl} : creating'[d] = creating[d]
        /\ UNCHANGED <<alive, proxy, connections, state, owner>>
    BY <1>3, Creating DEF ConnectCalled, connVars
  <2>2. Linked'
    BY <1>1, <2>1 DEF Linked, Owned, Refers
  <2>3. OneConnection'
    BY <2>1 DEF OneConnection, Refers, Linked, Owned
  <2> QED BY <2>2, <2>3
<1>4. ASSUME NEW cl \in Clients, NEW c \in Unused, ConstructConnection(cl, c)
      PROVE  Linked' /\ OneConnection'
  <2>1. /\ c \in Conns /\ state[c] = "unused" /\ creating[cl].at = "called"
        /\ creating'[cl].at = "made" /\ creating'[cl].conn = c
        /\ \A d \in Clients \ {cl} : creating'[d] = creating[d]
        /\ UNCHANGED <<alive, proxy, connections>>
        /\ state'[c] = "live" /\ owner'[c] = cl
        /\ \A d \in Conns \ {c} : state'[d] = state[d] /\ owner'[d] = owner[d]
    BY <1>1, <1>4, Creating DEF ConstructConnection, Unused, CreateConnection
  <2>2. \A d \in Clients : ~Refers(d, c)
    BY <2>1 DEF Linked
  <2>3. creating[cl].conn = NoConn
    BY <2>1 DEF Linked
  <2>4. Linked'
    BY <1>1, <2>1, <2>2, <2>3 DEF Linked, Owned, Refers
  <2>5. OneConnection'
    BY <1>1, <2>1, <2>3 DEF OneConnection, Refers, Linked, Owned
  <2> QED BY <2>4, <2>5
<1>5. ASSUME NEW cl \in Clients, InsertConnection(cl) PROVE Linked' /\ OneConnection'
  <2>1. /\ creating[cl].at = "made" /\ creating'[cl].at = "inserted"
        /\ creating'[cl].conn = creating[cl].conn /\ creating'[cl].old = connections[cl]
        /\ \A d \in Clients \ {cl} : creating'[d] = creating[d] /\ connections'[d] = connections[d]
        /\ connections'[cl] = creating[cl].conn
        /\ UNCHANGED <<alive, proxy, state, owner>>
    BY <1>1, <1>5, Creating DEF InsertConnection, connVars
  <2>2. proxy[cl] = NoConn
    BY <2>1 DEF Linked
  <2>3. Linked'
    BY <1>1, <2>1, <2>2 DEF Linked, Owned, Refers
  <2>4. OneConnection'
    BY <1>1, <2>1, <2>2 DEF OneConnection, Refers, Linked, Owned
  <2> QED BY <2>3, <2>4
<1>6. ASSUME NEW cl \in Clients, ReplyConnection(cl) PROVE Linked' /\ OneConnection'
  <2>1. /\ creating[cl].at = "inserted" /\ creating'[cl].at = "idle"
        /\ creating'[cl].conn = NoConn
        /\ \A d \in Clients \ {cl} : creating'[d] = creating[d] /\ proxy'[d] = proxy[d]
        /\ alive[cl] => \A c \in Conns : creating[cl].old = c => state[c] = "gone"
        /\ proxy'[cl] = proxy[cl] \/ (alive[cl] /\ proxy'[cl] = creating[cl].conn)
        /\ UNCHANGED <<alive, connections, state, owner>>
    BY <1>1, <1>6, Creating DEF ReplyConnection, connVars, Idle
  <2>2. proxy[cl] = NoConn /\ (alive[cl] => connections[cl] = creating[cl].conn)
    BY <2>1 DEF Linked
  <2>3. Linked'
    BY <1>1, <2>1, <2>2 DEF Linked, Owned, Refers
  <2>4. OneConnection'
    <3> SUFFICES ASSUME NEW c \in Conns, state[c] \in {"live", "dying"}, alive[owner[c]]
                 PROVE  \/ Refers(owner[c], c)'
                        \/ creating'[owner[c]].at = "inserted" /\ creating'[owner[c]].old = c
      BY <2>1 DEF OneConnection, Refers
    <3>1. owner[c] \in Clients
      BY DEF Linked, Owned
    <3>2. CASE owner[c] # cl
      BY <2>1, <3>1, <3>2 DEF OneConnection, Refers
    <3>3. CASE owner[c] = cl
      BY <1>1, <2>1, <2>2, <3>3 DEF OneConnection, Refers
    <3> QED BY <3>2, <3>3
  <2> QED BY <2>3, <2>4
<1>7. ASSUME NEW cl \in Clients, ClientDies(cl) PROVE Linked' /\ OneConnection'
  <2>1. /\ ~alive'[cl] /\ proxy'[cl] = NoConn
        /\ \A d \in Clients \ {cl} : alive'[d] = alive[d] /\ proxy'[d] = proxy[d]
        /\ UNCHANGED <<creating, connections, state, owner>>
    BY <1>1, <1>7 DEF ClientDies, connVars
  <2>2. Linked'
    BY <1>1, <2>1 DEF Linked, Owned, Refers
  <2>3. OneConnection'
    BY <1>1, <2>1 DEF OneConnection, Refers, Linked, Owned
  <2> QED BY <2>2, <2>3
<1>8. ASSUME NEW c \in Conns, Destroy(c) PROVE Linked' /\ OneConnection'
  <2>1. /\ state[c] = "live" /\ ~Referenced(c) /\ state'[c] \in {"gone", "dying"}
        /\ \A d \in Conns \ {c} : state'[d] = state[d]
        /\ UNCHANGED <<alive, proxy, creating, connections, owner>>
    BY <1>1, <1>8 DEF Destroy, clientVars
  <2>2. \A cl \in Clients : ~Refers(cl, c)
    BY <2>1 DEF Linked, Refers, Referenced
  <2>3. Linked'
    BY <2>1, <2>2 DEF Linked, Owned, Refers
  <2>4. OneConnection'
    BY <2>1 DEF OneConnection, Refers
  <2> QED BY <2>3, <2>4
<1>9. ASSUME NEW c \in Conns, CleanFinish(c) PROVE Linked' /\ OneConnection'
  <2>1. /\ state'[c] = state[c] \/ (state[c] = "dying" /\ state'[c] = "gone")
        /\ \A d \in Conns \ {c} : state'[d] = state[d]
        /\ UNCHANGED <<alive, proxy, creating, connections, owner>>
    BY <1>1, <1>9 DEF CleanFinish, clientVars
  <2>2. Linked'
    BY <2>1 DEF Linked, Owned, Refers
  <2>3. OneConnection'
    BY <2>1 DEF OneConnection, Refers
  <2> QED BY <2>2, <2>3
<1>10. ASSUME NEW c \in Conns, RemoveConnection(c) PROVE Linked' /\ OneConnection'
  <2>1. state[c] = "live" /\ ~alive[owner[c]] /\ owner[c] \in Clients
    BY <1>10 DEF RemoveConnection, Stages, Started, Linked, Owned
  <2>2. /\ connections'[owner[c]] = NoConn
        /\ \A d \in Clients \ {owner[c]} : connections'[d] = connections[d]
        /\ UNCHANGED <<alive, proxy, creating, state, owner>>
    BY <1>1, <1>10, <2>1 DEF RemoveConnection, clientVars
  <2>3. Linked'
    BY <1>1, <2>1, <2>2 DEF Linked, Owned, Refers
  <2>4. OneConnection'
    BY <2>1, <2>2 DEF OneConnection, Refers, Linked, Owned
  <2> QED BY <2>3, <2>4
<1>11. ASSUME NEW c \in Conns,
              \/ CallStep(c) \/ OnRemoteDied(c) \/ TaskRegisterNode(c) \/ TaskClean(c)
              \/ CleanVSyncConnections(c) \/ \E k \in Askable(c) : SendCall(c, k)
       PROVE  UNCHANGED <<alive, proxy, creating, connections, state, owner>>
  BY <1>11 DEF CallStep, OnRemoteDied, TaskRegisterNode, TaskClean, CleanVSyncConnections,
     SendCall, CallCreateVirtualScreen, CallCheckSurface, CallAssignSurface,
     CallRemoveVirtualScreen, CallSetCallback, CallAddVSync, CallListVSync, CallCreateNode,
     CallCommitTransaction,
     clientVars, connVars
<1>12. ASSUME ProcessCommand
       PROVE  UNCHANGED <<alive, proxy, creating, connections, state, owner>>
  BY <1>12, ProcessFacts
<1> QED
  BY <1>2, <1>3, <1>4, <1>5, <1>6, <1>7, <1>8, <1>9, <1>10, <1>11, <1>12
     DEF Next, ServiceStep, ClientStep, CreateConnection, CleanStep

\* What all steps of calls have in common.
LEMMA CallFacts ==
    ASSUME TypeOK, NEW c \in Conns, CallStep(c)
    PROVE  /\ calls[c] # {} /\ \A d \in Conns \ {c} : calls'[d] = calls[d]
           /\ UNCHANGED <<clientVars, connections, state, owner, watched, cleanDone, cleaning,
                          late, nodes, overtaken>>
           /\ cacheCommandQueue' \subseteq cacheCommandQueue \cup {c}
<1>1. PICK k \in calls[c] :
          \/ CallCreateVirtualScreen(c, k) \/ CallCheckSurface(c, k)
          \/ CallAssignSurface(c, k)       \/ CallRemoveVirtualScreen(c, k)
          \/ CallSetCallback(c, k)         \/ CallAddVSync(c, k)
          \/ CallListVSync(c, k)           \/ CallCreateNode(c, k)
          \/ CallCommitTransaction(c, k)
  BY DEF CallStep
<1>2. Return(c, k) \/ Goes(c, k, "assign") \/ Goes(c, k, "list")
  BY <1>1 DEF CallCreateVirtualScreen, CallCheckSurface, CallAssignSurface,
     CallRemoveVirtualScreen, CallSetCallback, CallAddVSync, CallListVSync, CallCreateNode,
     CallCommitTransaction
<1>3. \A d \in Conns \ {c} : calls'[d] = calls[d]
  BY <1>2, CallEnds, CallGoes DEF Steps
<1> QED
  BY <1>1, <1>3 DEF nodeVars, CallCreateVirtualScreen, CallCheckSurface, CallAssignSurface,
     CallRemoveVirtualScreen, CallSetCallback, CallAddVSync, CallListVSync, CallCreateNode,
     CallCommitTransaction

\* The clean-up of c starts, or its destructor finds it done.
LEMMA StartFacts ==
    ASSUME TypeOK, Stages, NEW c \in Conns, OnRemoteDied(c) \/ Destroy(c)
    PROVE  /\ state[c] = "live" /\ cleaning[c] = "no"
           /\ \/ /\ cleanDone[c] /\ state'[c] = "gone" /\ UNCHANGED <<cleaning, tasks, late>>
              \/ /\ ~cleanDone[c] /\ state'[c] \in {"live", "dying"}
                 /\ cleaning'[c] = "posted" /\ ~late[c] /\ late'[c] = (calls[c] # {})
                 /\ \A d \in Conns \ {c} : cleaning'[d] = cleaning[d] /\ late'[d] = late[d]
                 /\ tasks' = Append(tasks, [do |-> "clean", conn |-> c])
           /\ state'[c] = "live" => ~watched'[c] /\ ~alive[owner[c]]
           /\ state'[c] # "live" => calls[c] = {}
           /\ \A d \in Conns \ {c} : state'[d] = state[d] /\ watched'[d] = watched[d]
           /\ UNCHANGED <<screenVars, clientVars, connections, owner, virtualScreenIds,
                   hasCallback, vsyncListed, cleanDone, locked, calls, distributor,
                   nodes, cacheCommandQueue, overtaken, aborted>>
<1>1. /\ state \in [Conns -> {"unused", "live", "dying", "gone"}]
      /\ cleaning \in [Conns -> {"no", "posted", "walk", "finish", "remove"}]
      /\ late \in [Conns -> BOOLEAN] /\ watched \in [Conns -> BOOLEAN]
  BY DEF TypeOK, ObjectsOK, FlagsOK
<1>2. CASE OnRemoteDied(c)
  <2>1. ~Started(c)
    BY <1>2 DEF OnRemoteDied, Stages
  <2> QED BY <1>1, <1>2, <2>1 DEF OnRemoteDied, StartClean, Started, Stages, nodeVars
<1>3. CASE Destroy(c)
  <2>1. cleaning[c] = "no" /\ state[c] = "live" /\ (~cleanDone[c] => ~Started(c) /\ ~late[c])
    BY <1>3 DEF Destroy, Referenced, Started, Stages
  <2> QED BY <1>1, <1>3, <2>1 DEF Destroy, StartClean, Referenced, nodeVars
<1> QED BY <1>2, <1>3

\* The task at the head of the queue that cleans c.
LEMMA CleanIsPosted ==
    ASSUME TypeOK, Posted, NEW c \in Conns, TaskClean(c)
    PROVE  IsTask(1, "clean", c) /\ cleaning[c] = "posted"
<1>1. tasks # <<>> /\ tasks' = Tail(tasks) /\ Head(tasks) = [do |-> "clean", conn |-> c]
  BY DEF TaskClean
<1>2. 1 \in DOMAIN tasks /\ Head(tasks) = tasks[1]
  BY <1>1, TaskDone
<1> QED BY <1>1, <1>2 DEF Posted, IsTask

LEMMA StageStep == ASSUME TypeOK, Linked, Stages, Posted, Next PROVE Stages'
<1>1. /\ alive \in [Clients -> BOOLEAN]
      /\ state \in [Conns -> {"unused", "live", "dying", "gone"}]
      /\ owner \in [Conns -> Clients \cup {NoConn}] /\ Owned
      /\ cleaning \in [Conns -> {"no", "posted", "walk", "finish", "remove"}]
      /\ watched \in [Conns -> BOOLEAN] /\ cleanDone \in [Conns -> BOOLEAN]
      /\ late \in [Conns -> BOOLEAN] /\ calls \in [Conns -> SUBSET CallType]
  BY DEF TypeOK, ClientsOK, ObjectsOK, FlagsOK, WorkOK, Linked
<1>2. CASE UNCHANGED <<state, owner, watched, cleanDone, cleaning, late, calls, alive>>
  BY <1>2 DEF Stages, Started
<1>3. ASSUME NEW cl \in Clients,
             ConnectCalled(cl) \/ InsertConnection(cl) \/ ReplyConnection(cl)
      PROVE  UNCHANGED <<state, owner, watched, cleanDone, cleaning, late, calls, alive>>
  BY <1>3 DEF ConnectCalled, InsertConnection, ReplyConnection, connVars
<1>4. ASSUME NEW cl \in Clients, NEW c \in Unused, ConstructConnection(cl, c) PROVE Stages'
  <2>1. /\ c \in Conns /\ state[c] = "unused" /\ state'[c] = "live"
        /\ \A d \in Conns \ {c} : /\ state'[d] = state[d] /\ owner'[d] = owner[d]
                                  /\ watched'[d] = watched[d]
        /\ UNCHANGED <<cleanDone, cleaning, late, calls, alive>>
    BY <1>1, <1>4 DEF ConstructConnection, Unused
  <2>2. ~Started(c) /\ ~late[c] /\ calls[c] = {}
    BY <2>1 DEF Stages
  <2> QED BY <2>1, <2>2 DEF Stages, Started
<1>5. ASSUME NEW cl \in Clients, ClientDies(cl) PROVE Stages'
  <2>1. /\ \A d \in Clients : alive'[d] => alive[d]
        /\ UNCHANGED <<state, owner, watched, cleanDone, cleaning, late, calls>>
    BY <1>1, <1>5 DEF ClientDies, connVars
  <2> QED BY <1>1, <2>1 DEF Stages, Started, Owned
<1>6. ASSUME NEW c \in Conns, NEW k, SendCall(c, k) PROVE Stages'
  <2>1. /\ state[c] = "live" /\ alive[owner[c]]
        /\ \A d \in Conns \ {c} : calls'[d] = calls[d]
        /\ UNCHANGED <<state, owner, watched, cleanDone, cleaning, late, alive>>
    BY <1>1, <1>6 DEF SendCall
  <2> QED BY <2>1 DEF Stages, Started
<1>7. ASSUME NEW c \in Conns, CallStep(c) PROVE Stages'
  <2>1. /\ calls[c] # {} /\ \A d \in Conns \ {c} : calls'[d] = calls[d]
        /\ UNCHANGED <<state, owner, watched, cleanDone, cleaning, late, alive>>
    BY <1>7, CallFacts DEF clientVars
  <2> QED BY <2>1 DEF Stages, Started
<1>8. ASSUME NEW c \in Conns, OnRemoteDied(c) \/ Destroy(c) PROVE Stages'
  <2>1. /\ UNCHANGED <<owner, cleanDone, calls, alive>> /\ state[c] = "live"
        /\ \A d \in Conns \ {c} : /\ state'[d] = state[d] /\ watched'[d] = watched[d]
                                  /\ cleaning'[d] = cleaning[d] /\ late'[d] = late[d]
        /\ \/ /\ cleanDone[c] /\ state'[c] = "gone" /\ cleaning'[c] = "no"
              /\ late'[c] = late[c] /\ calls[c] = {}
           \/ /\ ~cleanDone[c] /\ cleaning'[c] = "posted" /\ late'[c] = (calls[c] # {})
              /\ \/ state'[c] = "live" /\ ~watched'[c] /\ ~alive[owner[c]]
                 \/ state'[c] = "dying" /\ calls[c] = {}
    BY <1>1, <1>8, StartFacts DEF clientVars
  <2> DEFINE S(d) ==
        /\ state'[d] = "unused" => ~Started(d)' /\ ~watched'[d] /\ ~late'[d]
        /\ state'[d] = "live" /\ Started(d)' => ~alive'[owner'[d]] /\ ~watched'[d]
        /\ state'[d] = "dying" => cleaning'[d] \in {"posted", "walk", "finish"}
        /\ state'[d] = "gone" => cleaning'[d] = "no" /\ cleanDone'[d]
        /\ cleaning'[d] \in {"posted", "walk", "finish"} => ~cleanDone'[d]
        /\ cleaning'[d] = "remove" => cleanDone'[d] /\ state'[d] = "live"
        /\ late'[d] => Started(d)'
        /\ calls'[d] # {} => state'[d] = "live"
        /\ Started(d)' /\ ~late'[d] => calls'[d] = {}
  <2>2. ASSUME NEW d \in Conns \ {c} PROVE S(d)
    BY <2>1 DEF Stages, Started
  <2>3. S(c)
    BY <2>1 DEF Stages, Started
  <2> QED BY <2>2, <2>3 DEF Stages
<1>9. ASSUME NEW c \in Conns, TaskRegisterNode(c)
      PROVE  UNCHANGED <<state, owner, watched, cleanDone, cleaning, late, calls, alive>>
  BY <1>9 DEF TaskRegisterNode, connVars, clientVars
<1>10. ASSUME NEW c \in Conns, TaskClean(c) PROVE Stages'
  <2>1. /\ cleaning[c] = "posted" /\ cleaning'[c] = "walk" /\ \A d \in Conns \ {c} : cleaning'[d] = cleaning[d]
        /\ UNCHANGED <<state, owner, watched, cleanDone, late, calls, alive>>
    BY <1>1, <1>10, CleanIsPosted DEF TaskClean, clientVars
  <2> QED BY <2>1 DEF Stages, Started
<1>11. ASSUME NEW c \in Conns, CleanVSyncConnections(c) PROVE Stages'
  <2>1. /\ cleaning[c] = "walk" /\ cleaning'[c] = "finish"
        /\ \A d \in Conns \ {c} : cleaning'[d] = cleaning[d]
        /\ UNCHANGED <<state, owner, watched, cleanDone, late, calls, alive>>
    BY <1>1, <1>11 DEF CleanVSyncConnections, clientVars
  <2> QED BY <2>1 DEF Stages, Started
<1>12. ASSUME NEW c \in Conns, CleanFinish(c) PROVE Stages'
  <2>1. /\ cleaning[c] = "finish" /\ cleanDone'[c]
        /\ \/ state[c] = "dying" /\ state'[c] = "gone" /\ cleaning'[c] = "no"
           \/ state[c] = "live" /\ state'[c] = "live" /\ cleaning'[c] = "remove"
        /\ \A d \in Conns \ {c} : /\ cleaning'[d] = cleaning[d] /\ state'[d] = state[d]
                                  /\ cleanDone'[d] = cleanDone[d]
        /\ UNCHANGED <<owner, watched, late, calls, alive>>
    BY <1>1, <1>12 DEF CleanFinish, clientVars
  <2> QED BY <2>1 DEF Stages, Started
<1>13. ASSUME NEW c \in Conns, RemoveConnection(c) PROVE Stages'
  <2>1. /\ cleaning[c] = "remove" /\ cleaning'[c] = "no"
        /\ \A d \in Conns \ {c} : cleaning'[d] = cleaning[d]
        /\ UNCHANGED <<state, owner, watched, cleanDone, late, calls, alive>>
    BY <1>1, <1>13 DEF RemoveConnection, clientVars
  <2> QED BY <2>1 DEF Stages, Started
<1>14. ASSUME ProcessCommand
       PROVE  UNCHANGED <<state, owner, watched, cleanDone, cleaning, late, calls, alive>>
  BY <1>14, ProcessFacts
<1> QED
  BY <1>2, <1>3, <1>4, <1>5, <1>6, <1>7, <1>8, <1>9, <1>10, <1>11, <1>12, <1>13, <1>14
     DEF Next, ServiceStep, ClientStep, CreateConnection, CleanStep

LEMMA PostStep == ASSUME TypeOK, Linked, Stages, Posted, Next PROVE Posted'
<1>1. /\ state \in [Conns -> {"unused", "live", "dying", "gone"}]
      /\ cleaning \in [Conns -> {"no", "posted", "walk", "finish", "remove"}]
      /\ cleanDone \in [Conns -> BOOLEAN] /\ tasks \in Seq(TaskType)
      /\ late \in [Conns -> BOOLEAN] /\ calls \in [Conns -> SUBSET CallType]
  BY DEF TypeOK, ObjectsOK, FlagsOK, WorkOK
<1>2. CASE UNCHANGED <<state, cleanDone, cleaning, late, tasks>>
  BY <1>2 DEF Posted, IsTask, Started, Emptied
<1>3. ASSUME NEW cl \in Clients,
             \/ ConnectCalled(cl) \/ InsertConnection(cl) \/ ReplyConnection(cl)
             \/ ClientDies(cl)
      PROVE  UNCHANGED <<state, cleanDone, cleaning, late, tasks>>
  BY <1>3 DEF ConnectCalled, InsertConnection, ReplyConnection, ClientDies, connVars
<1>4. ASSUME NEW cl \in Clients, NEW c \in Unused, ConstructConnection(cl, c) PROVE Posted'
  <2>1. /\ state'[c] = "live" /\ \A d \in Conns \ {c} : state'[d] = state[d]
        /\ UNCHANGED <<cleanDone, cleaning, late, tasks>>
    BY <1>1, <1>4 DEF ConstructConnection, Unused
  <2> QED BY <2>1 DEF Posted, IsTask, Started, Emptied
<1>5. ASSUME NEW c \in Conns, NEW k, SendCall(c, k)
      PROVE  UNCHANGED <<state, cleanDone, cleaning, late, tasks>>
  BY <1>5 DEF SendCall
<1>6. ASSUME NEW c \in Conns, CallStep(c) PROVE Posted'
  <2>1. /\ UNCHANGED <<state, cleanDone, cleaning, late>> /\ calls[c] # {}
        /\ tasks' = tasks \/ tasks' = Append(tasks, [do |-> "register", conn |-> c])
    BY <1>6, CallFacts DEF CallStep,
     CallCreateVirtualScreen, CallCheckSurface, CallAssignSurface,
     CallRemoveVirtualScreen, CallSetCallback, CallAddVSync, CallListVSync, CallCreateNode,
     CallCommitTransaction
  <2>2. state[c] = "live" /\ (Started(c) => late[c])
    BY <2>1 DEF Stages
  <2>3. CASE tasks' = tasks
    BY <1>2, <2>1, <2>3
  <2>4. CASE tasks' = Append(tasks, [do |-> "register", conn |-> c])
    <3> DEFINE n == Len(tasks)
    <3>1. /\ n \in Nat /\ DOMAIN tasks = 1 .. n /\ DOMAIN tasks' = 1 .. n + 1
          /\ \A i \in 1 .. n : tasks'[i] = tasks[i]
          /\ tasks'[n + 1].conn = c /\ tasks'[n + 1].do = "register"
      BY <2>4, TaskAdded
    <3> HIDE DEF n
    <3>2. \A i \in DOMAIN tasks' :
              \/ i \in DOMAIN tasks /\ tasks'[i] = tasks[i]
              \/ /\ i = n + 1 /\ tasks'[i].conn = c
                 /\ \A d \in Conns : ~IsTask(i, "clean", d)'
      BY <3>1 DEF IsTask
    <3>3. \A i \in DOMAIN tasks : ~late[c] => ~IsTask(i, "clean", c)
      BY <2>2 DEF Posted, Started, IsTask
    <3> QED BY <2>1, <2>2, <3>2, <3>3 DEF Posted, IsTask, Emptied, Started
  <2> QED BY <2>1, <2>3, <2>4
<1>7. ASSUME NEW c \in Conns, OnRemoteDied(c) \/ Destroy(c) PROVE Posted'
  <2>1. CASE cleanDone[c] /\ state'[c] = "gone" /\ UNCHANGED <<cleaning, tasks, late>>
    <3>1. /\ \A d \in Conns \ {c} : state'[d] = state[d]
          /\ UNCHANGED cleanDone
      BY <1>7, StartFacts
    <3> QED BY <2>1, <3>1 DEF Posted, IsTask, Started, Emptied
  <2>2. CASE ~(cleanDone[c] /\ state'[c] = "gone" /\ UNCHANGED <<cleaning, tasks, late>>)
    <3> DEFINE n == Len(tasks)
    <3>1. /\ state[c] = "live" /\ cleaning[c] = "no" /\ ~cleanDone[c]
          /\ state'[c] \in {"live", "dying"} /\ cleaning'[c] = "posted"
          /\ ~late[c]
          /\ \A d \in Conns \ {c} : /\ state'[d] = state[d] /\ cleaning'[d] = cleaning[d]
                                    /\ late'[d] = late[d]
          /\ tasks' = Append(tasks, [do |-> "clean", conn |-> c])
          /\ UNCHANGED cleanDone
      BY <1>7, <2>2, StartFacts
    <3>2. /\ n \in Nat /\ DOMAIN tasks = 1 .. n /\ DOMAIN tasks' = 1 .. n + 1
          /\ \A i \in 1 .. n : tasks'[i] = tasks[i]
          /\ tasks'[n + 1] = [do |-> "clean", conn |-> c]
      BY <3>1, TaskAdded
    <3> HIDE DEF n
    <3>3. \A i \in DOMAIN tasks : ~IsTask(i, "clean", c)
      BY <3>1 DEF Posted, IsTask
    <3>4. \A i \in DOMAIN tasks' : \/ i \in DOMAIN tasks /\ tasks'[i] = tasks[i]
                                   \/ i = n + 1 /\ tasks'[i] = [do |-> "clean", conn |-> c]
      BY <3>2
    <3>5. \A i \in DOMAIN tasks' : IsTask(i, "clean", c)' => i = n + 1
      BY <3>3, <3>4 DEF IsTask
    <3>6. \A i \in DOMAIN tasks' : tasks'[i].conn # c =>
              /\ i \in DOMAIN tasks /\ tasks'[i] = tasks[i]
              /\ \A d \in Conns : IsTask(i, "clean", d)' <=> IsTask(i, "clean", d)
      BY <3>4 DEF IsTask
    <3>8. \A i \in DOMAIN tasks' : \A d \in Conns \ {c} : IsTask(i, "clean", d)' => tasks'[i].conn # c
      BY DEF IsTask
    <3>7. \A i \in DOMAIN tasks' : i <= n + 1
      BY <3>2
    <3> QED BY <3>1, <3>4, <3>5, <3>6, <3>7, <3>8 DEF Posted, Emptied, Started
  <2> QED BY <2>1, <2>2
<1>8. ASSUME NEW c \in Conns, tasks # <<>>, tasks' = Tail(tasks), Head(tasks).conn = c,
             UNCHANGED <<state, cleanDone, late>>,
             \/ cleaning' = cleaning /\ ~IsTask(1, "clean", c)
             \/ /\ IsTask(1, "clean", c) /\ cleaning'[c] = "walk"
                /\ \A d \in Conns \ {c} : cleaning'[d] = cleaning[d]
      PROVE  Posted'
  <2>1. /\ 1 \in DOMAIN tasks /\ tasks[1].conn = c
        /\ \A i \in DOMAIN tasks' : i \in Int /\ i + 1 \in DOMAIN tasks /\ tasks'[i] = tasks[i + 1]
    BY <1>8, TaskDone
  <2>2. \A i \in DOMAIN tasks' : \A d \in Conns :
            IsTask(i, "clean", d)' => IsTask(i + 1, "clean", d)
    BY <2>1 DEF IsTask
  <2>3. IsTask(1, "clean", c) => \A i \in DOMAIN tasks' : ~IsTask(i, "clean", c)'
    <3>1. \A i \in DOMAIN tasks' : i # 0 
      BY <1>8, TaskDone
    <3> QED BY <2>1, <2>2, <3>1 DEF Posted, IsTask
  <2>4. ~late[c] /\ IsTask(1, "clean", c) => \A i \in DOMAIN tasks' : tasks'[i].conn # c
    <3>1. \A i \in DOMAIN tasks' : i \in Nat \ {0}
      BY <1>8, TaskDone
    <3> QED BY <2>1, <3>1 DEF Posted, IsTask
  <2>5. \A d \in Conns : \A i \in DOMAIN tasks' : tasks'[i].conn = d => state'[d] # "unused"
    BY <1>8, <2>1 DEF Posted
  <2>6. \A d \in Conns : \A i \in DOMAIN tasks' : IsTask(i, "clean", d)' => cleaning'[d] = "posted"
    BY <1>8, <2>1, <2>2, <2>3 DEF Posted, IsTask
  <2>7. \A d \in Conns : \A i, j \in DOMAIN tasks' :
            IsTask(i, "clean", d)' /\ IsTask(j, "clean", d)' => i = j
    BY <2>1, <2>2 DEF Posted, IsTask
  <2>8. \A d \in Conns : ~late'[d] => \A i, j \in DOMAIN tasks' :
            IsTask(i, "clean", d)' /\ tasks'[j].conn = d => j <= i
    BY <1>8, <2>1, <2>2 DEF Posted, IsTask
  <2>9. \A d \in Conns : ~late'[d] /\ Emptied(d)' => \A i \in DOMAIN tasks' : tasks'[i].conn # d
    <3> SUFFICES ASSUME NEW d \in Conns, ~late'[d], Emptied(d)', NEW i \in DOMAIN tasks'
                 PROVE  tasks'[i].conn # d
      OBVIOUS
    <3>1. CASE Emptied(d)
      BY <1>8, <2>1, <3>1 DEF Posted
    <3>2. CASE ~Emptied(d)
      BY <1>8, <2>4, <3>2 DEF Emptied, Started
    <3> QED BY <3>1, <3>2
  <2> QED BY <2>5, <2>6, <2>7, <2>8, <2>9 DEF Posted
<1>9. ASSUME NEW c \in Conns, TaskRegisterNode(c) PROVE Posted'
  <2>1. /\ tasks # <<>> /\ tasks' = Tail(tasks) /\ Head(tasks).conn = c
        /\ Head(tasks).do = "register" /\ UNCHANGED <<state, cleanDone, late, cleaning>>
    BY <1>9 DEF TaskRegisterNode, connVars
  <2>2. ~IsTask(1, "clean", c)
    BY <2>1, TaskDone DEF IsTask
  <2> QED BY <1>8, <2>1, <2>2
<1>10. ASSUME NEW c \in Conns, TaskClean(c) PROVE Posted'
  <2>1. /\ tasks # <<>> /\ tasks' = Tail(tasks) /\ Head(tasks).conn = c
        /\ UNCHANGED <<state, cleanDone, late>> /\ cleaning'[c] = "walk"
        /\ \A d \in Conns \ {c} : cleaning'[d] = cleaning[d]
    BY <1>1, <1>10 DEF TaskClean
  <2> QED BY <1>8, <1>10, <2>1, CleanIsPosted
<1>11. ASSUME NEW c \in Conns,
              CleanVSyncConnections(c) \/ CleanFinish(c) \/ RemoveConnection(c)
       PROVE  Posted'
  <2>1. /\ cleaning[c] \notin {"no", "posted"} /\ cleaning'[c] # "posted"
        /\ \A d \in Conns \ {c} : /\ cleaning'[d] = cleaning[d] /\ state'[d] = state[d]
                                  /\ cleanDone'[d] = cleanDone[d]
        /\ state[c] # "unused" => state'[c] # "unused"
        /\ UNCHANGED <<late, tasks>>
    BY <1>1, <1>11 DEF CleanVSyncConnections, CleanFinish, RemoveConnection
  <2> QED BY <2>1 DEF Posted, IsTask, Started, Emptied
<1>12. ASSUME ProcessCommand PROVE UNCHANGED <<state, cleanDone, cleaning, late, tasks>>
  BY <1>12, ProcessFacts
<1> QED
  BY <1>2, <1>3, <1>4, <1>5, <1>6, <1>7, <1>9, <1>10, <1>11, <1>12
     DEF Next, ServiceStep, ClientStep, CreateConnection, CleanStep

\* What is made through a connection is listed there until it is taken back, but for nodes
\* whose commands were waiting when CleanRenderNodes ran.
Listed(c) == vsyncListed[c] \/ \E k \in calls[c] : k.op = "list"
Taken ==
    \A c \in Conns :
        /\ c \in callbacks <=> hasCallback[c]
        /\ state[c] = "unused" => /\ virtualScreenIds[c] = {} /\ ~hasCallback[c]
                                  /\ c \notin distributor
                                  /\ c \notin nodes \cup cacheCommandQueue
        /\ ~late[c] /\ Emptied(c) =>
              /\ virtualScreenIds[c] = {} /\ ~hasCallback[c]
              /\ c \in nodes \cup cacheCommandQueue => c \in overtaken
        /\ ~late[c] /\ Emptied(c) /\ cleaning[c] # "walk" => c \notin distributor
        /\ ~late[c] /\ c \in distributor => Listed(c)

\* What a call does to what its connection holds.
LEMMA CallHolds ==
    ASSUME TypeOK, Taken, NEW c \in Conns, CallStep(c)
    PROVE  /\ c \in callbacks' <=> hasCallback'[c]
           /\ Listed(c) => Listed(c)'
           /\ c \in distributor' => c \in distributor \/ Listed(c)'
           /\ \A d \in Conns \ {c} :
                  /\ virtualScreenIds'[d] = virtualScreenIds[d]
                  /\ hasCallback'[d] = hasCallback[d] /\ vsyncListed'[d] = vsyncListed[d]
                  /\ (d \in distributor' <=> d \in distributor)
                  /\ (d \in callbacks' <=> d \in callbacks)
<1>1. PICK k \in calls[c] :
          \/ CallCreateVirtualScreen(c, k) \/ CallCheckSurface(c, k)
          \/ CallAssignSurface(c, k)       \/ CallRemoveVirtualScreen(c, k)
          \/ CallSetCallback(c, k)         \/ CallAddVSync(c, k)
          \/ CallListVSync(c, k)           \/ CallCreateNode(c, k)
          \/ CallCommitTransaction(c, k)
  BY DEF CallStep
<1>2. /\ hasCallback \in [Conns -> BOOLEAN] /\ vsyncListed \in [Conns -> BOOLEAN]
      /\ virtualScreenIds \in [Conns -> SUBSET (VirtualIds \cup {INVALID_SCREEN_ID})]
  BY DEF TypeOK, FlagsOK, ObjectsOK
<1>3. c \in callbacks <=> hasCallback[c]
  BY DEF Taken
<1>4. CASE CallCheckSurface(c, k)
  <2>1. /\ k.op = "surface" /\ (Return(c, k) \/ Goes(c, k, "assign"))
        /\ UNCHANGED <<virtualScreenIds, hasCallback, vsyncListed, distributor, callbacks>>
    BY <1>4 DEF CallCheckSurface, At, screenVars
  <2>2. \A l \in calls[c] \ {k} : l \in calls'[c]
    BY <2>1, CallEnds, CallGoes DEF Steps
  <2> QED BY <1>3, <2>1, <2>2 DEF Listed
<1>5. CASE CallAddVSync(c, k)
  <2>1. /\ k.op = "vsync" /\ Goes(c, k, "list") /\ distributor' = distributor \cup {c}
        /\ UNCHANGED <<virtualScreenIds, hasCallback, vsyncListed, callbacks>>
    BY <1>5 DEF CallAddVSync, At, screenVars
  <2>2. \E n \in calls'[c] : n.op = "list"
    BY <2>1, CallGoes DEF Steps
  <2> QED BY <1>3, <2>1, <2>2 DEF Listed
<1>6. CASE CallSetCallback(c, k)
  <2>1. /\ k.op # "list" /\ Return(c, k)
        /\ UNCHANGED <<virtualScreenIds, vsyncListed, distributor>>
        /\ \A d \in Conns \ {c} : hasCallback'[d] = hasCallback[d]
        /\ \/ hasCallback'[c] /\ callbacks' = callbacks /\ hasCallback[c]
           \/ hasCallback'[c] /\ callbacks' = callbacks \cup {c}
           \/ ~hasCallback'[c] /\ callbacks' = callbacks \ {c}
           \/ ~hasCallback'[c] /\ callbacks' = callbacks /\ ~hasCallback[c]
    BY <1>2, <1>6 DEF CallSetCallback, At, AddScreenChangeCallback, RemoveScreenChangeCallback
  <2>2. calls'[c] = calls[c] \ {k}
    BY <2>1, CallEnds
  <2> QED BY <1>3, <2>1, <2>2 DEF Listed
<1>7. CASE CallListVSync(c, k)
  BY <1>2, <1>3, <1>7 DEF CallListVSync, Listed, screenVars
<1>8. CASE CallCreateVirtualScreen(c, k) \/ CallAssignSurface(c, k)
           \/ CallRemoveVirtualScreen(c, k) \/ CallCreateNode(c, k)
           \/ CallCommitTransaction(c, k)
  <2>1. /\ k.op # "list" /\ Return(c, k)
        /\ UNCHANGED <<hasCallback, vsyncListed, distributor, callbacks>>
        /\ \A d \in Conns \ {c} : virtualScreenIds'[d] = virtualScreenIds[d]
    BY <1>2, <1>8 DEF CallCreateVirtualScreen, CallAssignSurface, CallRemoveVirtualScreen,
       CallCreateNode, CallCommitTransaction, At, screenVars, CreateVirtualScreen, AssignSurface
  <2>2. calls'[c] = calls[c] \ {k}
    BY <2>1, CallEnds
  <2> QED BY <1>3, <2>1, <2>2 DEF Listed
<1> QED BY <1>1, <1>4, <1>5, <1>6, <1>7, <1>8

LEMMA TakenStep == ASSUME TypeOK, Linked, Stages, Posted, Taken, Next PROVE Taken'
<1>1. /\ state \in [Conns -> {"unused", "live", "dying", "gone"}]
      /\ cleaning \in [Conns -> {"no", "posted", "walk", "finish", "remove"}]
      /\ virtualScreenIds \in [Conns -> SUBSET (VirtualIds \cup {INVALID_SCREEN_ID})]
      /\ hasCallback \in [Conns -> BOOLEAN] /\ vsyncListed \in [Conns -> BOOLEAN]
      /\ cleanDone \in [Conns -> BOOLEAN] /\ late \in [Conns -> BOOLEAN]
      /\ calls \in [Conns -> SUBSET CallType]
  BY DEF TypeOK, ObjectsOK, FlagsOK, WorkOK
<1>2. CASE UNCHANGED <<callbacks, hasCallback, state, virtualScreenIds, distributor, nodeVars,
                       late, cleaning, cleanDone, vsyncListed, calls>>
  BY <1>2 DEF Taken, Listed, Started, Emptied, nodeVars
<1>3. ASSUME NEW cl \in Clients,
             \/ ConnectCalled(cl) \/ InsertConnection(cl) \/ ReplyConnection(cl)
             \/ ClientDies(cl)
      PROVE  UNCHANGED <<callbacks, hasCallback, state, virtualScreenIds, distributor, nodeVars,
                         late, cleaning, cleanDone, vsyncListed, calls>>
  BY <1>3 DEF ConnectCalled, InsertConnection, ReplyConnection, ClientDies, connVars, screenVars
<1>4. ASSUME NEW cl \in Clients, NEW c \in Unused, ConstructConnection(cl, c) PROVE Taken'
  <2>1. /\ c \in Conns /\ state[c] = "unused" /\ state'[c] = "live"
        /\ \A d \in Conns \ {c} : state'[d] = state[d]
        /\ UNCHANGED <<callbacks, hasCallback, virtualScreenIds, distributor, nodeVars,
                       late, cleaning, cleanDone, vsyncListed, calls>>
    BY <1>1, <1>4 DEF ConstructConnection, Unused, screenVars
  <2> QED BY <2>1 DEF Taken, Listed, Started, Emptied, nodeVars
<1>5. ASSUME NEW c \in Conns, NEW k, SendCall(c, k) PROVE Taken'
  <2>1. /\ \A d \in Conns : calls[d] \subseteq calls'[d]
        /\ UNCHANGED <<callbacks, hasCallback, state, virtualScreenIds, distributor, nodeVars,
                         late, cleaning, cleanDone, vsyncListed>>
    BY <1>1, <1>5 DEF SendCall, screenVars
  <2> QED BY <2>1 DEF Taken, Listed, Started, Emptied, nodeVars
<1>6. ASSUME NEW c \in Conns, CallStep(c) PROVE Taken'
  <2>1. /\ calls[c] # {} /\ \A d \in Conns \ {c} : calls'[d] = calls[d]
        /\ UNCHANGED <<state, cleanDone, cleaning, late, nodes, overtaken>>
        /\ cacheCommandQueue' \subseteq cacheCommandQueue \cup {c}
    BY <1>6, CallFacts
  <2>2. state[c] = "live" /\ (~late[c] => ~Emptied(c))
    BY <2>1 DEF Stages, Emptied
  <2>3. /\ c \in callbacks' <=> hasCallback'[c]
        /\ Listed(c) => Listed(c)'
        /\ c \in distributor' => c \in distributor \/ Listed(c)'
        /\ \A d \in Conns \ {c} :
               /\ virtualScreenIds'[d] = virtualScreenIds[d]
               /\ hasCallback'[d] = hasCallback[d] /\ vsyncListed'[d] = vsyncListed[d]
               /\ (d \in distributor' <=> d \in distributor)
               /\ (d \in callbacks' <=> d \in callbacks)
    BY <1>6, CallHolds
  <2>4. \A d \in Conns \ {c} : Listed(d)' <=> Listed(d)
    BY <2>1, <2>3 DEF Listed
  <2> QED BY <2>1, <2>2, <2>3, <2>4 DEF Taken, Started, Emptied
<1>7. ASSUME NEW c \in Conns, OnRemoteDied(c) \/ Destroy(c) PROVE Taken'
  <2>1. /\ state[c] = "live" /\ state'[c] # "unused"
        /\ \/ cleaning'[c] = "posted" /\ ~late[c]
           \/ cleaning'[c] = cleaning[c] /\ late'[c] = late[c]
        /\ \A d \in Conns \ {c} : /\ state'[d] = state[d] /\ late'[d] = late[d]
                                  /\ cleaning'[d] = cleaning[d]
        /\ UNCHANGED <<callbacks, hasCallback, virtualScreenIds, distributor, nodeVars,
                       cleanDone, vsyncListed, calls>>
    BY <1>7, StartFacts DEF screenVars, nodeVars
  <2> QED BY <2>1 DEF Taken, Listed, Started, Emptied, nodeVars
<1>8. ASSUME NEW c \in Conns, TaskRegisterNode(c) PROVE Taken'
  <2>1. /\ tasks # <<>> /\ tasks' = Tail(tasks) /\ Head(tasks).conn = c
        /\ nodes' = nodes \cup {c} /\ UNCHANGED <<cacheCommandQueue, overtaken>>
        /\ UNCHANGED <<callbacks, hasCallback, state, virtualScreenIds, distributor,
                         late, cleaning, cleanDone, vsyncListed, calls>>
    BY <1>8 DEF TaskRegisterNode, connVars, screenVars
  <2>2. 1 \in DOMAIN tasks /\ tasks[1].conn = c
    BY <2>1, TaskDone
  <2>3. state[c] # "unused" /\ (~late[c] => ~Emptied(c))
    BY <2>2 DEF Posted
  <2> QED BY <2>1, <2>3 DEF Taken, Listed, Started, Emptied, nodeVars
<1>9. ASSUME NEW c \in Conns, TaskClean(c) PROVE Taken'
  <2>1. /\ cleaning[c] = "posted" /\ cleaning'[c] = "walk"
        /\ virtualScreenIds'[c] = {} /\ ~hasCallback'[c] /\ c \notin nodes'
        /\ nodes' \subseteq nodes /\ UNCHANGED cacheCommandQueue /\ overtaken \subseteq overtaken'
        /\ c \in cacheCommandQueue => c \in overtaken'
        /\ callbacks' = callbacks \ (IF hasCallback[c] THEN {c} ELSE {})
        /\ \A d \in Conns \ {c} : /\ virtualScreenIds'[d] = virtualScreenIds[d]
                                  /\ hasCallback'[d] = hasCallback[d]
                                  /\ cleaning'[d] = cleaning[d]
        /\ UNCHANGED <<state, distributor, late, cleanDone, vsyncListed, calls>>
    BY <1>1, <1>9, CleanIsPosted DEF TaskClean, RemoveScreenChangeCallback
  <2>2. state[c] # "unused"
    BY <2>1 DEF Stages, Started
  <2> QED BY <2>1, <2>2 DEF Taken, Listed, Started, Emptied, nodeVars
<1>10. ASSUME NEW c \in Conns, CleanVSyncConnections(c) PROVE Taken'
  <2>1. /\ cleaning[c] = "walk" /\ cleaning'[c] = "finish"
        /\ \A d \in Conns \ {c} : cleaning'[d] = cleaning[d]
        /\ distributor' = IF vsyncListed[c] THEN distributor \ {c} ELSE distributor
        /\ UNCHANGED <<callbacks, hasCallback, state, virtualScreenIds, nodeVars,
                       late, cleanDone, vsyncListed, calls>>
    BY <1>1, <1>10 DEF CleanVSyncConnections, screenVars
  <2>2. ~late[c] => calls[c] = {}
    BY <2>1 DEF Stages, Started
  <2>3. ~late[c] => c \notin distributor'
    BY <2>1, <2>2 DEF Taken, Listed
  <2> QED BY <2>1, <2>3 DEF Taken, Listed, Started, Emptied, nodeVars
<1>11. ASSUME NEW c \in Conns, CleanFinish(c) PROVE Taken'
  <2>1. /\ cleaning[c] = "finish" /\ cleaning'[c] \in {"no", "remove"}
        /\ state[c] # "unused" /\ state'[c] # "unused"
        /\ \A d \in Conns \ {c} : /\ cleaning'[d] = cleaning[d] /\ state'[d] = state[d]
                                  /\ cleanDone'[d] = cleanDone[d]
                                  /\ vsyncListed'[d] = vsyncListed[d]
        /\ UNCHANGED <<callbacks, hasCallback, virtualScreenIds, distributor, nodeVars, late, calls>>
    BY <1>1, <1>11 DEF CleanFinish, screenVars
  <2> QED BY <2>1 DEF Taken, Listed, Started, Emptied, nodeVars
<1>12. ASSUME NEW c \in Conns, RemoveConnection(c) PROVE Taken'
  <2>1. /\ cleaning[c] = "remove" /\ cleaning'[c] = "no"
        /\ \A d \in Conns \ {c} : cleaning'[d] = cleaning[d]
        /\ UNCHANGED <<callbacks, hasCallback, state, virtualScreenIds, distributor, nodeVars,
                         late, cleanDone, vsyncListed, calls>>
    BY <1>1, <1>12 DEF RemoveConnection, screenVars
  <2> QED BY <2>1 DEF Taken, Listed, Started, Emptied, nodeVars
<1>13. ASSUME ProcessCommand PROVE Taken'
  BY <1>13, ProcessFacts DEF Taken, Listed, Started, Emptied
<1> QED
  BY <1>2, <1>3, <1>4, <1>5, <1>6, <1>7, <1>8, <1>9, <1>10, <1>11, <1>12, <1>13
     DEF Next, ServiceStep, ClientStep, CreateConnection, CleanStep

LEMMA CallKindsStep == ASSUME TypeOK, Linked, Stages, Posted, CallKinds, Next PROVE CallKinds'
<1>1. /\ state \in [Conns -> {"unused", "live", "dying", "gone"}]
      /\ owner \in [Conns -> Clients \cup {NoConn}] /\ Owned
      /\ calls \in [Conns -> SUBSET CallType] /\ locked \in [Conns -> BOOLEAN]
  BY DEF TypeOK, ObjectsOK, FlagsOK, WorkOK, Linked
<1>2. ASSUME \A d \in Conns : calls'[d] # {} =>
                 /\ calls'[d] \subseteq calls[d] /\ locked'[d] = locked[d]
                 /\ owner'[d] = owner[d] /\ state'[d] # "unused"
      PROVE  CallKinds'
  BY <1>2 DEF CallKinds, Uses, OwnSurfaces
<1>3. ASSUME NEW cl \in Clients,
             \/ ConnectCalled(cl) \/ InsertConnection(cl) \/ ReplyConnection(cl)
             \/ ClientDies(cl)
      PROVE  UNCHANGED <<calls, locked, owner, state>>
  BY <1>3 DEF ConnectCalled, InsertConnection, ReplyConnection, ClientDies, connVars
<1>4. ASSUME NEW cl \in Clients, NEW c \in Unused, ConstructConnection(cl, c) PROVE CallKinds'
  <2>1. /\ c \in Conns /\ calls[c] = {}
        /\ \A d \in Conns \ {c} : owner'[d] = owner[d] /\ state'[d] = state[d]
        /\ UNCHANGED <<calls, locked>>
    BY <1>1, <1>4 DEF ConstructConnection, Unused, Stages
  <2> QED BY <1>2, <2>1 DEF CallKinds
<1>5. ASSUME NEW c \in Conns, NEW k \in Askable(c), SendCall(c, k) PROVE CallKinds'
  <2>1. /\ state[c] = "live" /\ calls'[c] = calls[c] \cup {k}
        /\ \A d \in Conns \ {c} : calls'[d] = calls[d]
        /\ UNCHANGED <<locked, owner, state>>
    BY <1>1, <1>5 DEF SendCall
  <2>2. owner[c] \in Clients
    BY <1>1, <2>1 DEF Owned
  <2>3. /\ k.op \notin {"assign", "list"} /\ (k.op = "create" => k.id \in Mirrored)
        /\ Uses(k) => k.id \in VirtualIds
        /\ k.op = "surface" => k.surface \in Surfaces
        /\ k.surface \in OwnSurfaces(c)
    BY <2>2, Asked
  <2> QED BY <2>1, <2>3 DEF CallKinds, Uses, OwnSurfaces
<1>6. ASSUME NEW c \in Conns, CallStep(c) PROVE CallKinds'
  <2>1. PICK k \in calls[c] :
            \/ CallCreateVirtualScreen(c, k) \/ CallCheckSurface(c, k)
            \/ CallAssignSurface(c, k)       \/ CallRemoveVirtualScreen(c, k)
            \/ CallSetCallback(c, k)         \/ CallAddVSync(c, k)
            \/ CallListVSync(c, k)           \/ CallCreateNode(c, k)
            \/ CallCommitTransaction(c, k)
    BY <1>6 DEF CallStep
  <2>2. UNCHANGED <<owner, state>>
    BY <1>6, CallFacts
  <2>3. CASE Return(c, k) /\ UNCHANGED locked
    <3>1. /\ calls'[c] = calls[c] \ {k} /\ \A d \in Conns \ {c} : calls'[d] = calls[d]
      BY <2>3, CallEnds
    <3>2. \A d \in Conns : calls'[d] \subseteq calls[d]
      BY <3>1
    <3>3. \A d \in Conns : calls[d] # {} => state[d] # "unused"
      BY DEF CallKinds
    <3> QED BY <1>2, <2>2, <2>3, <3>2, <3>3
  <2>4. CASE CallAddVSync(c, k)
    <3>1. k.op = "vsync" /\ Goes(c, k, "list") /\ UNCHANGED locked
      BY <2>4 DEF CallAddVSync, At
    <3>2. PICK n : /\ n.op = "list" /\ n.id = k.id /\ n.surface = k.surface
                   /\ calls'[c] = (calls[c] \ {k}) \cup {n}
      BY <3>1, CallGoes DEF Steps
    <3>3. \A d \in Conns \ {c} : calls'[d] = calls[d]
      BY <3>1, CallGoes DEF Steps
    <3> QED BY <2>2, <3>1, <3>2, <3>3 DEF CallKinds, Uses, OwnSurfaces
  <2>5. CASE CallCheckSurface(c, k) /\ ~UNCHANGED locked
    <3>1. /\ k.op = "surface" /\ Goes(c, k, "assign") /\ ~locked[c] /\ locked'[c]
          /\ \A d \in Conns \ {c} : locked'[d] = locked[d]
      BY <1>1, <2>5 DEF CallCheckSurface, At
    <3>2. PICK n : /\ n.op = "assign" /\ n.id = k.id /\ n.surface = k.surface
                   /\ calls'[c] = (calls[c] \ {k}) \cup {n}
      BY <3>1, CallGoes DEF Steps
    <3>3. \A d \in Conns \ {c} : calls'[d] = calls[d]
      BY <3>1, CallGoes DEF Steps
    <3>4. \A l \in calls[c] : l.op # "assign"
      BY <3>1 DEF CallKinds
    <3> QED BY <2>2, <3>1, <3>2, <3>3, <3>4 DEF CallKinds, Uses, OwnSurfaces
  <2>6. CASE CallAssignSurface(c, k)
    <3>1. /\ k.op = "assign" /\ Return(c, k)
          /\ \A d \in Conns \ {c} : locked'[d] = locked[d]
      BY <1>1, <2>6 DEF CallAssignSurface, At
    <3>2. /\ calls'[c] = calls[c] \ {k} /\ \A d \in Conns \ {c} : calls'[d] = calls[d]
      BY <3>1, CallEnds
    <3>3. \A l \in calls'[c] : l.op # "assign"
      BY <3>1, <3>2 DEF CallKinds
    <3> QED BY <2>2, <3>1, <3>2, <3>3 DEF CallKinds, Uses, OwnSurfaces
  <2>7. \/ Return(c, k) /\ UNCHANGED locked
        \/ CallAddVSync(c, k) \/ (CallCheckSurface(c, k) /\ ~UNCHANGED locked)
        \/ CallAssignSurface(c, k)
    <3>1. CASE CallCheckSurface(c, k) /\ UNCHANGED locked
      <4>1. ~locked[c] /\ (locked' = [locked EXCEPT ![c] = TRUE] => locked'[c])
        BY <1>1, <3>1 DEF CallCheckSurface
      <4> QED BY <3>1, <4>1 DEF CallCheckSurface
    <3> QED BY <2>1, <3>1 DEF CallCreateVirtualScreen, CallRemoveVirtualScreen,
       CallSetCallback, CallListVSync, CallCreateNode,
     CallCommitTransaction
  <2> QED BY <2>3, <2>4, <2>5, <2>6, <2>7
<1>7. ASSUME NEW c \in Conns, OnRemoteDied(c) \/ Destroy(c) PROVE CallKinds'
  <2>1. /\ UNCHANGED <<calls, locked, owner>> /\ state'[c] # "unused"
        /\ \A d \in Conns \ {c} : state'[d] = state[d]
    BY <1>7, StartFacts
  <2> QED BY <1>2, <2>1 DEF CallKinds
<1>8. ASSUME NEW c \in Conns,
             \/ TaskRegisterNode(c) \/ TaskClean(c) \/ CleanVSyncConnections(c)
             \/ CleanFinish(c) \/ RemoveConnection(c)
      PROVE  /\ UNCHANGED <<calls, locked, owner>>
             /\ \A d \in Conns : state[d] # "unused" => state'[d] # "unused"
  BY <1>1, <1>8 DEF TaskRegisterNode, TaskClean, CleanVSyncConnections, CleanFinish,
     RemoveConnection, connVars
<1>9. ASSUME ProcessCommand PROVE UNCHANGED <<calls, locked, owner, state>>
  BY <1>9, ProcessFacts
<1> QED
  BY <1>2, <1>3, <1>4, <1>5, <1>6, <1>7, <1>8, <1>9
     DEF Next, ServiceStep, ClientStep, CreateConnection, CleanStep, CallKinds

\* Calls and virtual screens of a client are of one connection: a client uses the
\* connection it has last got, and a connection that was replaced or whose call for it
\* failed has nothing.
Used(c) == calls[c] # {} \/ virtualScreenIds[c] # {}
OneUser ==
    /\ \A c \in Conns : Used(c) /\ alive[owner[c]] => proxy[owner[c]] = c
    /\ \A c, d \in Conns : Used(c) /\ Used(d) /\ owner[c] = owner[d] => c = d

LEMMA UsedIsOwned ==
    ASSUME Linked, Stages, Taken, NEW c \in Conns, Used(c)
    PROVE  state[c] # "unused" /\ owner[c] \in Clients
BY DEF Linked, Owned, Stages, Taken, Used

LEMMA UserStep == ASSUME TypeOK, Linked, Stages, Taken, OneUser, Next PROVE OneUser'
<1>1. /\ alive \in [Clients -> BOOLEAN] /\ proxy \in [Clients -> Conns \cup {NoConn}]
      /\ owner \in [Conns -> Clients \cup {NoConn}]
      /\ calls \in [Conns -> SUBSET CallType] /\ NoConn \notin Conns
      /\ virtualScreenIds \in [Conns -> SUBSET (VirtualIds \cup {INVALID_SCREEN_ID})]
  BY DEF TypeOK, ClientsOK, ObjectsOK, WorkOK
<1>2. \A c \in Conns : Used(c) => owner[c] \in Clients
  BY UsedIsOwned
<1>3. ASSUME \A c \in Conns : Used(c)' => Used(c) /\ owner'[c] = owner[c],
             UNCHANGED <<alive, proxy>>
      PROVE  OneUser'
  BY <1>3 DEF OneUser
<1>4. ASSUME NEW cl \in Clients, ConnectCalled(cl) \/ InsertConnection(cl) PROVE OneUser'
  <2>1. UNCHANGED <<alive, proxy, calls, owner, virtualScreenIds>>
    BY <1>4 DEF ConnectCalled, InsertConnection, connVars
  <2> QED BY <1>3, <2>1 DEF Used
<1>5. ASSUME NEW cl \in Clients, NEW c \in Unused, ConstructConnection(cl, c) PROVE OneUser'
  <2>1. /\ c \in Conns /\ state[c] = "unused" /\ UNCHANGED <<alive, proxy, calls, virtualScreenIds>>
        /\ \A d \in Conns \ {c} : owner'[d] = owner[d]
    BY <1>1, <1>5 DEF ConstructConnection, Unused
  <2>2. ~Used(c)
    BY <2>1, UsedIsOwned
  <2> QED BY <1>3, <2>1, <2>2 DEF Used
<1>6. ASSUME NEW cl \in Clients, ReplyConnection(cl) PROVE OneUser'
  <2>1. /\ creating[cl].at = "inserted" /\ UNCHANGED <<alive, calls, owner, virtualScreenIds>>
        /\ \A d \in Clients \ {cl} : proxy'[d] = proxy[d]
    BY <1>1, <1>6 DEF ReplyConnection, connVars
  <2>2. proxy[cl] = NoConn
    BY <2>1 DEF Linked
  <2>3. \A c \in Conns : Used(c)' <=> Used(c)
    BY <2>1 DEF Used
  <2>4. \A c \in Conns : Used(c) /\ alive[owner[c]] => owner[c] # cl
    BY <1>1, <2>2 DEF OneUser
  <2> QED BY <1>2, <2>1, <2>3, <2>4 DEF OneUser
<1>7. ASSUME NEW cl \in Clients, ClientDies(cl) PROVE OneUser'
  <2>1. /\ ~alive'[cl] /\ UNCHANGED <<calls, owner, virtualScreenIds>>
        /\ \A d \in Clients \ {cl} : proxy'[d] = proxy[d] /\ alive'[d] = alive[d]
    BY <1>1, <1>7 DEF ClientDies, connVars
  <2>2. \A c \in Conns : Used(c)' <=> Used(c)
    BY <2>1 DEF Used
  <2> QED BY <1>2, <2>1, <2>2 DEF OneUser
<1>8. ASSUME NEW c \in Conns, NEW k, SendCall(c, k) PROVE OneUser'
  <2>1. /\ alive[owner[c]] /\ proxy[owner[c]] = c
        /\ UNCHANGED <<alive, proxy, owner, virtualScreenIds>>
        /\ \A d \in Conns \ {c} : calls'[d] = calls[d]
    BY <1>1, <1>8 DEF SendCall
  <2>2. \A d \in Conns \ {c} : Used(d)' <=> Used(d)
    BY <2>1 DEF Used
  <2> QED BY <2>1, <2>2 DEF OneUser
<1>9. ASSUME NEW c \in Conns, CallStep(c) PROVE OneUser'
  <2>1. /\ calls[c] # {} /\ UNCHANGED <<alive, proxy, owner>>
        /\ \A d \in Conns \ {c} : calls'[d] = calls[d] /\ virtualScreenIds'[d] = virtualScreenIds[d]
    BY <1>9, CallFacts, CallHolds DEF clientVars
  <2> QED BY <1>3, <2>1 DEF Used
<1>10. ASSUME NEW c \in Conns, TaskClean(c) PROVE OneUser'
  <2>1. /\ virtualScreenIds'[c] = {} /\ UNCHANGED <<alive, proxy, owner, calls>>
        /\ \A d \in Conns \ {c} : virtualScreenIds'[d] = virtualScreenIds[d]
    BY <1>1, <1>10 DEF TaskClean, clientVars
  <2> QED BY <1>3, <2>1 DEF Used
<1>11. ASSUME NEW c \in Conns,
              \/ OnRemoteDied(c) \/ Destroy(c) \/ TaskRegisterNode(c)
              \/ CleanVSyncConnections(c) \/ CleanFinish(c) \/ RemoveConnection(c)
       PROVE  UNCHANGED <<alive, proxy, calls, owner, virtualScreenIds>>
  BY <1>11 DEF OnRemoteDied, Destroy, TaskRegisterNode, CleanVSyncConnections, CleanFinish,
     RemoveConnection, connVars, clientVars
<1>12. CASE UNCHANGED <<alive, proxy, calls, owner, virtualScreenIds>>
  BY <1>3, <1>12 DEF Used
<1>13. ASSUME ProcessCommand PROVE UNCHANGED <<alive, proxy, calls, owner, virtualScreenIds>>
  BY <1>13, ProcessFacts
<1> QED
  BY <1>4, <1>5, <1>6, <1>7, <1>8, <1>9, <1>10, <1>11, <1>12, <1>13
     DEF Next, ServiceStep, ClientStep, CreateConnection, CleanStep

-----------------------------------------------------------------------------
(* Who has which virtual screen, while no call has overlapped a clean-up.  *)

HeldIds ==
    /\ \A c \in Conns : OwnIds(c) \subseteq DOMAIN screens \cap VirtualIds
    /\ \A c, d \in Conns : c # d => OwnIds(c) \cap OwnIds(d) = {}
    /\ \A id \in DOMAIN screens : Virtual(id) =>
            \E c \in Conns : id \in OwnIds(c) /\ state[c] \in {"live", "dying"}
EachOnce == \A i, j \in DOMAIN freeIds : i # j => freeIds[i] # freeIds[j]
Distinct ==
    \A i, j \in DOMAIN screens :
        Virtual(i) /\ Virtual(j) /\ i # j /\ screens[i].surface # NoSurface
            => screens[i].surface # screens[j].surface

\* The ids in use were given out before, and a screen's surface is of its client.
Numbered ==
    /\ \A id \in DOMAIN screens : Virtual(id) => id < virtualNum
    /\ \A c \in Conns : \A id \in OwnIds(c) : screens[id].surface \in OwnSurfaces(c)

\* A call names a screen of its connection that no other call names, and the surface
\* that was found to be free stays so until it is assigned.
Named ==
    \A c \in Conns : \A k \in calls[c] :
        /\ Uses(k) => k.id \in OwnIds(c)
        /\ Uses(k) => \A l \in calls[c] : Uses(l) /\ l.id = k.id => l = k
        /\ k.op = "assign" => ~SurfaceUsed(k.surface, DOMAIN screens \ {k.id})

Ownership ==
    /\ ~aborted /\ HeldIds /\ EachOnce
    /\ Freed = (0 .. virtualNum - 1) \ DOMAIN screens
    /\ Distinct /\ Numbered /\ Named

LEMMA OwnershipSays == ASSUME NoneLate => Ownership PROVE OwnScreens
BY DEF Ownership, HeldIds, EachOnce, Freed, Distinct, OwnScreens

\* A step that leaves the screens and the connections' ids alone; calls may return.
LEMMA OwnAside ==
    ASSUME Ownership, UNCHANGED <<screens, freeIds, virtualNum, aborted>>,
           \A c \in Conns :
               /\ OwnIds(c)' = OwnIds(c) /\ calls'[c] \subseteq calls[c]
               /\ OwnIds(c) # {} => /\ owner'[c] = owner[c]
                                    /\ state[c] \in {"live", "dying"} =>
                                           state'[c] \in {"live", "dying"}
    PROVE  Ownership'
<1>1. HeldIds' /\ Distinct' /\ EachOnce' /\ Freed' = Freed
  BY DEF Ownership, HeldIds, Distinct, EachOnce, Freed, Virtual
<1>2. Numbered'
  BY DEF Ownership, Numbered, OwnSurfaces, Virtual
<1>3. Named'
  BY DEF Ownership, Named, Uses, SurfaceUsed, Virtual
<1> QED BY <1>1, <1>2, <1>3 DEF Ownership

\* Surfaces of calls and screens of different connections are different.
LEMMA OtherSurface ==
    ASSUME Linked, Stages, Taken, OneUser, NEW c \in Conns, NEW d \in Conns, c # d,
           Used(c), Used(d), NEW s \in OwnSurfaces(c), NEW t \in OwnSurfaces(d), s = t
    PROVE  s = NoSurface
<1>1. owner[c] \in Clients /\ owner[d] \in Clients /\ owner[c] # owner[d]
  BY UsedIsOwned DEF OneUser
<1> QED BY <1>1 DEF OwnSurfaces

\* Screens of one connection are removed.
LEMMA OwnRemove ==
    ASSUME TypeOK, Ownership, NEW c \in Conns, NEW gone \in SUBSET OwnIds(c),
           screens' = WithoutAll(gone), OwnIds(c)' = OwnIds(c) \ gone,
           UNCHANGED <<virtualNum, aborted, state, owner>>,
           \A d \in Conns : /\ d # c => OwnIds(d)' = OwnIds(d)
                            /\ calls'[d] \subseteq calls[d],
           \A k \in calls'[c] : Uses(k) => k.id \notin gone,
           Freed' = Freed \cup gone, EachOnce'
    PROVE  Ownership'
<1>1. /\ DOMAIN screens' = DOMAIN screens \ gone
      /\ \A j \in DOMAIN screens' : /\ screens'[j].surface = screens[j].surface
                                    /\ screens'[j].virtual = screens[j].virtual
  <2>1. DOMAIN screens' = DOMAIN screens \ gone
    BY DEF WithoutAll
  <2>2. ASSUME NEW j \in DOMAIN screens'
        PROVE  /\ screens'[j].surface = screens[j].surface
               /\ screens'[j].virtual = screens[j].virtual
    <3>1. screens[j] \in Kinds
      BY <2>1 DEF TypeOK, ScreenTypeOK, Kinds
    <3> DEFINE n == [screens[j] EXCEPT !.mirror = INVALID_SCREEN_ID]
    <3>2. n.surface = screens[j].surface /\ n.virtual = screens[j].virtual
      BY <3>1 DEF Kinds
    <3>3. screens'[j] = screens[j] \/ screens'[j] = n
      BY <2>1 DEF WithoutAll
    <3> QED BY <3>2, <3>3
  <2> QED BY <2>1, <2>2
<1>2. /\ OwnIds(c) \subseteq DOMAIN screens \cap VirtualIds
      /\ \A d \in Conns \ {c} : OwnIds(d) \cap gone = {}
      /\ \A d \in Conns : OwnIds(d)' \subseteq OwnIds(d) \ gone
  BY DEF Ownership, HeldIds
<1>3. HeldIds'
  <2>1. \A d \in Conns : OwnIds(d)' \subseteq DOMAIN screens' \cap VirtualIds
    BY <1>1, <1>2 DEF Ownership, HeldIds
  <2>2. \A d, e \in Conns : d # e => OwnIds(d)' \cap OwnIds(e)' = {}
    BY <1>2 DEF Ownership, HeldIds
  <2>3. \A id \in DOMAIN screens' : Virtual(id)' =>
            \E d \in Conns : id \in OwnIds(d)' /\ state'[d] \in {"live", "dying"}
    BY <1>1 DEF Ownership, HeldIds, Virtual
  <2> QED BY <2>1, <2>2, <2>3 DEF HeldIds, Virtual
<1>4. Distinct' /\ Numbered'
  <2>1. Distinct'
    BY <1>1 DEF Ownership, Distinct, Virtual
  <2>2. Numbered'
    <3>1. \A id \in DOMAIN screens' : Virtual(id)' => id < virtualNum'
      BY <1>1 DEF Ownership, Numbered, Virtual
    <3>2. ASSUME NEW d \in Conns, NEW id \in OwnIds(d)'
          PROVE  screens'[id].surface \in OwnSurfaces(d)'
      <4>1. id \in OwnIds(d) /\ id \in DOMAIN screens' /\ OwnSurfaces(d)' = OwnSurfaces(d)
        BY <1>1, <1>2 DEF Ownership, HeldIds, OwnSurfaces
      <4> QED BY <1>1, <4>1 DEF Ownership, Numbered
    <3> QED BY <3>1, <3>2 DEF Numbered, Virtual
  <2> QED BY <2>1, <2>2
<1>5. Named'
  <2> SUFFICES ASSUME NEW d \in Conns, NEW k \in calls'[d]
               PROVE  /\ Uses(k) => k.id \in OwnIds(d)'
                      /\ Uses(k) => \A l \in calls'[d] : Uses(l) /\ l.id = k.id => l = k
                      /\ k.op = "assign" => ~SurfaceUsed(k.surface, DOMAIN screens \ {k.id})'
    BY DEF Named, Uses
  <2>1. k \in calls[d]
    OBVIOUS
  <2>2. Uses(k) => k.id \in OwnIds(d)'
    <3>1. Uses(k) => k.id \in OwnIds(d)
      BY <2>1 DEF Ownership, Named
    <3>2. CASE d = c
      BY <3>1, <3>2
    <3>3. CASE d # c
      BY <3>1, <3>3
    <3> QED BY <3>2, <3>3
  <2>3. Uses(k) => \A l \in calls'[d] : Uses(l) /\ l.id = k.id => l = k
    BY <2>1 DEF Ownership, Named
  <2>4. k.op = "assign" => ~SurfaceUsed(k.surface, DOMAIN screens \ {k.id})'
    BY <1>1, <2>1 DEF Ownership, Named, SurfaceUsed, Virtual
  <2> QED BY <2>2, <2>3, <2>4
<1>6. Freed' = (0 .. virtualNum' - 1) \ DOMAIN screens'
  <2>1. \A id \in gone : id \in DOMAIN screens /\ id \in Nat /\ id < virtualNum
    <3>1. \A id \in DOMAIN screens : Virtual(id)
      BY DEF TypeOK, VirtualOK
    <3> QED BY <1>2, <3>1 DEF Ownership, Numbered, VirtualIds
  <2>2. virtualNum \in Nat
    BY DEF TypeOK, ScreenTypeOK
  <2> QED BY <1>1, <2>1, <2>2 DEF Ownership
<1> QED BY <1>3, <1>4, <1>5, <1>6 DEF Ownership

\* What the queue of free ids does when an id is taken or given back.
LEMMA FreeTaken ==
    ASSUME TypeOK, EachOnce, freeIds # <<>>, freeIds' = Tail(freeIds)
    PROVE  EachOnce' /\ Head(freeIds) \in Freed /\ Freed' = Freed \ {Head(freeIds)}
<1>1. freeIds \in Seq(VirtualIds)
  BY DEF TypeOK, VirtualOK
<1>2. /\ Len(freeIds) \in Nat /\ Len(freeIds) > 0 /\ DOMAIN freeIds = 1 .. Len(freeIds)
      /\ DOMAIN freeIds' = 1 .. Len(freeIds) - 1 /\ Head(freeIds) = freeIds[1]
      /\ \A i \in 1 .. Len(freeIds) - 1 : freeIds'[i] = freeIds[i + 1]
  BY <1>1, HeadTailProperties, LenProperties, EmptySeq
<1>3. EachOnce'
  <2> SUFFICES ASSUME NEW i \in 1 .. Len(freeIds) - 1, NEW j \in 1 .. Len(freeIds) - 1, i # j
               PROVE  freeIds'[i] # freeIds'[j]
    BY <1>2 DEF EachOnce
  <2>1. /\ i + 1 \in DOMAIN freeIds /\ j + 1 \in DOMAIN freeIds /\ i + 1 # j + 1
        /\ freeIds'[i] = freeIds[i + 1] /\ freeIds'[j] = freeIds[j + 1]
    BY <1>2
  <2> QED BY <2>1 DEF EachOnce
<1>4. ASSUME NEW x \in Freed' PROVE x \in Freed /\ x # Head(freeIds)
  <2>1. PICK i \in 1 .. Len(freeIds) - 1 : x = freeIds'[i]
    BY <1>2 DEF Freed
  <2>2. i + 1 \in DOMAIN freeIds /\ 1 \in DOMAIN freeIds /\ i + 1 # 1 /\ x = freeIds[i + 1]
    BY <1>2, <2>1
  <2> QED BY <1>2, <2>2 DEF EachOnce, Freed
<1>5. ASSUME NEW x \in Freed, x # Head(freeIds) PROVE x \in Freed'
  <2>1. PICK i \in DOMAIN freeIds : x = freeIds[i]
    BY DEF Freed
  <2>2. i - 1 \in 1 .. Len(freeIds) - 1 /\ (i - 1) + 1 = i
    BY <1>2, <1>5, <2>1
  <2>3. x = freeIds'[i - 1] /\ i - 1 \in DOMAIN freeIds'
    BY <1>2, <2>1, <2>2
  <2> QED BY <2>3 DEF Freed
<1>6. Head(freeIds) \in Freed
  BY <1>2 DEF Freed
<1> QED BY <1>3, <1>4, <1>5, <1>6

LEMMA FreeGiven ==
    ASSUME TypeOK, EachOnce, NEW order \in Seq(VirtualIds), freeIds' = freeIds \o order,
           \A i, j \in DOMAIN order : i # j => order[i] # order[j],
           \A i \in DOMAIN order : order[i] \notin Freed
    PROVE  EachOnce' /\ Freed' = Freed \cup {order[i] : i \in DOMAIN order}
<1> DEFINE n == Len(freeIds)
           m == Len(order)
<1>1. freeIds \in Seq(VirtualIds)
  BY DEF TypeOK, VirtualOK
<1>2. /\ n \in Nat /\ m \in Nat /\ DOMAIN freeIds = 1 .. n /\ DOMAIN order = 1 .. m
      /\ DOMAIN freeIds' = 1 .. n + m
      /\ \A i \in 1 .. n + m : freeIds'[i] = IF i <= n THEN freeIds[i] ELSE order[i - n]
  BY <1>1, ConcatProperties, LenProperties
<1> HIDE DEF n, m
<1>3. ASSUME NEW i \in 1 .. n + m
      PROVE  \/ i \in DOMAIN freeIds /\ freeIds'[i] = freeIds[i]
             \/ /\ i - n \in DOMAIN order /\ freeIds'[i] = order[i - n] /\ i \notin DOMAIN freeIds
  BY <1>2
<1>4. EachOnce'
  <2> SUFFICES ASSUME NEW i \in 1 .. n + m, NEW j \in 1 .. n + m, i # j
               PROVE  freeIds'[i] # freeIds'[j]
    BY <1>2 DEF EachOnce
  <2>1. i - n # j - n
    BY <1>2
  <2>2. \A k \in DOMAIN freeIds : freeIds[k] \in Freed
    BY DEF Freed
  <2> QED BY <1>3, <2>1, <2>2 DEF EachOnce
<1>5. Freed' \subseteq Freed \cup {order[i] : i \in DOMAIN order}
  BY <1>2, <1>3 DEF Freed
<1>6. ASSUME NEW i \in DOMAIN freeIds PROVE freeIds[i] \in Freed'
  <2>1. i \in DOMAIN freeIds' /\ freeIds'[i] = freeIds[i]
    BY <1>2
  <2> QED BY <2>1 DEF Freed
<1>7. ASSUME NEW i \in DOMAIN order PROVE order[i] \in Freed'
  <2>1. n + i \in DOMAIN freeIds' /\ freeIds'[n + i] = order[i]
    BY <1>2
  <2> QED BY <2>1 DEF Freed
<1>8. ASSUME NEW x \in Freed PROVE x \in Freed'
  <2>1. PICK i \in DOMAIN freeIds : x = freeIds[i]
    BY DEF Freed
  <2> QED BY <1>6, <2>1
<1> QED BY <1>4, <1>5, <1>7, <1>8

LEMMA FreeAppended ==
    ASSUME TypeOK, EachOnce, NEW id \in VirtualIds, id \notin Freed,
           freeIds' = Append(freeIds, id)
    PROVE  EachOnce' /\ Freed' = Freed \cup {id}
<1> DEFINE o == <<id>>
<1>1. freeIds \in Seq(VirtualIds) /\ o \in Seq(VirtualIds)
  BY DEF TypeOK, VirtualOK
<1>2. freeIds' = freeIds \o o
  BY <1>1, AppendIsConcat
<1>3. DOMAIN o = {1} /\ o[1] = id
  OBVIOUS
<1> HIDE DEF o
<1>4. \A i, j \in DOMAIN o : i # j => o[i] # o[j]
  BY <1>3
<1>5. \A i \in DOMAIN o : o[i] \notin Freed
  BY <1>3
<1>6. EachOnce' /\ Freed' = Freed \cup {o[i] : i \in DOMAIN o}
  BY <1>1, <1>2, <1>4, <1>5, FreeGiven
<1> QED BY <1>3, <1>6

\* A virtual screen is created, with the oldest free id or a new one.
LEMMA OwnCreate ==
    ASSUME TypeOK, Linked, Stages, Taken, OneUser, CallKinds, Ownership,
           NEW c \in Conns, NEW k \in calls[c], CallCreateVirtualScreen(c, k),
           ~SurfaceUsed(k.surface, DOMAIN screens)
    PROVE  Ownership'
<1> DEFINE id == GeneratedId
<1>1. /\ k.op = "create" /\ ~locked[c] /\ CanGenerate /\ CreatedId(k.surface) = id
      /\ screens' = With(id, Screen(k.surface, k.id, TRUE))
      /\ IF freeIds # <<>> THEN freeIds' = Tail(freeIds) /\ UNCHANGED virtualNum
                           ELSE virtualNum' = virtualNum + 1 /\ UNCHANGED freeIds
      /\ UNCHANGED <<state, owner, aborted>> /\ Return(c, k)
  BY DEF CallCreateVirtualScreen, At, CreateVirtualScreen, CreatedId
<1>2. /\ id \in VirtualIds /\ id \in Nat /\ virtualNum \in Nat
      /\ id # INVALID_SCREEN_ID
  <2>1. VirtualOK /\ virtualNum \in 0 .. MaxVirtual
    BY DEF TypeOK, ScreenTypeOK
  <2>2. id \in VirtualIds
    BY <1>1, <2>1, GeneratedIdType
  <2> QED BY <2>1, <2>2, ScreenAssumption DEF VirtualIds
<1>3. state[c] = "live" /\ Used(c)
  BY DEF Stages, Used
<1>4. /\ calls'[c] = calls[c] \ {k} /\ \A d \in Conns \ {c} : calls'[d] = calls[d]
  BY <1>1, CallEnds
<1>5. /\ OwnIds(c)' = OwnIds(c) \cup {id}
      /\ \A d \in Conns \ {c} : OwnIds(d)' = OwnIds(d)
  <2>1. virtualScreenIds' = [virtualScreenIds EXCEPT ![c] = @ \cup {id}]
    BY <1>1 DEF CallCreateVirtualScreen
  <2> HIDE DEF id
  <2> QED BY <1>2, <2>1 DEF TypeOK, ObjectsOK, OwnIds
<1>6. /\ id \notin DOMAIN screens /\ EachOnce'
      /\ id < virtualNum' /\ virtualNum <= virtualNum' /\ virtualNum' \in Nat
      /\ Freed' = (0 .. virtualNum' - 1) \ (DOMAIN screens \cup {id})
  <2>1. CASE freeIds # <<>>
    <3>1. /\ id = Head(freeIds) /\ EachOnce' /\ id \in Freed /\ Freed' = Freed \ {id}
          /\ virtualNum' = virtualNum
      BY <1>1, <2>1, FreeTaken DEF GeneratedId, Ownership
    <3> HIDE DEF id
    <3> QED BY <1>2, <3>1 DEF Ownership
  <2>2. CASE freeIds = <<>>
    <3>1. id = virtualNum /\ virtualNum' = virtualNum + 1 /\ EachOnce' /\ Freed' = Freed
      BY <1>1, <2>2 DEF GeneratedId, Ownership, EachOnce, Freed
    <3> HIDE DEF id
    <3>2. id \notin DOMAIN screens
      BY <1>2, <3>1 DEF Ownership, Numbered, TypeOK, VirtualOK
    <3> QED BY <1>2, <3>1, <3>2 DEF Ownership
  <2> QED BY <2>1, <2>2
<1> HIDE DEF id
<1>7. /\ DOMAIN screens' = DOMAIN screens \cup {id}
      /\ screens'[id].surface = k.surface /\ screens'[id].virtual
      /\ \A j \in DOMAIN screens : screens'[j] = screens[j]
  BY <1>1, <1>6 DEF With, Screen
<1>8. HeldIds'
  <2>1. \A d \in Conns : OwnIds(d)' \subseteq DOMAIN screens' \cap VirtualIds
    BY <1>2, <1>5, <1>7 DEF Ownership, HeldIds
  <2>2. \A d \in Conns : id \notin OwnIds(d)
    BY <1>6 DEF Ownership, HeldIds
  <2>3. \A d, e \in Conns : d # e => OwnIds(d)' \cap OwnIds(e)' = {}
    BY <1>5, <2>2 DEF Ownership, HeldIds
  <2>4. ASSUME NEW j \in DOMAIN screens', Virtual(j)'
        PROVE  \E d \in Conns : j \in OwnIds(d)' /\ state'[d] \in {"live", "dying"}
    <3>1. CASE j = id
      BY <1>1, <1>3, <1>5, <3>1
    <3>2. CASE j \in DOMAIN screens
      <4>1. PICK d \in Conns : j \in OwnIds(d) /\ state[d] \in {"live", "dying"}
        BY <1>7, <2>4, <3>2 DEF Ownership, HeldIds, Virtual
      <4>2. j \in OwnIds(d)'
        BY <1>5, <4>1
      <4> QED BY <1>1, <4>1, <4>2
    <3> QED BY <1>7, <3>1, <3>2
  <2> QED BY <2>1, <2>3, <2>4 DEF HeldIds, Virtual
<1>9. \A j \in DOMAIN screens : Virtual(j) /\ screens[j].surface = k.surface => k.surface = NoSurface
  BY DEF SurfaceUsed
<1>10. Distinct'
  BY <1>7, <1>9 DEF Ownership, Distinct, Virtual
<1>11. k.surface \in OwnSurfaces(c)
  BY DEF CallKinds
<1>12. Numbered'
  <2>1. \A j \in DOMAIN screens' : j < virtualNum'
    <3>1. \A j \in DOMAIN screens : j < virtualNum /\ j \in Nat
      BY DEF Ownership, Numbered, TypeOK, VirtualOK, VirtualIds
    <3> QED BY <1>2, <1>6, <1>7, <3>1
  <2>2. ASSUME NEW d \in Conns, NEW j \in OwnIds(d)'
        PROVE  screens'[j].surface \in OwnSurfaces(d)'
    <3>1. OwnSurfaces(d)' = OwnSurfaces(d)
      BY <1>1 DEF OwnSurfaces
    <3>2. CASE j \in OwnIds(d)
      BY <1>7, <3>1, <3>2 DEF Ownership, Numbered, HeldIds
    <3>3. CASE j = id /\ d = c
      BY <1>7, <1>11, <3>1, <3>3
    <3> QED BY <1>5, <3>2, <3>3
  <2> QED BY <2>1, <2>2 DEF Numbered, Virtual
<1>13. Named'
  <2> SUFFICES ASSUME NEW d \in Conns, NEW l \in calls'[d]
               PROVE  /\ Uses(l) => l.id \in OwnIds(d)'
                      /\ Uses(l) => \A m \in calls'[d] : Uses(m) /\ m.id = l.id => m = l
                      /\ l.op = "assign" => ~SurfaceUsed(l.surface, DOMAIN screens \ {l.id})'
    BY DEF Named, Uses
  <2>1. l \in calls[d] /\ calls'[d] \subseteq calls[d] /\ OwnIds(d) \subseteq OwnIds(d)'
    BY <1>4, <1>5
  <2>2. ASSUME l.op = "assign" PROVE k.surface = l.surface => l.surface = NoSurface
    <3>1. d # c /\ Used(d) /\ l.surface \in OwnSurfaces(d)
      BY <1>1, <2>1, <2>2 DEF CallKinds, Used
    <3> QED BY <1>3, <1>11, <3>1, OtherSurface
  <2>3. l.op = "assign" => ~SurfaceUsed(l.surface, DOMAIN screens \ {l.id})'
    <3>1. l.op = "assign" => ~SurfaceUsed(l.surface, DOMAIN screens \ {l.id})
      BY <2>1 DEF Ownership, Named
    <3> QED BY <1>7, <2>2, <3>1 DEF SurfaceUsed, Virtual
  <2> QED BY <2>1, <2>3 DEF Ownership, Named
<1> QED BY <1>1, <1>6, <1>7, <1>8, <1>10, <1>12, <1>13 DEF Ownership

\* SetVirtualScreenSurface has found the surface to be free.
LEMMA OwnCheck ==
    ASSUME TypeOK, Ownership, NEW c \in Conns, NEW k \in calls[c], k.op = "surface",
           Goes(c, k, "assign"), ~SurfaceUsed(k.surface, DOMAIN screens \ {k.id}),
           UNCHANGED <<screens, freeIds, virtualNum, aborted, virtualScreenIds, state, owner>>
    PROVE  Ownership'
<1>1. PICK n : /\ n.op = "assign" /\ n.id = k.id /\ n.surface = k.surface
               /\ calls'[c] = (calls[c] \ {k}) \cup {n}
  BY CallGoes DEF Steps
<1>2. \A d \in Conns \ {c} : calls'[d] = calls[d]
  BY CallGoes DEF Steps
<1>3. \A d \in Conns : OwnIds(d)' = OwnIds(d)
  BY DEF OwnIds
<1>4. HeldIds' /\ Distinct' /\ EachOnce' /\ Freed' = Freed /\ Numbered'
  BY <1>3 DEF Ownership, HeldIds, Distinct, EachOnce, Freed, Numbered, OwnSurfaces,
     Virtual
<1>5. Uses(k) /\ Uses(n)
  BY <1>1 DEF Uses
<1>6. Named'
  <2> SUFFICES ASSUME NEW d \in Conns, NEW l \in calls'[d]
               PROVE  /\ Uses(l) => l.id \in OwnIds(d)
                      /\ Uses(l) => \A m \in calls'[d] : Uses(m) /\ m.id = l.id => m = l
                      /\ l.op = "assign" => ~SurfaceUsed(l.surface, DOMAIN screens \ {l.id})
    BY <1>3 DEF Named, Uses, SurfaceUsed, Virtual
  <2>1. CASE d # c
    BY <1>2, <2>1 DEF Ownership, Named
  <2>2. CASE d = c
    <3>1. \A m \in calls[c] \ {k} : Uses(m) => m.id # k.id
      BY <1>5 DEF Ownership, Named
    <3>2. k.id \in OwnIds(c)
      BY <1>5 DEF Ownership, Named
    <3> QED BY <1>1, <2>2, <3>1, <3>2 DEF Ownership, Named
  <2> QED BY <2>1, <2>2
<1> QED BY <1>4, <1>6 DEF Ownership

LEMMA OwnAssign ==
    ASSUME TypeOK, Linked, Stages, Taken, OneUser, CallKinds, Ownership,
           NEW c \in Conns, NEW k \in calls[c], CallAssignSurface(c, k)
    PROVE  Ownership'
<1>1. k.op = "assign" /\ Return(c, k) /\ Uses(k)
  BY DEF CallAssignSurface, At, Uses
<1>2. k.id \in OwnIds(c) /\ k.id \in DOMAIN screens /\ k.id \in VirtualIds
  BY <1>1 DEF Ownership, Named, HeldIds
<1>3. /\ screens' = [screens EXCEPT ![k.id].surface = k.surface]
      /\ UNCHANGED <<freeIds, virtualNum, aborted, virtualScreenIds, state, owner>>
  BY <1>2 DEF CallAssignSurface, AssignSurface
<1>4. /\ DOMAIN screens' = DOMAIN screens /\ screens'[k.id].surface = k.surface
      /\ screens'[k.id].virtual = screens[k.id].virtual
      /\ \A j \in DOMAIN screens \ {k.id} : screens'[j] = screens[j]
  <2>1. screens[k.id] \in Kinds
    BY <1>2 DEF TypeOK, ScreenTypeOK, Kinds
  <2> DEFINE n == [screens[k.id] EXCEPT !.surface = k.surface]
  <2>2. n.surface = k.surface /\ n.virtual = screens[k.id].virtual
    BY <2>1 DEF Kinds
  <2>3. screens' = [screens EXCEPT ![k.id] = n]
    BY <1>3
  <2> HIDE DEF n
  <2> QED BY <1>2, <2>2, <2>3
<1>5. /\ calls'[c] = calls[c] \ {k} /\ \A d \in Conns \ {c} : calls'[d] = calls[d]
  BY <1>1, CallEnds
<1>6. \A d \in Conns : OwnIds(d)' = OwnIds(d) /\ OwnSurfaces(d)' = OwnSurfaces(d)
  BY <1>3 DEF OwnIds, OwnSurfaces
<1>7. HeldIds' /\ EachOnce' /\ Freed' = Freed
  BY <1>3, <1>4, <1>6 DEF Ownership, HeldIds, EachOnce, Freed, Virtual
<1>8. \A j \in DOMAIN screens \ {k.id} :
          Virtual(j) /\ screens[j].surface = k.surface => k.surface = NoSurface
  BY <1>1 DEF Ownership, Named, SurfaceUsed
<1>9. Distinct'
  BY <1>4, <1>8 DEF Ownership, Distinct, Virtual
<1>10. Numbered'
  <2>1. k.surface \in OwnSurfaces(c)
    BY DEF CallKinds
  <2>2. ASSUME NEW d \in Conns, NEW j \in OwnIds(d) PROVE screens'[j].surface \in OwnSurfaces(d)
    <3>1. CASE j = k.id
      <4>1. d = c
        BY <1>2, <3>1 DEF Ownership, HeldIds
      <4> QED BY <1>4, <2>1, <3>1, <4>1
    <3>2. CASE j # k.id
      BY <1>4, <3>2 DEF Ownership, Numbered, HeldIds
    <3> QED BY <3>1, <3>2
  <2> QED BY <1>3, <1>4, <1>6, <2>2 DEF Ownership, Numbered, Virtual
<1>11. Named'
  <2> SUFFICES ASSUME NEW d \in Conns, NEW l \in calls'[d]
               PROVE  /\ Uses(l) => l.id \in OwnIds(d)'
                      /\ Uses(l) => \A m \in calls'[d] : Uses(m) /\ m.id = l.id => m = l
                      /\ l.op = "assign" => ~SurfaceUsed(l.surface, DOMAIN screens \ {l.id})'
    BY DEF Named, Uses
  <2>1. l \in calls[d] /\ calls'[d] \subseteq calls[d] /\ OwnIds(d)' = OwnIds(d)
    BY <1>5, <1>6
  <2>2. ASSUME l.op = "assign" PROVE k.surface = l.surface => l.surface = NoSurface
    <3>1. d # c
      BY <1>1, <1>5, <2>1, <2>2 DEF CallKinds
    <3>2. Used(c) /\ Used(d) /\ l.surface \in OwnSurfaces(d) /\ k.surface \in OwnSurfaces(c)
      BY <2>1 DEF CallKinds, Used
    <3> QED BY <3>1, <3>2, OtherSurface
  <2>3. l.op = "assign" => ~SurfaceUsed(l.surface, DOMAIN screens \ {l.id})'
    <3>1. l.op = "assign" => ~SurfaceUsed(l.surface, DOMAIN screens \ {l.id})
      BY <2>1 DEF Ownership, Named
    <3>2. ASSUME l.op = "assign", l.surface # NoSurface, NEW j \in DOMAIN screens' \ {l.id},
                 Virtual(j)'
          PROVE  screens'[j].surface # l.surface
      <4>1. CASE j = k.id
        BY <1>4, <2>2, <3>2, <4>1
      <4>2. CASE j # k.id
        <5>1. j \in DOMAIN screens \ {l.id} /\ screens'[j] = screens[j]
          BY <1>4, <4>2
        <5> QED BY <3>1, <3>2, <5>1 DEF SurfaceUsed, Virtual
      <4> QED BY <4>1, <4>2
    <3> QED BY <3>2 DEF SurfaceUsed, Virtual
  <2>4. /\ Uses(l) => l.id \in OwnIds(d)
        /\ Uses(l) => \A m \in calls[d] : Uses(m) /\ m.id = l.id => m = l
    BY <2>1 DEF Ownership, Named
  <2> QED BY <2>1, <2>3, <2>4
<1> QED BY <1>3, <1>4, <1>7, <1>9, <1>10, <1>11 DEF Ownership

\* A call that overlaps a clean-up is never forgotten.
LEMMA LateStays == ASSUME TypeOK, Stages, Next, NoneLate' PROVE NoneLate
<1>1. ASSUME NEW cl \in Clients,
             \/ ConnectCalled(cl) \/ InsertConnection(cl) \/ ReplyConnection(cl)
             \/ ClientDies(cl) \/ \E c \in Unused : ConstructConnection(cl, c)
      PROVE  UNCHANGED late
  BY <1>1 DEF ConnectCalled, InsertConnection, ReplyConnection, ClientDies, connVars,
     ConstructConnection
<1>2. ASSUME NEW c \in Conns,
             \/ \E k \in Askable(c) : SendCall(c, k)
             \/ TaskRegisterNode(c) \/ TaskClean(c) \/ CleanVSyncConnections(c)
             \/ CleanFinish(c) \/ RemoveConnection(c)
      PROVE  UNCHANGED late
  BY <1>2 DEF SendCall, TaskRegisterNode, TaskClean, CleanVSyncConnections, CleanFinish,
     RemoveConnection, connVars
<1>3. ASSUME NEW c \in Conns, CallStep(c) PROVE UNCHANGED late
  BY <1>3, CallFacts
<1>4. ASSUME NEW c \in Conns, OnRemoteDied(c) \/ Destroy(c)
      PROVE  \A d \in Conns : late[d] => late'[d]
  <2>1. \/ UNCHANGED late
        \/ ~late[c] /\ \A d \in Conns \ {c} : late'[d] = late[d]
    BY <1>4, StartFacts
  <2> QED BY <2>1
<1>5. ASSUME ProcessCommand PROVE UNCHANGED late
  BY <1>5, ProcessFacts
<1> QED
  BY <1>1, <1>2, <1>3, <1>4, <1>5
     DEF Next, ServiceStep, ClientStep, CreateConnection, CleanStep, NoneLate

LEMMA OwnStep ==
    ASSUME TypeOK, Linked, Stages, Posted, Taken, OneUser, CallKinds, Ownership, NoneLate, Next
    PROVE  Ownership'
<1>1. /\ state \in [Conns -> {"unused", "live", "dying", "gone"}]
      /\ owner \in [Conns -> Clients \cup {NoConn}] /\ Owned
      /\ calls \in [Conns -> SUBSET CallType]
      /\ virtualScreenIds \in [Conns -> SUBSET (VirtualIds \cup {INVALID_SCREEN_ID})]
  BY DEF TypeOK, ObjectsOK, WorkOK, Linked
<1>2. CASE UNCHANGED <<screens, freeIds, virtualNum, aborted, virtualScreenIds, calls, owner,
                       state>>
  BY <1>2, OwnAside DEF OwnIds
<1>3. ASSUME NEW cl \in Clients,
             \/ ConnectCalled(cl) \/ InsertConnection(cl) \/ ReplyConnection(cl)
             \/ ClientDies(cl)
      PROVE  UNCHANGED <<screens, freeIds, virtualNum, aborted, virtualScreenIds, calls,
                         owner, state>>
  BY <1>3 DEF ConnectCalled, InsertConnection, ReplyConnection, ClientDies, connVars, screenVars
<1>4. ASSUME NEW cl \in Clients, NEW c \in Unused, ConstructConnection(cl, c) PROVE Ownership'
  <2>1. /\ c \in Conns /\ virtualScreenIds[c] = {}
        /\ \A d \in Conns \ {c} : owner'[d] = owner[d] /\ state'[d] = state[d]
        /\ UNCHANGED <<screens, freeIds, virtualNum, aborted, virtualScreenIds, calls>>
    BY <1>1, <1>4 DEF ConstructConnection, Unused, Taken, screenVars
  <2> QED BY <2>1, OwnAside DEF OwnIds
<1>5. ASSUME NEW c \in Conns, NEW k \in Askable(c), SendCall(c, k) PROVE Ownership'
  <2>1. /\ state[c] = "live" /\ calls'[c] = calls[c] \cup {k}
        /\ \A d \in Conns \ {c} : calls'[d] = calls[d]
        /\ UNCHANGED <<screens, freeIds, virtualNum, aborted, virtualScreenIds, owner, state>>
    BY <1>1, <1>5 DEF SendCall, screenVars
  <2>2. owner[c] \in Clients
    BY <1>1, <2>1 DEF Owned
  <2>3. /\ k.op # "assign"
        /\ Uses(k) => k.id \in OwnIds(c) /\ \A l \in calls[c] : l.id # k.id
    BY <2>2, Asked
  <2>4. \A d \in Conns : OwnIds(d)' = OwnIds(d)
    BY <2>1 DEF OwnIds
  <2>5. HeldIds' /\ Distinct' /\ EachOnce' /\ Freed' = Freed /\ Numbered'
    BY <2>1, <2>4 DEF Ownership, HeldIds, Distinct, EachOnce, Freed, Numbered,
       OwnSurfaces, Virtual
  <2>6. Named'
    <3> SUFFICES ASSUME NEW d \in Conns, NEW l \in calls'[d]
                 PROVE  /\ Uses(l) => l.id \in OwnIds(d)
                        /\ Uses(l) => \A m \in calls'[d] : Uses(m) /\ m.id = l.id => m = l
                        /\ l.op = "assign" => ~SurfaceUsed(l.surface, DOMAIN screens \ {l.id})
      BY <2>1, <2>4 DEF Named, Uses, SurfaceUsed, Virtual
    <3>1. CASE d # c
      BY <2>1, <3>1 DEF Ownership, Named
    <3>2. CASE d = c
      BY <2>1, <2>3, <3>2 DEF Ownership, Named
    <3> QED BY <3>1, <3>2
  <2> QED BY <2>1, <2>5, <2>6 DEF Ownership
<1>6. ASSUME NEW c \in Conns, CallStep(c) PROVE Ownership'
  <2>1. PICK k \in calls[c] :
            \/ CallCreateVirtualScreen(c, k) \/ CallCheckSurface(c, k)
            \/ CallAssignSurface(c, k)       \/ CallRemoveVirtualScreen(c, k)
            \/ CallSetCallback(c, k)         \/ CallAddVSync(c, k)
            \/ CallListVSync(c, k)           \/ CallCreateNode(c, k)
            \/ CallCommitTransaction(c, k)
    BY <1>6 DEF CallStep
  <2>2. UNCHANGED <<owner, state>>
    BY <1>6, CallFacts
  <2>3. ASSUME UNCHANGED <<screens, freeIds, virtualNum, aborted>>, Return(c, k),
               \A d \in Conns : OwnIds(d)' = OwnIds(d)
        PROVE  Ownership'
    <3>1. \A d \in Conns : calls'[d] \subseteq calls[d]
      BY <2>3, CallEnds
    <3> QED BY <2>2, <2>3, <3>1, OwnAside
  <2>4. CASE CallCreateVirtualScreen(c, k)
    <3>1. CASE SurfaceUsed(k.surface, DOMAIN screens)
      <4>1. /\ UNCHANGED <<screens, freeIds, virtualNum, aborted>> /\ Return(c, k)
            /\ virtualScreenIds' = [virtualScreenIds EXCEPT ![c] = @ \cup {INVALID_SCREEN_ID}]
        BY <2>4, <3>1 DEF CallCreateVirtualScreen, CreateVirtualScreen, CreatedId
      <4>2. \A d \in Conns : OwnIds(d)' = OwnIds(d)
        BY <1>1, <4>1 DEF OwnIds
      <4> QED BY <2>3, <4>1, <4>2
    <3> QED BY <2>4, <3>1, OwnCreate
  <2>5. CASE CallCheckSurface(c, k)
    <3>1. /\ UNCHANGED <<screens, freeIds, virtualNum, aborted, virtualScreenIds>>
          /\ k.op = "surface"
          /\ \/ Return(c, k)
             \/ ~SurfaceUsed(k.surface, DOMAIN screens \ {k.id}) /\ Goes(c, k, "assign")
      BY <2>5 DEF CallCheckSurface, At, screenVars
    <3>2. \A d \in Conns : OwnIds(d)' = OwnIds(d)
      BY <3>1 DEF OwnIds
    <3> QED BY <2>2, <2>3, <3>1, <3>2, OwnCheck
  <2>6. CASE CallAssignSurface(c, k)
    BY <2>6, OwnAssign
  <2>7. CASE CallRemoveVirtualScreen(c, k)
    <3>1. /\ k.op = "remove" /\ Uses(k) /\ RemoveVirtualScreen(k.id) /\ Return(c, k)
          /\ virtualScreenIds' = [virtualScreenIds EXCEPT ![c] = @ \ {k.id}]
          /\ UNCHANGED <<virtualNum, aborted>>
      BY <2>7 DEF CallRemoveVirtualScreen, At, Uses, RemoveVirtualScreen
    <3>2. k.id \in OwnIds(c) /\ k.id \in DOMAIN screens /\ k.id \in VirtualIds
      BY <3>1 DEF Ownership, Named, HeldIds
    <3>3. screens' = WithoutAll({k.id}) /\ freeIds' = Append(freeIds, k.id)
      BY <3>1, <3>2 DEF RemoveVirtualScreen
    <3>4. /\ OwnIds(c)' = OwnIds(c) \ {k.id} /\ \A d \in Conns \ {c} : OwnIds(d)' = OwnIds(d)
      BY <1>1, <3>1 DEF OwnIds
    <3>5. /\ calls'[c] = calls[c] \ {k} /\ \A d \in Conns : calls'[d] \subseteq calls[d]
      BY <3>1, CallEnds
    <3>6. \A l \in calls'[c] : Uses(l) => l.id \notin {k.id}
      BY <3>1, <3>5 DEF Ownership, Named
    <3>7. EachOnce' /\ Freed' = Freed \cup {k.id}
      <4>1. EachOnce /\ k.id \notin Freed
        BY <3>2 DEF Ownership
      <4> QED BY <3>2, <3>3, <4>1, FreeAppended
    <3> QED BY <2>2, <3>1, <3>2, <3>3, <3>4, <3>5, <3>6, <3>7, OwnRemove
  <2>8. CASE CallAddVSync(c, k)
    <3>1. /\ UNCHANGED <<screens, freeIds, virtualNum, aborted, virtualScreenIds>>
          /\ k.op = "vsync" /\ Goes(c, k, "list")
      BY <2>8 DEF CallAddVSync, At, screenVars
    <3>2. PICK n : n.op = "list" /\ calls'[c] = (calls[c] \ {k}) \cup {n}
      BY <3>1, CallGoes DEF Steps
    <3>3. \A d \in Conns \ {c} : calls'[d] = calls[d]
      BY <3>1, CallGoes DEF Steps
    <3>4. \A d \in Conns : OwnIds(d)' = OwnIds(d)
      BY <3>1 DEF OwnIds
    <3>5. HeldIds' /\ Distinct' /\ EachOnce' /\ Freed' = Freed /\ Numbered'
      BY <2>2, <3>1, <3>4
         DEF Ownership, HeldIds, Distinct, EachOnce, Freed, Numbered, OwnSurfaces, Virtual
    <3>6. Named'
      <4>1. ~Uses(n) /\ n.op # "assign"
        BY <3>2 DEF Uses
      <4> QED BY <3>1, <3>2, <3>3, <3>4, <4>1 DEF Ownership, Named, Uses, SurfaceUsed, Virtual
    <3> QED BY <3>1, <3>5, <3>6 DEF Ownership
  <2>9. CASE \/ CallSetCallback(c, k) \/ CallListVSync(c, k)
             \/ CallCreateNode(c, k)  \/ CallCommitTransaction(c, k)
    <3>1. UNCHANGED <<screens, freeIds, virtualNum, aborted, virtualScreenIds>> /\ Return(c, k)
      BY <2>9 DEF CallSetCallback, CallListVSync, CallCreateNode, CallCommitTransaction,
         screenVars
    <3>2. \A d \in Conns : OwnIds(d)' = OwnIds(d)
      BY <3>1 DEF OwnIds
    <3> QED BY <2>3, <3>1, <3>2
  <2> QED BY <2>1, <2>4, <2>5, <2>6, <2>7, <2>8, <2>9
<1>7. ASSUME NEW c \in Conns, OnRemoteDied(c) \/ Destroy(c) PROVE Ownership'
  <2>1. /\ \/ state'[c] \in {"live", "dying"}
           \/ cleanDone[c] /\ cleaning[c] = "no"
        /\ \A d \in Conns \ {c} : state'[d] = state[d]
        /\ UNCHANGED <<screens, freeIds, virtualNum, aborted, virtualScreenIds, calls, owner>>
    BY <1>7, StartFacts DEF screenVars
  <2>2. state'[c] \in {"live", "dying"} \/ virtualScreenIds[c] = {}
    BY <2>1 DEF Taken, Started, Emptied, NoneLate
  <2> QED BY <2>1, <2>2, OwnAside DEF OwnIds
<1>8. ASSUME NEW c \in Conns, TaskClean(c) PROVE Ownership'
  <2>1. PICK order \in SetToSeqs(Removable(virtualScreenIds[c])) : RemoveVirtualScreens(order)
    BY <1>8 DEF TaskClean
  <2>2. /\ virtualScreenIds' = [virtualScreenIds EXCEPT ![c] = {}]
        /\ UNCHANGED <<virtualNum, aborted, state, owner, calls>>
        /\ freeIds' = freeIds \o order /\ screens' = WithoutAll({order[i] : i \in DOMAIN order})
    BY <1>8, <2>1 DEF TaskClean, RemoveVirtualScreens
  <2>3. Removable(virtualScreenIds[c]) = OwnIds(c) /\ OwnIds(c) \in SUBSET VirtualIds
    <3>1. INVALID_SCREEN_ID \notin DOMAIN screens
      BY ScreenAssumption DEF TypeOK, VirtualOK, VirtualIds
    <3> QED BY <3>1 DEF Removable, OwnIds, Ownership, HeldIds
  <2>4. /\ order \in Seq(OwnIds(c)) /\ {order[i] : i \in DOMAIN order} = OwnIds(c)
        /\ \A i, j \in DOMAIN order : i # j => order[i] # order[j]
    BY <2>1, <2>3, InOrder
  <2>5. OwnIds(c)' = {} /\ \A d \in Conns \ {c} : OwnIds(d)' = OwnIds(d)
    BY <1>1, <2>2 DEF OwnIds
  <2>6. calls[c] = {}
    BY <1>8, CleanIsPosted DEF Stages, Started, NoneLate
  <2>7. EachOnce' /\ Freed' = Freed \cup OwnIds(c)
    <3>1. EachOnce /\ OwnIds(c) \cap Freed = {}
      BY DEF Ownership, HeldIds
    <3>2. order \in Seq(VirtualIds)
      BY <2>3, <2>4, WiderSeq
    <3>3. \A i \in DOMAIN order : order[i] \notin Freed
      BY <2>4, <3>1
    <3>4. EachOnce' /\ Freed' = Freed \cup {order[i] : i \in DOMAIN order}
      BY <2>2, <2>4, <3>1, <3>2, <3>3, FreeGiven
    <3> QED BY <2>4, <3>4
  <2>8. screens' = WithoutAll(OwnIds(c)) /\ OwnIds(c)' = OwnIds(c) \ OwnIds(c)
    BY <2>2, <2>4, <2>5
  <2>9. \A d \in Conns : /\ d # c => OwnIds(d)' = OwnIds(d)
                         /\ calls'[d] \subseteq calls[d]
    BY <2>2, <2>5
  <2>10. calls'[c] = {}
    BY <2>2, <2>6
  <2>11. \E gone \in SUBSET OwnIds(c) :
             /\ screens' = WithoutAll(gone) /\ OwnIds(c)' = OwnIds(c) \ gone
             /\ Freed' = Freed \cup gone
    BY <2>7, <2>8
  <2> QED BY <2>2, <2>7, <2>9, <2>10, <2>11, OwnRemove
<1>9. ASSUME NEW c \in Conns, CleanFinish(c) PROVE Ownership'
  <2>1. /\ cleaning[c] = "finish" /\ \A d \in Conns \ {c} : state'[d] = state[d]
        /\ UNCHANGED <<screens, freeIds, virtualNum, aborted, virtualScreenIds, calls, owner>>
    BY <1>1, <1>9 DEF CleanFinish, screenVars
  <2>2. virtualScreenIds[c] = {}
    BY <2>1 DEF Taken, Started, Emptied, NoneLate
  <2> QED BY <2>1, <2>2, OwnAside DEF OwnIds
<1>10. ASSUME NEW c \in Conns,
              TaskRegisterNode(c) \/ CleanVSyncConnections(c) \/ RemoveConnection(c)
       PROVE  UNCHANGED <<screens, freeIds, virtualNum, aborted, virtualScreenIds, calls,
                          owner, state>>
  BY <1>10 DEF TaskRegisterNode, CleanVSyncConnections, RemoveConnection, connVars, screenVars
<1>11. ASSUME ProcessCommand
       PROVE  UNCHANGED <<screens, freeIds, virtualNum, aborted, virtualScreenIds, calls,
                          owner, state>>
  BY <1>11, ProcessFacts
<1> QED
  BY <1>2, <1>3, <1>4, <1>5, <1>6, <1>7, <1>8, <1>9, <1>10, <1>11
     DEF Next, ServiceStep, ClientStep, CreateConnection, CleanStep

-----------------------------------------------------------------------------
(* The theorems about the service.                                         *)

SInv ==
    /\ Inv /\ TypeOK /\ CallKinds /\ Linked /\ OneConnection /\ Stages /\ Posted /\ Taken
    /\ OneUser /\ (NoneLate => Ownership)

LEMMA SInvInit == Init => SInv
<1> SUFFICES ASSUME Init PROVE SInv
  OBVIOUS
<1>1. Inv
  BY InvInit DEF Init
<1>2. TypeOK
  <2>1. tasks \in Seq(TaskType)
    BY DEF Init
  <2>2. Idle \in CreatingType
    BY DEF Idle, CreatingType
  <2>3. ClientsOK /\ ObjectsOK
    BY <2>2 DEF Init, ClientsOK, ObjectsOK
  <2>4. FlagsOK /\ WorkOK
    BY <2>1 DEF Init, FlagsOK, WorkOK
  <2>5. VirtualOK
    BY DEF Init, ScreenInit, VirtualOK
  <2> QED BY <1>1, <2>3, <2>4, <2>5 DEF Inv, TypeOK
<1>3. /\ state = [c \in Conns |-> "unused"] /\ calls = [c \in Conns |-> {}]
      /\ virtualScreenIds = [c \in Conns |-> {}] /\ DOMAIN tasks = {} /\ DOMAIN screens = {}
      /\ DOMAIN freeIds = {} /\ virtualNum = 0
  BY DEF Init, ScreenInit
<1>4. CallKinds /\ OneConnection /\ OneUser
  BY <1>3 DEF CallKinds, OneConnection, OneUser, Used
<1>5. Linked
  BY DEF Init, Linked, Owned, Refers, Idle
<1>6. Stages /\ Posted
  BY <1>3 DEF Init, Stages, Started, Posted
<1>7. Taken
  BY <1>3 DEF Init, ScreenInit, Taken, Started, Emptied
<1>8. Ownership
  <2>1. Freed = {} /\ \A c \in Conns : OwnIds(c) = {}
    BY <1>3 DEF Freed, OwnIds
  <2>2. ~aborted /\ EachOnce /\ 0 .. virtualNum - 1 = {}
    BY <1>3 DEF Init, ScreenInit, EachOnce
  <2>3. HeldIds /\ Distinct
    BY <1>3, <2>1 DEF HeldIds, Distinct
  <2>4. Numbered /\ Named
    BY <1>3, <2>1 DEF Numbered, Named
  <2> QED BY <1>3, <2>1, <2>2, <2>3, <2>4 DEF Ownership
<1> QED BY <1>1, <1>2, <1>4, <1>5, <1>6, <1>7, <1>8 DEF SInv

LEMMA SInvStep == SInv /\ [Next]_vars => SInv'
<1> SUFFICES ASSUME SInv, [Next]_vars PROVE SInv'
  OBVIOUS
<1>1. CASE Next
  <2>1. Inv' /\ VirtualOK' /\ Owned
    BY <1>1, ScreenStep DEF SInv, Linked
  <2>2. TypeOK'
    BY <1>1, <2>1, ClientsStep, ObjectsStep, FlagsStep, WorkStep DEF SInv, Inv, TypeOK
  <2>3. Linked' /\ OneConnection' /\ Stages' /\ Posted'
    BY <1>1, LinkStep, StageStep, PostStep DEF SInv
  <2>4. CallKinds' /\ Taken' /\ OneUser'
    BY <1>1, CallKindsStep, TakenStep, UserStep DEF SInv
  <2>5. NoneLate' => Ownership'
    BY <1>1, LateStays, OwnStep DEF SInv
  <2> QED BY <2>1, <2>2, <2>3, <2>4, <2>5 DEF SInv
<1>2. CASE UNCHANGED vars
  <2> USE <1>2 DEF vars, screenVars, clientVars, connVars, nodeVars
  <2>1. Inv' /\ TypeOK'
    <3>1. Inv' /\ VirtualOK'
      BY SameScreens DEF SInv, TypeOK
    <3> QED BY <3>1 DEF SInv, Inv, TypeOK, ClientsOK, ObjectsOK, FlagsOK, WorkOK
  <2>2. CallKinds' /\ Linked' /\ OneConnection'
    BY DEF SInv, CallKinds, Uses, OwnSurfaces, Linked, Owned, Refers, OneConnection
  <2>3. Stages' /\ Posted'
    BY DEF SInv, Stages, Started, Posted, IsTask, Emptied
  <2>4. Taken' /\ OneUser'
    BY DEF SInv, Taken, Listed, Started, Emptied, OneUser, Used
  <2>5. NoneLate' => Ownership'
    <3>1. NoneLate' => NoneLate
      BY DEF NoneLate
    <3> QED BY <3>1, OwnAside DEF SInv, OwnIds
  <2> QED BY <2>1, <2>2, <2>3, <2>4, <2>5 DEF SInv
<1> QED BY <1>1, <1>2

LEMMA SInvAlways == Spec => []SInv
BY SInvInit, SInvStep, PTL DEF Spec

\* The service keeps the state of the manager and of its connections of the right kind,
\* whatever clients call and whenever they die.  Clients that name their own ids only have
\* no id but that of a virtual screen freed (CleanVirtualScreens, RemoveVirtualScreen).
THEOREM ServiceTypeCorrect == Spec => []TypeOK
<1>1. SInv => TypeOK
  BY DEF SInv
<1> QED BY <1>1, SInvAlways, PTL

\* Virtual screens are shared out among virtualScreenIds_ of the connections and their ids
\* used again only when they are free, no two have one surface, and screens_.at(id) finds
\* its screen, unless a call overlapped a clean-up (CleanVirtualScreens, RemoveVirtualScreen,
\* GenerateVirtualScreenIdLocked).
THEOREM ScreensOwned == Spec => []OwnScreens
<1>1. SInv => OwnScreens
  BY OwnershipSays DEF SInv
<1> QED BY <1>1, SInvAlways, PTL

\* When the destructor of a connection is through, no screen, callback, VSyncConnection,
\* node or posted task of it is left, unless a call overlapped CleanAll; a node only if its
\* transaction was in cacheCommandQueue_ when CleanRenderNodes ran.
THEOREM NothingStays == Spec => []NothingLeft
<1>1. SInv => NothingLeft
  <2> SUFFICES ASSUME SInv, NEW c \in Conns, state[c] = "gone", ~late[c]
               PROVE  /\ OwnIds(c) = {}
                      /\ c \notin callbacks \cup distributor
                      /\ c \in nodes \cup cacheCommandQueue => c \in overtaken
                      /\ \A i \in DOMAIN tasks : tasks[i].conn # c
    BY DEF NothingLeft
  <2>1. Emptied(c) /\ cleaning[c] = "no"
    BY DEF SInv, Stages, Started, Emptied
  <2>2. \A i \in DOMAIN tasks : tasks[i].conn # c
    BY <2>1 DEF SInv, Posted
  <2>3. /\ virtualScreenIds[c] = {} /\ c \notin callbacks \cup distributor
        /\ c \in nodes \cup cacheCommandQueue => c \in overtaken
    BY <2>1 DEF SInv, Taken
  <2> QED BY <2>2, <2>3 DEF OwnIds
<1> QED BY <1>1, SInvAlways, PTL

\* What a living client holds through its connection.
Holds(c) == state[c] = "live" /\ alive[owner[c]] /\ proxy[owner[c]] = c

\* A connection that is being cleaned is of another client than one that is in use.
LEMMA CleanedIsOther ==
    ASSUME SInv, NEW c \in Conns, NEW d \in Conns, Holds(c), Started(d), state[d] # "gone"
    PROVE  d # c /\ owner[d] # owner[c]
<1>1. owner[c] \in Clients /\ proxy[owner[c]] = c /\ c # NoConn
  BY DEF SInv, Linked, Owned, Holds
<1>2. /\ connections[owner[c]] = c /\ creating[owner[c]].at = "idle"
      /\ creating[owner[c]].conn = NoConn
  BY <1>1 DEF SInv, Linked
<1>3. d # c
  BY DEF SInv, Stages, Holds
<1>4. state[d] \in {"live", "dying"}
  BY DEF SInv, Stages, TypeOK, ObjectsOK
<1>5. d # NoConn
  OBVIOUS
<1> QED BY <1>1, <1>2, <1>3, <1>4, <1>5 DEF SInv, OneConnection, Refers, Holds

LEMMA HeldStep ==
    ASSUME SInv, Next, NEW c \in Conns, Holds(c)
    PROVE  (c \in nodes => c \in nodes') /\ (c \in distributor => c \in distributor')
<1>1. ASSUME NEW cl \in Clients,
             \/ ConnectCalled(cl) \/ InsertConnection(cl) \/ ReplyConnection(cl)
             \/ ClientDies(cl) \/ \E d \in Unused : ConstructConnection(cl, d)
      PROVE  UNCHANGED <<nodes, distributor>>
  BY <1>1 DEF ConnectCalled, InsertConnection, ReplyConnection, ClientDies, ConstructConnection,
     nodeVars
<1>2. ASSUME NEW d \in Conns,
             \/ \E k \in Askable(d) : SendCall(d, k)
             \/ OnRemoteDied(d) \/ Destroy(d) \/ CleanFinish(d) \/ RemoveConnection(d)
      PROVE  UNCHANGED <<nodes, distributor>>
  BY <1>2 DEF SendCall, OnRemoteDied, Destroy, CleanFinish, RemoveConnection, nodeVars
<1>3. ASSUME NEW d \in Conns, CallStep(d) \/ TaskRegisterNode(d)
      PROVE  nodes \subseteq nodes' /\ distributor \subseteq distributor'
  BY <1>3 DEF nodeVars, CallStep, TaskRegisterNode, CallCreateVirtualScreen, CallCheckSurface,
     CallAssignSurface, CallRemoveVirtualScreen, CallSetCallback, CallAddVSync,
     CallListVSync, CallCreateNode,
     CallCommitTransaction
<1>4. ASSUME NEW d \in Conns, TaskClean(d)
      PROVE  UNCHANGED distributor /\ (c \in nodes => c \in nodes')
  <2>1. UNCHANGED distributor /\ nodes' = {e \in nodes : owner[e] # owner[d]}
    BY <1>4 DEF TaskClean
  <2>2. cleaning[d] = "posted"
    BY <1>4, CleanIsPosted DEF SInv
  <2>3. Started(d) /\ state[d] # "gone"
    BY <2>2 DEF SInv, Stages, Started
  <2> QED BY <2>1, <2>3, CleanedIsOther
<1>5. ASSUME NEW d \in Conns, CleanVSyncConnections(d)
      PROVE  UNCHANGED nodes /\ (c \in distributor => c \in distributor')
  <2>1. /\ cleaning[d] = "walk" /\ UNCHANGED nodes
        /\ distributor' = IF vsyncListed[d] THEN distributor \ {d} ELSE distributor
    BY <1>5 DEF CleanVSyncConnections, nodeVars
  <2>2. d # c
    BY <2>1 DEF SInv, Stages, Started, Holds
  <2> QED BY <2>1, <2>2
<1>6. ASSUME ProcessCommand PROVE nodes \subseteq nodes' /\ UNCHANGED distributor
  BY <1>6, ProcessFacts
<1> QED
  BY <1>1, <1>2, <1>3, <1>4, <1>5, <1>6
     DEF Next, ServiceStep, ClientStep, CreateConnection, CleanStep

\* What a living client made is not taken by the clean-up of another client's connection,
\* nor by that of a connection of its own that was replaced (CleanRenderNodes drops nodes by
\* pid), as long as no call overlapped a clean-up.
THEOREM HoldingsKept == Spec => HeldKept
<1>1. SInv /\ SInv' /\ [Next]_vars =>
        [\A c \in Conns :
            state[c] = "live" /\ alive[owner[c]] /\ proxy[owner[c]] = c /\ NoneLate' =>
              /\ c \in nodes => c \in nodes'
              /\ c \in distributor => c \in distributor'
              /\ c \in callbacks /\ hasCallback'[c] => c \in callbacks'
              /\ \A id \in OwnIds(c) : id \in virtualScreenIds'[c] => id \in DOMAIN screens'
        ]_vars
  <2> SUFFICES ASSUME SInv, SInv', Next, NEW c \in Conns, Holds(c), NoneLate'
               PROVE  /\ c \in nodes => c \in nodes'
                      /\ c \in distributor => c \in distributor'
                      /\ c \in callbacks /\ hasCallback'[c] => c \in callbacks'
                      /\ \A id \in OwnIds(c) :
                            id \in virtualScreenIds'[c] => id \in DOMAIN screens'
    BY DEF Holds
  <2>1. (c \in nodes => c \in nodes') /\ (c \in distributor => c \in distributor')
    BY HeldStep
  <2>2. hasCallback'[c] => c \in callbacks'
    BY DEF SInv, Taken
  <2>3. ASSUME NEW id \in OwnIds(c), id \in virtualScreenIds'[c] PROVE id \in DOMAIN screens'
    <3>1. id \in OwnIds(c)'
      BY <2>3 DEF OwnIds
    <3>2. OwnIds(c)' \subseteq DOMAIN screens'
      BY DEF SInv, Ownership, HeldIds
    <3> QED BY <3>1, <3>2
  <2> QED BY <2>1, <2>2, <2>3
<1> QED BY <1>1, SInvAlways, PTL DEF Spec, HeldKept
=============================================================================
