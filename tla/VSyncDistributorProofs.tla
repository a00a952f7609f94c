----------------------- MODULE VSyncDistributorProofs -----------------------
(***************************************************************************)
(* Proofs about VSyncDistributor for any number of connections, any rates  *)
(* and sockets of any size.                                                *)
(***************************************************************************)
EXTENDS VSyncDistributor, TLAPS

\* The count stays below the cycle.
LEMMA CountType ==
  ASSUME CountUp, vsyncCount \in 0..(CountCycle - 1)
  PROVE  vsyncCount' \in 0..(CountCycle - 1)
  BY RateAssumption DEF CountUp

\* A notification leaves the flag a Boolean.
LEMMA NotifyType == Notify => woken' \in BOOLEAN
  BY DEF Notify

\* What a rate can be.
LEMMA RateValues ==
  ASSUME RegistryOK, NEW c \in Connections
  PROVE  /\ rate[c] \in Int /\ highRate[c] \in Int
         /\ rate[c] = -1 \/ rate[c] = 0 \/ rate[c] > 0
         /\ highRate[c] = -1 \/ highRate[c] > 0
  <1>1. \A r \in Rates : r \in Int /\ r > 0
    BY RateAssumption
  <1>2. rate[c] \in {-1, 0} \cup Rates /\ highRate[c] \in {-1} \cup Rates
    BY DEF RegistryOK
  <1>3. rate[c] \in Int /\ (rate[c] = -1 \/ rate[c] = 0 \/ rate[c] > 0)
    BY <1>1, <1>2
  <1>4. highRate[c] \in Int /\ (highRate[c] = -1 \/ highRate[c] > 0)
    BY <1>1, <1>2
  <1> QED
    BY <1>3, <1>4

-----------------------------------------------------------------------------
(* Type correctness.                                                       *)

LEMMA InitType == Init => TypeOK
  <1> SUFFICES ASSUME Init PROVE TypeOK
    OBVIOUS
  <1>1. RegistryOK
    BY DEF Init, RegistryOK
  <1>2. SourceOK
    <2>1. 0 \in 0..(CountCycle - 1)
      BY RateAssumption
    <2> QED
      BY <2>1 DEF Init, SourceOK
  <1>3. ThreadOK
    BY DEF Init, ThreadOK, Labels
  <1>4. ClientOK
    BY BoundAssumption DEF Init, ClientOK
  <1> QED
    BY <1>1, <1>2, <1>3, <1>4 DEF TypeOK

\* Steps that leave a part alone.
LEMMA RegistrySame == ASSUME RegistryOK, UNCHANGED registry PROVE RegistryOK'
  BY DEF RegistryOK, registry

LEMMA SourceSame == ASSUME SourceOK, UNCHANGED source PROVE SourceOK'
  BY DEF SourceOK, source

LEMMA ThreadSame ==
  ASSUME ThreadOK, UNCHANGED <<thread, woken, running, stopping>> PROVE ThreadOK'
  BY DEF ThreadOK, thread

LEMMA ClientSame == ASSUME ClientOK, UNCHANGED client PROVE ClientOK'
  BY DEF ClientOK, client

LEMMA StepType == TypeOK /\ [Next]_vars => TypeOK'
  <1> SUFFICES ASSUME TypeOK, [Next]_vars PROVE TypeOK'
    OBVIOUS
  <1>1. ASSUME NEW c \in Connections \ added, AddConnection(c) PROVE TypeOK'
    <2>1. RegistryOK'
      BY <1>1, RateAssumption DEF AddConnection, TypeOK, RegistryOK, registry,
         source, thread, client
    <2>2. SourceOK' /\ ThreadOK' /\ ClientOK'
      BY <1>1, SourceSame, ThreadSame, ClientSame DEF AddConnection, TypeOK
    <2> QED
      BY <2>1, <2>2 DEF TypeOK
  <1>2. ASSUME NEW c \in Connections, RemoveConnection(c) PROVE TypeOK'
    <2>1. RegistryOK'
      BY <1>2, RateAssumption DEF RemoveConnection, TypeOK, RegistryOK,
         registry, source, thread, client
    <2>2. ClientOK'
      BY <1>2, BoundAssumption DEF RemoveConnection, TypeOK, ClientOK,
         registry, source, thread, client
    <2>3. SourceOK' /\ ThreadOK'
      BY <1>2, SourceSame, ThreadSame DEF RemoveConnection, TypeOK
    <2> QED
      BY <2>1, <2>2, <2>3 DEF TypeOK
  <1>3. ASSUME NEW c \in Connections, RequestNextVSync(c) PROVE TypeOK'
    <2>1. RegistryOK'
      BY <1>3, RateAssumption DEF RequestNextVSync, TypeOK, RegistryOK,
         registry, source, thread, client
    <2>2. ThreadOK'
      BY <1>3, NotifyType DEF RequestNextVSync, TypeOK, ThreadOK, Labels,
         registry, source, thread, client
    <2>3. ClientOK'
      BY <1>3, BoundAssumption DEF RequestNextVSync, TypeOK, ClientOK,
         registry, source, thread, client
    <2>4. SourceOK'
      BY <1>3, SourceSame DEF RequestNextVSync, TypeOK
    <2> QED
      BY <2>1, <2>2, <2>3, <2>4 DEF TypeOK
  <1>4. ASSUME NEW c \in Connections, NEW r \in Rates \cup {-2, 0},
     SetVSyncRate(c, r) PROVE TypeOK'
    <2>1. RegistryOK'
      BY <1>4, RateAssumption DEF SetVSyncRate, TypeOK, RegistryOK, registry,
         source, thread, client
    <2>2. ThreadOK'
      BY <1>4, NotifyType DEF SetVSyncRate, TypeOK, ThreadOK, Labels, registry,
         source, thread, client
    <2>3. ClientOK'
      BY <1>4, BoundAssumption DEF SetVSyncRate, TypeOK, ClientOK, registry,
         source, thread, client
    <2>4. SourceOK'
      BY <1>4, SourceSame DEF SetVSyncRate, TypeOK
    <2> QED
      BY <2>1, <2>2, <2>3, <2>4 DEF TypeOK
  <1>5. ASSUME NEW c \in Connections, NEW r \in Rates \cup {-2, 0},
     SetHighPriorityVSyncRate(c, r) PROVE TypeOK'
    <2>1. RegistryOK'
      BY <1>5, RateAssumption DEF SetHighPriorityVSyncRate, TypeOK, RegistryOK,
         registry, source, thread, client
    <2>2. ThreadOK'
      BY <1>5, NotifyType DEF SetHighPriorityVSyncRate, TypeOK, ThreadOK,
         Labels, registry, source, thread, client
    <2>3. SourceOK' /\ ClientOK'
      BY <1>5, SourceSame, ClientSame DEF SetHighPriorityVSyncRate, TypeOK
    <2> QED
      BY <2>1, <2>2, <2>3 DEF TypeOK
  <1>6. ASSUME NEW c \in Connections, OnReadable(c) PROVE TypeOK'
    <2>1. ClientOK'
      BY <1>6, BoundAssumption DEF OnReadable, TypeOK, ClientOK, registry,
         source, thread, client
    <2>2. RegistryOK' /\ SourceOK' /\ ThreadOK'
      BY <1>6, RegistrySame, SourceSame, ThreadSame DEF OnReadable, TypeOK
    <2> QED
      BY <2>1, <2>2 DEF TypeOK
  <1>7. ASSUME OnVSyncEvent PROVE TypeOK'
    <2>1. SourceOK'
      BY <1>7, CountType DEF OnVSyncEvent, TypeOK, SourceOK, registry, source,
         thread, client
    <2>2. ThreadOK'
      BY <1>7, NotifyType DEF OnVSyncEvent, TypeOK, ThreadOK, Labels, registry,
         source, thread, client
    <2>3. RegistryOK' /\ ClientOK'
      BY <1>7, RegistrySame, ClientSame DEF OnVSyncEvent, TypeOK
    <2> QED
      BY <2>1, <2>2, <2>3 DEF TypeOK
  <1>8. ASSUME Loop PROVE TypeOK'
    <2>1. ThreadOK'
      BY <1>8 DEF Loop, Goto, TypeOK, ThreadOK, Labels, registry, source,
         thread, client
    <2>2. RegistryOK' /\ SourceOK' /\ ClientOK'
      BY <1>8, RegistrySame, SourceSame, ClientSame DEF Loop, TypeOK
    <2> QED
      BY <2>1, <2>2 DEF TypeOK
  <1>9. ASSUME Collect PROVE TypeOK'
    <2>1. RegistryOK'
      BY <1>9, RateAssumption DEF Collect, Goto, TypeOK, RegistryOK, registry,
         source, thread, client
    <2>2. SourceOK'
      BY <1>9 DEF Collect, Goto, TypeOK, SourceOK, registry, source, thread,
         client
    <2>3. ThreadOK'
      BY <1>9 DEF Collect, Goto, TypeOK, ThreadOK, Labels, Waiters, RegistryOK,
         registry, source, thread, client
    <2>4. ClientOK'
      BY <1>9, ClientSame DEF Collect, TypeOK
    <2> QED
      BY <2>1, <2>2, <2>3, <2>4 DEF TypeOK
  <1>10. ASSUME Discard PROVE TypeOK'
    <2>1. SourceOK'
      BY <1>10 DEF Discard, Goto, TypeOK, SourceOK, registry, source, thread,
         client
    <2>2. ThreadOK'
      BY <1>10 DEF Discard, Goto, TypeOK, ThreadOK, Labels, registry, source,
         thread, client
    <2>3. RegistryOK' /\ ClientOK'
      BY <1>10, RegistrySame, ClientSame DEF Discard, TypeOK
    <2> QED
      BY <2>1, <2>2, <2>3 DEF TypeOK
  <1>11. ASSUME Enable PROVE TypeOK'
    <2>1. SourceOK'
      BY <1>11 DEF Enable, Goto, EnableVSync, TypeOK, SourceOK, registry,
         source, thread, client
    <2>2. ThreadOK'
      BY <1>11 DEF Enable, Goto, EnableVSync, TypeOK, ThreadOK, Labels,
         registry, source, thread, client
    <2>3. RegistryOK' /\ ClientOK'
      BY <1>11, RegistrySame, ClientSame DEF Enable, TypeOK
    <2> QED
      BY <2>1, <2>2, <2>3 DEF TypeOK
  <1>12. ASSUME Sleep PROVE TypeOK'
    <2>1. ThreadOK'
      BY <1>12 DEF Sleep, Goto, TypeOK, ThreadOK, Labels, registry, source,
         thread, client
    <2>2. RegistryOK' /\ SourceOK' /\ ClientOK'
      BY <1>12, RegistrySame, SourceSame, ClientSame DEF Sleep, TypeOK
    <2> QED
      BY <2>1, <2>2 DEF TypeOK
  <1>13. ASSUME Wake PROVE TypeOK'
    <2>1. ThreadOK'
      BY <1>13 DEF Wake, Goto, TypeOK, ThreadOK, Labels, registry, source,
         thread, client
    <2>2. RegistryOK' /\ SourceOK' /\ ClientOK'
      BY <1>13, RegistrySame, SourceSame, ClientSame DEF Wake, TypeOK
    <2> QED
      BY <2>1, <2>2 DEF TypeOK
  <1>14. ASSUME SoftwareVSync PROVE TypeOK'
    <2>1. SourceOK'
      BY <1>14, CountType DEF SoftwareVSync, Goto, TypeOK, SourceOK, registry,
         source, thread, client
    <2>2. ThreadOK'
      BY <1>14 DEF SoftwareVSync, Goto, TypeOK, ThreadOK, Labels, registry,
         source, thread, client
    <2>3. RegistryOK' /\ ClientOK'
      BY <1>14, RegistrySame, ClientSame DEF SoftwareVSync, TypeOK
    <2> QED
      BY <2>1, <2>2, <2>3 DEF TypeOK
  <1>15. ASSUME NEW c \in Connections, PostSent(c) PROVE TypeOK'
    <2>1. ThreadOK'
      BY <1>15 DEF PostSent, TypeOK, ThreadOK, Labels, registry, source,
         thread, client
    <2>2. ClientOK'
      BY <1>15, BoundAssumption DEF PostSent, TypeOK, ClientOK, registry,
         source, thread, client
    <2>3. RegistryOK' /\ SourceOK'
      BY <1>15, RegistrySame, SourceSame DEF PostSent, TypeOK
    <2> QED
      BY <2>1, <2>2, <2>3 DEF TypeOK
  <1>16. ASSUME NEW c \in Connections, PostFull(c) PROVE TypeOK'
    <2>1. ThreadOK'
      BY <1>16 DEF PostFull, Goto, TypeOK, ThreadOK, Labels, registry, source,
         thread, client
    <2>2. RegistryOK' /\ SourceOK' /\ ClientOK'
      BY <1>16, RegistrySame, SourceSame, ClientSame DEF PostFull, TypeOK
    <2> QED
      BY <2>1, <2>2 DEF TypeOK
  <1>17. ASSUME NEW c \in Connections, PostInterrupted(c) PROVE TypeOK'
    <2>1. ThreadOK'
      BY <1>17 DEF PostInterrupted, Goto, TypeOK, ThreadOK, Labels, registry,
         source, thread, client
    <2>2. ClientOK'
      BY <1>17, BoundAssumption DEF PostInterrupted, Goto, TypeOK, ClientOK,
         registry, source, thread, client
    <2>3. RegistryOK' /\ SourceOK'
      BY <1>17, RegistrySame, SourceSame DEF PostInterrupted, TypeOK
    <2> QED
      BY <2>1, <2>2, <2>3 DEF TypeOK
  <1>18. ASSUME NEW c \in Connections, PostError(c) PROVE TypeOK'
    <2>1. ThreadOK'
      BY <1>18 DEF PostError, Goto, TypeOK, ThreadOK, Labels, registry, source,
         thread, client
    <2>2. RegistryOK' /\ SourceOK' /\ ClientOK'
      BY <1>18, RegistrySame, SourceSame, ClientSame DEF PostError, TypeOK
    <2> QED
      BY <2>1, <2>2 DEF TypeOK
  <1>19. ASSUME PostDone PROVE TypeOK'
    <2>1. ThreadOK'
      BY <1>19 DEF PostDone, Goto, TypeOK, ThreadOK, Labels, registry, source,
         thread, client
    <2>2. RegistryOK' /\ SourceOK' /\ ClientOK'
      BY <1>19, RegistrySame, SourceSame, ClientSame DEF PostDone, TypeOK
    <2> QED
      BY <2>1, <2>2 DEF TypeOK
  <1>20. ASSUME Again PROVE TypeOK'
    <2>1. RegistryOK'
      BY <1>20, RateAssumption DEF Again, Goto, TypeOK, RegistryOK, registry,
         source, thread, client
    <2>2. ThreadOK'
      BY <1>20 DEF Again, Goto, TypeOK, ThreadOK, Labels, registry, source,
         thread, client
    <2>3. SourceOK' /\ ClientOK'
      BY <1>20, SourceSame, ClientSame DEF Again, TypeOK
    <2> QED
      BY <2>1, <2>2, <2>3 DEF TypeOK
  <1>21. ASSUME Drop PROVE TypeOK'
    <2>1. RegistryOK'
      BY <1>21, RateAssumption DEF Drop, Goto, TypeOK, RegistryOK, registry,
         source, thread, client
    <2>2. ThreadOK'
      BY <1>21 DEF Drop, Goto, TypeOK, ThreadOK, Labels, registry, source,
         thread, client
    <2>3. ClientOK'
      BY <1>21, BoundAssumption DEF Drop, Goto, TypeOK, ClientOK, registry,
         source, thread, client
    <2>4. SourceOK'
      BY <1>21, SourceSame DEF Drop, TypeOK
    <2> QED
      BY <2>1, <2>2, <2>3, <2>4 DEF TypeOK
  <1>22. ASSUME SpuriousWake PROVE TypeOK'
    <2>1. ThreadOK'
      BY <1>22 DEF SpuriousWake, Goto, TypeOK, ThreadOK, Labels, registry,
         source, thread, client
    <2>2. RegistryOK' /\ SourceOK' /\ ClientOK'
      BY <1>22, RegistrySame, SourceSame, ClientSame DEF SpuriousWake, TypeOK
    <2> QED
      BY <2>1, <2>2 DEF TypeOK
  <1>23. ASSUME Stop PROVE TypeOK'
    <2>1. ThreadOK'
      BY <1>23 DEF Stop, TypeOK, ThreadOK, Labels, registry, source, thread,
         client
    <2>2. RegistryOK' /\ SourceOK' /\ ClientOK'
      BY <1>23, RegistrySame, SourceSame, ClientSame DEF Stop, TypeOK
    <2> QED
      BY <2>1, <2>2 DEF TypeOK
  <1>24. ASSUME StopNotify PROVE TypeOK'
    <2>1. ThreadOK'
      BY <1>24, NotifyType DEF StopNotify, TypeOK, ThreadOK, Labels, registry,
         source, thread, client
    <2>2. RegistryOK' /\ SourceOK' /\ ClientOK'
      BY <1>24, RegistrySame, SourceSame, ClientSame DEF StopNotify, TypeOK
    <2> QED
      BY <2>1, <2>2 DEF TypeOK
  <1>25. ASSUME UNCHANGED vars PROVE TypeOK'
    BY <1>25, RegistrySame, SourceSame, ThreadSame, ClientSame DEF vars, TypeOK
  <1> QED
    BY <1>1, <1>2, <1>3, <1>4, <1>5, <1>6, <1>7, <1>8, <1>9, <1>10, <1>11,
       <1>12, <1>13, <1>14, <1>15, <1>16, <1>17, <1>18, <1>19, <1>20, <1>21,
       <1>22, <1>23, <1>24, <1>25 DEF Next, Calls, ThreadMain

\* The fields of the distributor, its connections and its thread keep their types
\* whatever calls, vsyncs and failed posts come in whatever order.
THEOREM TypeCorrect == Spec => []TypeOK
  <1> QED
    BY InitType, StepType, PTL DEF Spec

-----------------------------------------------------------------------------
(* What the thread has in its hands.                                       *)

\* Connections are collected, and fail, only while the thread posts, and one
\* that has failed is no longer to be posted to.
InHand ==
    /\ pc \notin {"post", "again", "drop"} => conns = {}
    /\ pc \notin {"again", "drop"} => failed = {}
    /\ conns \cap failed = {}
    /\ conns \cup failed \subseteq added

LEMMA InitInHand == Init => InHand
  BY DEF Init, InHand

LEMMA StepInHand == TypeOK /\ InHand /\ [Next]_vars => InHand'
  <1> SUFFICES ASSUME TypeOK, InHand, [Next]_vars PROVE InHand'
    OBVIOUS
  <1>1. ASSUME NEW c \in Connections \ added, AddConnection(c) PROVE InHand'
    BY <1>1 DEF AddConnection, TypeOK, RegistryOK, SourceOK, ThreadOK,
       ClientOK, InHand, registry, source, thread, client
  <1>2. ASSUME NEW c \in Connections, RemoveConnection(c) PROVE InHand'
    BY <1>2 DEF RemoveConnection, TypeOK, RegistryOK, SourceOK, ThreadOK,
       ClientOK, InHand, registry, source, thread, client
  <1>3. ASSUME NEW c \in Connections, RequestNextVSync(c) PROVE InHand'
    BY <1>3 DEF RequestNextVSync, Notify, TypeOK, RegistryOK, SourceOK,
       ThreadOK, ClientOK, InHand, registry, source, thread, client
  <1>4. ASSUME NEW c \in Connections, NEW r \in Rates \cup {-2, 0},
     SetVSyncRate(c, r) PROVE InHand'
    BY <1>4 DEF SetVSyncRate, Notify, TypeOK, RegistryOK, SourceOK, ThreadOK,
       ClientOK, InHand, registry, source, thread, client
  <1>5. ASSUME NEW c \in Connections, NEW r \in Rates \cup {-2, 0},
     SetHighPriorityVSyncRate(c, r) PROVE InHand'
    BY <1>5 DEF SetHighPriorityVSyncRate, Notify, TypeOK, RegistryOK, SourceOK,
       ThreadOK, ClientOK, InHand, registry, source, thread, client
  <1>6. ASSUME NEW c \in Connections, OnReadable(c) PROVE InHand'
    BY <1>6 DEF OnReadable, TypeOK, RegistryOK, SourceOK, ThreadOK, ClientOK,
       InHand, registry, source, thread, client
  <1>7. ASSUME OnVSyncEvent PROVE InHand'
    BY <1>7 DEF OnVSyncEvent, Notify, CountUp, TypeOK, RegistryOK, SourceOK,
       ThreadOK, ClientOK, InHand, registry, source, thread, client
  <1>8. ASSUME Loop PROVE InHand'
    BY <1>8 DEF Loop, Goto, TypeOK, RegistryOK, SourceOK, ThreadOK, ClientOK,
       InHand, registry, source, thread, client
  <1>9. ASSUME Collect PROVE InHand'
    BY <1>9 DEF Collect, Goto, TypeOK, RegistryOK, SourceOK, ThreadOK,
       ClientOK, InHand, registry, source, thread, client, Waiters
  <1>10. ASSUME Discard PROVE InHand'
    BY <1>10 DEF Discard, Goto, TypeOK, RegistryOK, SourceOK, ThreadOK,
       ClientOK, InHand, registry, source, thread, client
  <1>11. ASSUME Enable PROVE InHand'
    BY <1>11 DEF Enable, Goto, EnableVSync, TypeOK, RegistryOK, SourceOK,
       ThreadOK, ClientOK, InHand, registry, source, thread, client
  <1>12. ASSUME Sleep PROVE InHand'
    BY <1>12 DEF Sleep, Goto, TypeOK, RegistryOK, SourceOK, ThreadOK, ClientOK,
       InHand, registry, source, thread, client
  <1>13. ASSUME Wake PROVE InHand'
    BY <1>13 DEF Wake, Goto, TypeOK, RegistryOK, SourceOK, ThreadOK, ClientOK,
       InHand, registry, source, thread, client
  <1>14. ASSUME SoftwareVSync PROVE InHand'
    BY <1>14 DEF SoftwareVSync, Goto, CountUp, TypeOK, RegistryOK, SourceOK,
       ThreadOK, ClientOK, InHand, registry, source, thread, client
  <1>15. ASSUME NEW c \in Connections, PostSent(c) PROVE InHand'
    BY <1>15 DEF PostSent, TypeOK, RegistryOK, SourceOK, ThreadOK, ClientOK,
       InHand, registry, source, thread, client
  <1>16. ASSUME NEW c \in Connections, PostFull(c) PROVE InHand'
    BY <1>16 DEF PostFull, Goto, TypeOK, RegistryOK, SourceOK, ThreadOK,
       ClientOK, InHand, registry, source, thread, client
  <1>17. ASSUME NEW c \in Connections, PostInterrupted(c) PROVE InHand'
    BY <1>17 DEF PostInterrupted, Goto, TypeOK, RegistryOK, SourceOK, ThreadOK,
       ClientOK, InHand, registry, source, thread, client
  <1>18. ASSUME NEW c \in Connections, PostError(c) PROVE InHand'
    BY <1>18 DEF PostError, Goto, TypeOK, RegistryOK, SourceOK, ThreadOK,
       ClientOK, InHand, registry, source, thread, client
  <1>19. ASSUME PostDone PROVE InHand'
    BY <1>19 DEF PostDone, Goto, TypeOK, RegistryOK, SourceOK, ThreadOK,
       ClientOK, InHand, registry, source, thread, client
  <1>20. ASSUME Again PROVE InHand'
    BY <1>20 DEF Again, Goto, TypeOK, RegistryOK, SourceOK, ThreadOK, ClientOK,
       InHand, registry, source, thread, client
  <1>21. ASSUME Drop PROVE InHand'
    BY <1>21 DEF Drop, Goto, TypeOK, RegistryOK, SourceOK, ThreadOK, ClientOK,
       InHand, registry, source, thread, client
  <1>22. ASSUME SpuriousWake PROVE InHand'
    BY <1>22 DEF SpuriousWake, Goto, TypeOK, RegistryOK, SourceOK, ThreadOK,
       ClientOK, InHand, registry, source, thread, client
  <1>23. ASSUME Stop PROVE InHand'
    BY <1>23 DEF Stop, TypeOK, RegistryOK, SourceOK, ThreadOK, ClientOK,
       InHand, registry, source, thread, client
  <1>24. ASSUME StopNotify PROVE InHand'
    BY <1>24 DEF StopNotify, Notify, TypeOK, RegistryOK, SourceOK, ThreadOK,
       ClientOK, InHand, registry, source, thread, client
  <1>25. ASSUME UNCHANGED vars PROVE InHand'
    BY <1>25 DEF vars, TypeOK, RegistryOK, SourceOK, ThreadOK, ClientOK,
       InHand, registry, source, thread, client
  <1> QED
    BY <1>1, <1>2, <1>3, <1>4, <1>5, <1>6, <1>7, <1>8, <1>9, <1>10, <1>11,
       <1>12, <1>13, <1>14, <1>15, <1>16, <1>17, <1>18, <1>19, <1>20, <1>21,
       <1>22, <1>23, <1>24, <1>25 DEF Next, Calls, ThreadMain

-----------------------------------------------------------------------------
(* Requests are kept.                                                      *)

\* What lay in a socket before the last request is still at its head.
AheadOK == \A c \in Connections : ahead[c] <= socket[c]

LEMMA StepAhead == TypeOK /\ AheadOK /\ [Next]_vars => AheadOK'
  <1> SUFFICES ASSUME TypeOK, AheadOK, [Next]_vars PROVE AheadOK'
    OBVIOUS
  <1> USE DEF AheadOK, TypeOK, ClientOK
  <1>1. ASSUME NEW c \in Connections, RequestNextVSync(c) PROVE AheadOK'
    BY <1>1 DEF RequestNextVSync
  <1>2. ASSUME NEW c \in Connections, OnReadable(c) PROVE AheadOK'
    BY <1>2, BoundAssumption DEF OnReadable
  <1>3. ASSUME NEW c \in Connections, PostSent(c) PROVE AheadOK'
    BY <1>3, BoundAssumption DEF PostSent
  <1>4. ASSUME NEW c \in Connections, PostInterrupted(c) PROVE AheadOK'
    BY <1>4, BoundAssumption DEF PostInterrupted
  <1>5. ASSUME UNCHANGED <<socket, ahead>> PROVE AheadOK'
    BY <1>5
  <1>6. ASSUME NEW c \in Connections, NEW r \in Rates \cup {-2, 0},
               \/ AddConnection(c) \/ RemoveConnection(c) \/ SetVSyncRate(c, r)
               \/ SetHighPriorityVSyncRate(c, r) \/ PostFull(c) \/ PostError(c)
        PROVE  UNCHANGED <<socket, ahead>>
    BY <1>6 DEF AddConnection, RemoveConnection, SetVSyncRate,
       SetHighPriorityVSyncRate, PostFull, PostError, client
  <1>7. ASSUME \/ Loop \/ Collect \/ Discard \/ Enable \/ Sleep \/ Wake
               \/ SoftwareVSync \/ PostDone \/ Again \/ Drop
        PROVE  UNCHANGED <<socket, ahead>>
    BY <1>7 DEF Loop, Collect, Discard, Enable, Sleep, Wake, SoftwareVSync,
       PostDone, Again, Drop, client
  <1>8. ASSUME OnVSyncEvent \/ SpuriousWake \/ Stop \/ StopNotify
               \/ UNCHANGED vars
        PROVE  UNCHANGED <<socket, ahead>>
    BY <1>8 DEF OnVSyncEvent, SpuriousWake, Stop, StopNotify, vars, client
  <1>9. Connections \ added \subseteq Connections
    OBVIOUS
  <1> QED
    BY <1>1, <1>2, <1>3, <1>4, <1>5, <1>6, <1>7, <1>8, <1>9
       DEF Next, Calls, ThreadMain

LEMMA StepKept ==
  TypeOK /\ InHand /\ AheadOK /\ RequestKept /\ [Next]_vars => RequestKept'
  <1> SUFFICES ASSUME TypeOK, InHand, AheadOK, RequestKept, [Next]_vars
               PROVE  RequestKept'
    OBVIOUS
  <1>1. ASSUME NEW c \in Connections \ added, AddConnection(c) PROVE
     RequestKept'
    BY <1>1 DEF AddConnection, TypeOK, RegistryOK, SourceOK, ThreadOK,
       ClientOK, InHand, RequestKept, registry, source, thread, client
  <1>2. ASSUME NEW c \in Connections, RemoveConnection(c) PROVE RequestKept'
    BY <1>2 DEF RemoveConnection, TypeOK, RegistryOK, SourceOK, ThreadOK,
       ClientOK, InHand, RequestKept, registry, source, thread, client
  <1>3. ASSUME NEW c \in Connections, RequestNextVSync(c) PROVE RequestKept'
    <2> SUFFICES ASSUME NEW d \in asked'
                 PROVE  (rate[d] >= 0 \/ d \in conns \cup failed \/ socket[d] > ahead[d])'
      BY DEF RequestKept
    <2>1. d \in Connections /\ rate[d] \in Int /\ UNCHANGED <<conns, failed, socket>>
      BY <1>3, RateValues DEF RequestNextVSync, TypeOK, ClientOK, thread
    <2>2. CASE d = c
      BY <1>3, <2>1, <2>2 DEF RequestNextVSync, TypeOK, RegistryOK
    <2>3. CASE d # c
      <3>1. d \in asked /\ rate'[d] = rate[d] /\ ahead'[d] = ahead[d]
        BY <1>3, <2>1, <2>3 DEF RequestNextVSync, TypeOK, RegistryOK, ClientOK
      <3> QED
        BY <2>1, <3>1 DEF RequestKept
    <2> QED
      BY <2>2, <2>3
  <1>4. ASSUME NEW c \in Connections, NEW r \in Rates \cup {-2, 0},
     SetVSyncRate(c, r) PROVE RequestKept'
    BY <1>4, RateAssumption DEF SetVSyncRate, Notify, TypeOK, RegistryOK,
       SourceOK, ThreadOK, ClientOK, InHand, RequestKept, registry, source,
       thread, client
  <1>5. ASSUME NEW c \in Connections, NEW r \in Rates \cup {-2, 0},
     SetHighPriorityVSyncRate(c, r) PROVE RequestKept'
    BY <1>5 DEF SetHighPriorityVSyncRate, Notify, TypeOK, RegistryOK, SourceOK,
       ThreadOK, ClientOK, InHand, RequestKept, registry, source, thread, client
  <1>6. ASSUME NEW c \in Connections, OnReadable(c) PROVE RequestKept'
    <2> SUFFICES ASSUME NEW d \in asked'
                 PROVE  (rate[d] >= 0 \/ d \in conns \cup failed \/ socket[d] > ahead[d])'
      BY DEF RequestKept
    <2>1. d \in Connections /\ d \in asked /\ UNCHANGED <<rate, conns, failed>>
      BY <1>6 DEF OnReadable, TypeOK, ClientOK, thread, registry
    <2>2. socket[d] > ahead[d] => socket'[d] > ahead'[d]
      BY <1>6, <2>1, BoundAssumption DEF OnReadable, TypeOK, ClientOK
    <2> QED
      BY <2>1, <2>2 DEF RequestKept
  <1>7. ASSUME OnVSyncEvent PROVE RequestKept'
    BY <1>7 DEF OnVSyncEvent, Notify, CountUp, TypeOK, RegistryOK, SourceOK,
       ThreadOK, ClientOK, InHand, RequestKept, registry, source, thread, client
  <1>8. ASSUME Loop PROVE RequestKept'
    BY <1>8 DEF Loop, Goto, TypeOK, RegistryOK, SourceOK, ThreadOK, ClientOK,
       InHand, RequestKept, registry, source, thread, client
  <1>9. ASSUME Collect PROVE RequestKept'
    BY <1>9 DEF Collect, Goto, TypeOK, RegistryOK, SourceOK, ThreadOK,
       ClientOK, InHand, RequestKept, registry, source, thread, client
  <1>10. ASSUME Discard PROVE RequestKept'
    BY <1>10 DEF Discard, Goto, TypeOK, RegistryOK, SourceOK, ThreadOK,
       ClientOK, InHand, RequestKept, registry, source, thread, client
  <1>11. ASSUME Enable PROVE RequestKept'
    BY <1>11 DEF Enable, Goto, EnableVSync, TypeOK, RegistryOK, SourceOK,
       ThreadOK, ClientOK, InHand, RequestKept, registry, source, thread, client
  <1>12. ASSUME Sleep PROVE RequestKept'
    BY <1>12 DEF Sleep, Goto, TypeOK, RegistryOK, SourceOK, ThreadOK, ClientOK,
       InHand, RequestKept, registry, source, thread, client
  <1>13. ASSUME Wake PROVE RequestKept'
    BY <1>13 DEF Wake, Goto, TypeOK, RegistryOK, SourceOK, ThreadOK, ClientOK,
       InHand, RequestKept, registry, source, thread, client
  <1>14. ASSUME SoftwareVSync PROVE RequestKept'
    BY <1>14 DEF SoftwareVSync, Goto, CountUp, TypeOK, RegistryOK, SourceOK,
       ThreadOK, ClientOK, InHand, RequestKept, registry, source, thread, client
  <1>15. ASSUME NEW c \in Connections, PostSent(c) PROVE RequestKept'
    <2> SUFFICES ASSUME NEW d \in asked'
                 PROVE  (rate[d] >= 0 \/ d \in conns \cup failed \/ socket[d] > ahead[d])'
      BY DEF RequestKept
    <2>1. /\ d \in Connections /\ d \in asked
          /\ UNCHANGED <<rate, failed, ahead>> /\ conns' = conns \ {c}
      BY <1>15 DEF PostSent, TypeOK, ClientOK, registry
    <2>2. socket'[d] = IF d = c THEN socket[d] + 1 ELSE socket[d]
      BY <1>15, <2>1 DEF PostSent, TypeOK, ClientOK
    <2>3. ahead[d] \in Int /\ socket[d] \in Int /\ ahead[d] <= socket[d]
      BY <2>1, BoundAssumption DEF AheadOK, TypeOK, ClientOK
    <2> QED
      BY <2>1, <2>2, <2>3 DEF RequestKept
  <1>16. ASSUME NEW c \in Connections, PostFull(c) PROVE RequestKept'
    BY <1>16, BoundAssumption DEF PostFull, Goto, TypeOK, RegistryOK, SourceOK,
       ThreadOK, ClientOK, InHand, RequestKept, registry, source, thread, client
  <1>17. ASSUME NEW c \in Connections, PostInterrupted(c) PROVE RequestKept'
    BY <1>17, BoundAssumption DEF PostInterrupted, Goto, TypeOK, RegistryOK,
       SourceOK, ThreadOK, ClientOK, InHand, RequestKept, registry, source,
       thread, client
  <1>18. ASSUME NEW c \in Connections, PostError(c) PROVE RequestKept'
    BY <1>18 DEF PostError, Goto, TypeOK, RegistryOK, SourceOK, ThreadOK,
       ClientOK, InHand, RequestKept, registry, source, thread, client
  <1>19. ASSUME PostDone PROVE RequestKept'
    BY <1>19 DEF PostDone, Goto, TypeOK, RegistryOK, SourceOK, ThreadOK,
       ClientOK, InHand, RequestKept, registry, source, thread, client
  <1>20. ASSUME Again PROVE RequestKept'
    <2> SUFFICES ASSUME NEW d \in asked'
                 PROVE  (rate[d] >= 0 \/ d \in conns \cup failed \/ socket[d] > ahead[d])'
      BY DEF RequestKept
    <2>1. /\ d \in asked /\ d \in Connections /\ rate[d] \in Int
          /\ UNCHANGED <<conns, socket, ahead>>
      BY <1>20, RateValues DEF Again, TypeOK, ClientOK, client
    <2>2. rate'[d] = IF d \in failed /\ rate[d] < 0 THEN 0 ELSE rate[d]
      BY <1>20, <2>1 DEF Again
    <2> QED
      BY <2>1, <2>2 DEF RequestKept
  <1>21. ASSUME Drop PROVE RequestKept'
    BY <1>21 DEF Drop, Goto, TypeOK, RegistryOK, SourceOK, ThreadOK, ClientOK,
       InHand, RequestKept, registry, source, thread, client
  <1>22. ASSUME SpuriousWake PROVE RequestKept'
    BY <1>22 DEF SpuriousWake, Goto, TypeOK, RegistryOK, SourceOK, ThreadOK,
       ClientOK, InHand, RequestKept, registry, source, thread, client
  <1>23. ASSUME Stop PROVE RequestKept'
    BY <1>23 DEF Stop, TypeOK, RegistryOK, SourceOK, ThreadOK, ClientOK,
       InHand, RequestKept, registry, source, thread, client
  <1>24. ASSUME StopNotify PROVE RequestKept'
    BY <1>24 DEF StopNotify, Notify, TypeOK, RegistryOK, SourceOK, ThreadOK,
       ClientOK, InHand, RequestKept, registry, source, thread, client
  <1>25. ASSUME UNCHANGED vars PROVE RequestKept'
    BY <1>25 DEF vars, TypeOK, RegistryOK, SourceOK, ThreadOK, ClientOK,
       InHand, RequestKept, registry, source, thread, client
  <1> QED
    BY <1>1, <1>2, <1>3, <1>4, <1>5, <1>6, <1>7, <1>8, <1>9, <1>10, <1>11,
       <1>12, <1>13, <1>14, <1>15, <1>16, <1>17, <1>18, <1>19, <1>20, <1>21,
       <1>22, <1>23, <1>24, <1>25 DEF Next, Calls, ThreadMain

\* However calls, vsyncs, posts and EAGAIN interleave, a client that was told OK
\* and still waits has its request pending, taken, or sent.
THEOREM RequestsKept == Spec => []RequestKept
  <1>1. Init => RequestKept /\ AheadOK
    BY DEF Init, RequestKept, AheadOK
  <1> QED
    BY <1>1, InitType, StepType, InitInHand, StepInHand, StepAhead, StepKept, PTL
       DEF Spec

-----------------------------------------------------------------------------
(* No vsync without a request.                                             *)

\* A connection has a rate only if SetVSyncRate gave it one, and a connection
\* that was never added is idle.
RateSource ==
    /\ \A c \in Connections : rate[c] > 0 => c \in unmetered
    /\ \A c \in Connections \ added : rate[c] = -1

LEMMA InitRateSource == Init => RateSource
  BY DEF Init, RateSource

LEMMA StepRateSource ==
  TypeOK /\ InHand /\ RateSource /\ [Next]_vars => RateSource'
  <1> SUFFICES ASSUME TypeOK, InHand, RateSource, [Next]_vars PROVE RateSource'
    OBVIOUS
  <1>1. ASSUME NEW c \in Connections \ added, AddConnection(c) PROVE RateSource'
    BY <1>1 DEF AddConnection, TypeOK, RegistryOK, SourceOK, ThreadOK,
       ClientOK, InHand, RateSource, registry, source, thread, client
  <1>2. ASSUME NEW c \in Connections, RemoveConnection(c) PROVE RateSource'
    BY <1>2 DEF RemoveConnection, TypeOK, RegistryOK, SourceOK, ThreadOK,
       ClientOK, InHand, RateSource, registry, source, thread, client
  <1>3. ASSUME NEW c \in Connections, RequestNextVSync(c) PROVE RateSource'
    BY <1>3 DEF RequestNextVSync, Notify, TypeOK, RegistryOK, SourceOK,
       ThreadOK, ClientOK, InHand, RateSource, registry, source, thread, client
  <1>4. ASSUME NEW c \in Connections, NEW r \in Rates \cup {-2, 0},
     SetVSyncRate(c, r) PROVE RateSource'
    BY <1>4 DEF SetVSyncRate, Notify, TypeOK, RegistryOK, SourceOK, ThreadOK,
       ClientOK, InHand, RateSource, registry, source, thread, client
  <1>5. ASSUME NEW c \in Connections, NEW r \in Rates \cup {-2, 0},
     SetHighPriorityVSyncRate(c, r) PROVE RateSource'
    BY <1>5 DEF SetHighPriorityVSyncRate, Notify, TypeOK, RegistryOK, SourceOK,
       ThreadOK, ClientOK, InHand, RateSource, registry, source, thread, client
  <1>6. ASSUME NEW c \in Connections, OnReadable(c) PROVE RateSource'
    BY <1>6 DEF OnReadable, TypeOK, RegistryOK, SourceOK, ThreadOK, ClientOK,
       InHand, RateSource, registry, source, thread, client
  <1>7. ASSUME OnVSyncEvent PROVE RateSource'
    BY <1>7 DEF OnVSyncEvent, Notify, CountUp, TypeOK, RegistryOK, SourceOK,
       ThreadOK, ClientOK, InHand, RateSource, registry, source, thread, client
  <1>8. ASSUME Loop PROVE RateSource'
    BY <1>8 DEF Loop, Goto, TypeOK, RegistryOK, SourceOK, ThreadOK, ClientOK,
       InHand, RateSource, registry, source, thread, client
  <1>9. ASSUME Collect PROVE RateSource'
    BY <1>9, RateAssumption DEF Collect, Goto, TypeOK, RegistryOK, SourceOK,
       ThreadOK, ClientOK, InHand, RateSource, registry, source, thread,
       client, Waiters
  <1>10. ASSUME Discard PROVE RateSource'
    BY <1>10 DEF Discard, Goto, TypeOK, RegistryOK, SourceOK, ThreadOK,
       ClientOK, InHand, RateSource, registry, source, thread, client
  <1>11. ASSUME Enable PROVE RateSource'
    BY <1>11 DEF Enable, Goto, EnableVSync, TypeOK, RegistryOK, SourceOK,
       ThreadOK, ClientOK, InHand, RateSource, registry, source, thread, client
  <1>12. ASSUME Sleep PROVE RateSource'
    BY <1>12 DEF Sleep, Goto, TypeOK, RegistryOK, SourceOK, ThreadOK, ClientOK,
       InHand, RateSource, registry, source, thread, client
  <1>13. ASSUME Wake PROVE RateSource'
    BY <1>13 DEF Wake, Goto, TypeOK, RegistryOK, SourceOK, ThreadOK, ClientOK,
       InHand, RateSource, registry, source, thread, client
  <1>14. ASSUME SoftwareVSync PROVE RateSource'
    BY <1>14 DEF SoftwareVSync, Goto, CountUp, TypeOK, RegistryOK, SourceOK,
       ThreadOK, ClientOK, InHand, RateSource, registry, source, thread, client
  <1>15. ASSUME NEW c \in Connections, PostSent(c) PROVE RateSource'
    BY <1>15 DEF PostSent, TypeOK, RegistryOK, SourceOK, ThreadOK, ClientOK,
       InHand, RateSource, registry, source, thread, client
  <1>16. ASSUME NEW c \in Connections, PostFull(c) PROVE RateSource'
    BY <1>16 DEF PostFull, Goto, TypeOK, RegistryOK, SourceOK, ThreadOK,
       ClientOK, InHand, RateSource, registry, source, thread, client
  <1>17. ASSUME NEW c \in Connections, PostInterrupted(c) PROVE RateSource'
    BY <1>17 DEF PostInterrupted, Goto, TypeOK, RegistryOK, SourceOK, ThreadOK,
       ClientOK, InHand, RateSource, registry, source, thread, client
  <1>18. ASSUME NEW c \in Connections, PostError(c) PROVE RateSource'
    BY <1>18 DEF PostError, Goto, TypeOK, RegistryOK, SourceOK, ThreadOK,
       ClientOK, InHand, RateSource, registry, source, thread, client
  <1>19. ASSUME PostDone PROVE RateSource'
    BY <1>19 DEF PostDone, Goto, TypeOK, RegistryOK, SourceOK, ThreadOK,
       ClientOK, InHand, RateSource, registry, source, thread, client
  <1>20. ASSUME Again PROVE RateSource'
    BY <1>20, RateAssumption DEF Again, Goto, TypeOK, RegistryOK, SourceOK,
       ThreadOK, ClientOK, InHand, RateSource, registry, source, thread, client
  <1>21. ASSUME Drop PROVE RateSource'
    BY <1>21 DEF Drop, Goto, TypeOK, RegistryOK, SourceOK, ThreadOK, ClientOK,
       InHand, RateSource, registry, source, thread, client
  <1>22. ASSUME SpuriousWake PROVE RateSource'
    BY <1>22 DEF SpuriousWake, Goto, TypeOK, RegistryOK, SourceOK, ThreadOK,
       ClientOK, InHand, RateSource, registry, source, thread, client
  <1>23. ASSUME Stop PROVE RateSource'
    BY <1>23 DEF Stop, TypeOK, RegistryOK, SourceOK, ThreadOK, ClientOK,
       InHand, RateSource, registry, source, thread, client
  <1>24. ASSUME StopNotify PROVE RateSource'
    BY <1>24 DEF StopNotify, Notify, TypeOK, RegistryOK, SourceOK, ThreadOK,
       ClientOK, InHand, RateSource, registry, source, thread, client
  <1>25. ASSUME UNCHANGED vars PROVE RateSource'
    BY <1>25 DEF vars, TypeOK, RegistryOK, SourceOK, ThreadOK, ClientOK,
       InHand, RateSource, registry, source, thread, client
  <1> QED
    BY <1>1, <1>2, <1>3, <1>4, <1>5, <1>6, <1>7, <1>8, <1>9, <1>10, <1>11,
       <1>12, <1>13, <1>14, <1>15, <1>16, <1>17, <1>18, <1>19, <1>20, <1>21,
       <1>22, <1>23, <1>24, <1>25 DEF Next, Calls, ThreadMain

LEMMA StepUnasked ==
  TypeOK /\ InHand /\ RateSource /\ NoUnaskedVSync /\ [Next]_vars => NoUnaskedVSync'
  <1> SUFFICES ASSUME TypeOK, InHand, RateSource, NoUnaskedVSync, [Next]_vars
               PROVE  NoUnaskedVSync'
    OBVIOUS
  <1>1. ASSUME NEW c \in Connections \ added, AddConnection(c) PROVE
     NoUnaskedVSync'
    BY <1>1, RateAssumption, BoundAssumption DEF AddConnection, TypeOK,
       RegistryOK, SourceOK, ThreadOK, ClientOK, InHand, RateSource,
       NoUnaskedVSync, Pending, registry, source, thread, client
  <1>2. ASSUME NEW c \in Connections, RemoveConnection(c) PROVE NoUnaskedVSync'
    BY <1>2, RateAssumption, BoundAssumption DEF RemoveConnection, TypeOK,
       RegistryOK, SourceOK, ThreadOK, ClientOK, InHand, RateSource,
       NoUnaskedVSync, Pending, registry, source, thread, client
  <1>3. ASSUME NEW c \in Connections, RequestNextVSync(c) PROVE NoUnaskedVSync'
    BY <1>3, RateAssumption, BoundAssumption DEF RequestNextVSync, Notify,
       TypeOK, RegistryOK, SourceOK, ThreadOK, ClientOK, InHand, RateSource,
       NoUnaskedVSync, Pending, registry, source, thread, client
  <1>4. ASSUME NEW c \in Connections, NEW r \in Rates \cup {-2, 0},
     SetVSyncRate(c, r) PROVE NoUnaskedVSync'
    BY <1>4, RateAssumption, BoundAssumption DEF SetVSyncRate, Notify, TypeOK,
       RegistryOK, SourceOK, ThreadOK, ClientOK, InHand, RateSource,
       NoUnaskedVSync, Pending, registry, source, thread, client
  <1>5. ASSUME NEW c \in Connections, NEW r \in Rates \cup {-2, 0},
     SetHighPriorityVSyncRate(c, r) PROVE NoUnaskedVSync'
    BY <1>5, RateAssumption, BoundAssumption DEF SetHighPriorityVSyncRate,
       Notify, TypeOK, RegistryOK, SourceOK, ThreadOK, ClientOK, InHand,
       RateSource, NoUnaskedVSync, Pending, registry, source, thread, client
  <1>6. ASSUME NEW c \in Connections, OnReadable(c) PROVE NoUnaskedVSync'
    BY <1>6, RateAssumption, BoundAssumption DEF OnReadable, TypeOK,
       RegistryOK, SourceOK, ThreadOK, ClientOK, InHand, RateSource,
       NoUnaskedVSync, Pending, registry, source, thread, client
  <1>7. ASSUME OnVSyncEvent PROVE NoUnaskedVSync'
    BY <1>7, RateAssumption, BoundAssumption DEF OnVSyncEvent, Notify, CountUp,
       TypeOK, RegistryOK, SourceOK, ThreadOK, ClientOK, InHand, RateSource,
       NoUnaskedVSync, Pending, registry, source, thread, client
  <1>8. ASSUME Loop PROVE NoUnaskedVSync'
    BY <1>8, RateAssumption, BoundAssumption DEF Loop, Goto, TypeOK,
       RegistryOK, SourceOK, ThreadOK, ClientOK, InHand, RateSource,
       NoUnaskedVSync, Pending, registry, source, thread, client
  <1>9. ASSUME Collect PROVE NoUnaskedVSync'
    <2> SUFFICES ASSUME NEW c \in Connections \ unmetered'
                 PROVE  (Pending(c) + socket[c] <= owed[c])'
      BY DEF NoUnaskedVSync
    <2>1. /\ c \in Connections \ unmetered /\ socket' = socket /\ owed' = owed
          /\ rate[c] \in {-1, 0} /\ conns = {} /\ failed = {} /\ failed' = {}
      BY <1>9, RateValues DEF Collect, client, RateSource, InHand, TypeOK
    <2>2. rate'[c] = (IF c \in Waiters /\ rate[c] = 0 THEN -1 ELSE rate[c])
      BY <1>9 DEF Collect
    <2>3. conns' = Waiters /\ (c \in Waiters => rate[c] = 0)
      BY <1>9, <2>1, RateAssumption DEF Collect, Waiters, Due, EffectiveRate
    <2>4. Pending(c) + socket[c] <= owed[c]
      BY <2>1 DEF NoUnaskedVSync
    <2>5. Pending(c)' = Pending(c)
      BY <2>1, <2>2, <2>3 DEF Pending
    <2> QED
      BY <2>1, <2>4, <2>5
  <1>10. ASSUME Discard PROVE NoUnaskedVSync'
    BY <1>10, RateAssumption, BoundAssumption DEF Discard, Goto, TypeOK,
       RegistryOK, SourceOK, ThreadOK, ClientOK, InHand, RateSource,
       NoUnaskedVSync, Pending, registry, source, thread, client
  <1>11. ASSUME Enable PROVE NoUnaskedVSync'
    BY <1>11, RateAssumption, BoundAssumption DEF Enable, Goto, EnableVSync,
       TypeOK, RegistryOK, SourceOK, ThreadOK, ClientOK, InHand, RateSource,
       NoUnaskedVSync, Pending, registry, source, thread, client
  <1>12. ASSUME Sleep PROVE NoUnaskedVSync'
    BY <1>12, RateAssumption, BoundAssumption DEF Sleep, Goto, TypeOK,
       RegistryOK, SourceOK, ThreadOK, ClientOK, InHand, RateSource,
       NoUnaskedVSync, Pending, registry, source, thread, client
  <1>13. ASSUME Wake PROVE NoUnaskedVSync'
    BY <1>13, RateAssumption, BoundAssumption DEF Wake, Goto, TypeOK,
       RegistryOK, SourceOK, ThreadOK, ClientOK, InHand, RateSource,
       NoUnaskedVSync, Pending, registry, source, thread, client
  <1>14. ASSUME SoftwareVSync PROVE NoUnaskedVSync'
    BY <1>14, RateAssumption, BoundAssumption DEF SoftwareVSync, Goto, CountUp,
       TypeOK, RegistryOK, SourceOK, ThreadOK, ClientOK, InHand, RateSource,
       NoUnaskedVSync, Pending, registry, source, thread, client
  <1>15. ASSUME NEW c \in Connections, PostSent(c) PROVE NoUnaskedVSync'
    BY <1>15, RateAssumption, BoundAssumption DEF PostSent, TypeOK, RegistryOK,
       SourceOK, ThreadOK, ClientOK, InHand, RateSource, NoUnaskedVSync,
       Pending, registry, source, thread, client
  <1>16. ASSUME NEW c \in Connections, PostFull(c) PROVE NoUnaskedVSync'
    BY <1>16, RateAssumption, BoundAssumption DEF PostFull, Goto, TypeOK,
       RegistryOK, SourceOK, ThreadOK, ClientOK, InHand, RateSource,
       NoUnaskedVSync, Pending, registry, source, thread, client
  <1>17. ASSUME NEW c \in Connections, PostInterrupted(c) PROVE NoUnaskedVSync'
    BY <1>17, RateAssumption, BoundAssumption DEF PostInterrupted, Goto,
       TypeOK, RegistryOK, SourceOK, ThreadOK, ClientOK, InHand, RateSource,
       NoUnaskedVSync, Pending, registry, source, thread, client
  <1>18. ASSUME NEW c \in Connections, PostError(c) PROVE NoUnaskedVSync'
    BY <1>18, RateAssumption, BoundAssumption DEF PostError, Goto, TypeOK,
       RegistryOK, SourceOK, ThreadOK, ClientOK, InHand, RateSource,
       NoUnaskedVSync, Pending, registry, source, thread, client
  <1>19. ASSUME PostDone PROVE NoUnaskedVSync'
    BY <1>19, RateAssumption, BoundAssumption DEF PostDone, Goto, TypeOK,
       RegistryOK, SourceOK, ThreadOK, ClientOK, InHand, RateSource,
       NoUnaskedVSync, Pending, registry, source, thread, client
  <1>20. ASSUME Again PROVE NoUnaskedVSync'
    BY <1>20, RateAssumption, BoundAssumption DEF Again, Goto, TypeOK,
       RegistryOK, SourceOK, ThreadOK, ClientOK, InHand, RateSource,
       NoUnaskedVSync, Pending, registry, source, thread, client
  <1>21. ASSUME Drop PROVE NoUnaskedVSync'
    BY <1>21, RateAssumption, BoundAssumption DEF Drop, Goto, TypeOK,
       RegistryOK, SourceOK, ThreadOK, ClientOK, InHand, RateSource,
       NoUnaskedVSync, Pending, registry, source, thread, client
  <1>22. ASSUME SpuriousWake PROVE NoUnaskedVSync'
    BY <1>22, RateAssumption, BoundAssumption DEF SpuriousWake, Goto, TypeOK,
       RegistryOK, SourceOK, ThreadOK, ClientOK, InHand, RateSource,
       NoUnaskedVSync, Pending, registry, source, thread, client
  <1>23. ASSUME Stop PROVE NoUnaskedVSync'
    BY <1>23, RateAssumption, BoundAssumption DEF Stop, TypeOK, RegistryOK,
       SourceOK, ThreadOK, ClientOK, InHand, RateSource, NoUnaskedVSync,
       Pending, registry, source, thread, client
  <1>24. ASSUME StopNotify PROVE NoUnaskedVSync'
    BY <1>24, RateAssumption, BoundAssumption DEF StopNotify, Notify, TypeOK,
       RegistryOK, SourceOK, ThreadOK, ClientOK, InHand, RateSource,
       NoUnaskedVSync, Pending, registry, source, thread, client
  <1>25. ASSUME UNCHANGED vars PROVE NoUnaskedVSync'
    BY <1>25 DEF vars, TypeOK, RegistryOK, SourceOK, ThreadOK, ClientOK,
       InHand, RateSource, NoUnaskedVSync, Pending, registry, source, thread,
       client
  <1> QED
    BY <1>1, <1>2, <1>3, <1>4, <1>5, <1>6, <1>7, <1>8, <1>9, <1>10, <1>11,
       <1>12, <1>13, <1>14, <1>15, <1>16, <1>17, <1>18, <1>19, <1>20, <1>21,
       <1>22, <1>23, <1>24, <1>25 DEF Next, Calls, ThreadMain

\* A client that set no rate, and none of whose sends was interrupted, never gets
\* more vsyncs than it asked for.
THEOREM NothingUnasked == Spec => []NoUnaskedVSync
  <1>1. Init => NoUnaskedVSync
    BY DEF Init, NoUnaskedVSync, Pending
  <1> QED
    BY <1>1, InitType, StepType, InitInHand, StepInHand, InitRateSource,
       StepRateSource, StepUnasked, PTL DEF Spec

-----------------------------------------------------------------------------
(* The thread does not sleep on a request.                                 *)

\* The generator is listening exactly when vsync is enabled, and with a
\* controller no vsync is counted before that.
SourceOn ==
    /\ listening = vsyncEnabled
    /\ HasController /\ (vsyncCount # 0 \/ pc = "softWait") => vsyncEnabled

LEMMA InitSourceOn == Init => SourceOn
  BY DEF Init, SourceOn

LEMMA StepSourceOn == TypeOK /\ SourceOn /\ [Next]_vars => SourceOn'
  <1> SUFFICES ASSUME TypeOK, SourceOn, [Next]_vars PROVE SourceOn'
    OBVIOUS
  <1>1. ASSUME NEW c \in Connections \ added, AddConnection(c) PROVE SourceOn'
    BY <1>1 DEF AddConnection, TypeOK, RegistryOK, SourceOK, ThreadOK,
       ClientOK, SourceOn, registry, source, thread, client
  <1>2. ASSUME NEW c \in Connections, RemoveConnection(c) PROVE SourceOn'
    BY <1>2 DEF RemoveConnection, TypeOK, RegistryOK, SourceOK, ThreadOK,
       ClientOK, SourceOn, registry, source, thread, client
  <1>3. ASSUME NEW c \in Connections, RequestNextVSync(c) PROVE SourceOn'
    BY <1>3 DEF RequestNextVSync, Notify, TypeOK, RegistryOK, SourceOK,
       ThreadOK, ClientOK, SourceOn, registry, source, thread, client
  <1>4. ASSUME NEW c \in Connections, NEW r \in Rates \cup {-2, 0},
     SetVSyncRate(c, r) PROVE SourceOn'
    BY <1>4 DEF SetVSyncRate, Notify, TypeOK, RegistryOK, SourceOK, ThreadOK,
       ClientOK, SourceOn, registry, source, thread, client
  <1>5. ASSUME NEW c \in Connections, NEW r \in Rates \cup {-2, 0},
     SetHighPriorityVSyncRate(c, r) PROVE SourceOn'
    BY <1>5 DEF SetHighPriorityVSyncRate, Notify, TypeOK, RegistryOK, SourceOK,
       ThreadOK, ClientOK, SourceOn, registry, source, thread, client
  <1>6. ASSUME NEW c \in Connections, OnReadable(c) PROVE SourceOn'
    BY <1>6 DEF OnReadable, TypeOK, RegistryOK, SourceOK, ThreadOK, ClientOK,
       SourceOn, registry, source, thread, client
  <1>7. ASSUME OnVSyncEvent PROVE SourceOn'
    BY <1>7 DEF OnVSyncEvent, Notify, CountUp, TypeOK, RegistryOK, SourceOK,
       ThreadOK, ClientOK, SourceOn, registry, source, thread, client
  <1>8. ASSUME Loop PROVE SourceOn'
    BY <1>8 DEF Loop, Goto, TypeOK, RegistryOK, SourceOK, ThreadOK, ClientOK,
       SourceOn, registry, source, thread, client
  <1>9. ASSUME Collect PROVE SourceOn'
    BY <1>9 DEF Collect, Goto, TypeOK, RegistryOK, SourceOK, ThreadOK,
       ClientOK, SourceOn, registry, source, thread, client
  <1>10. ASSUME Discard PROVE SourceOn'
    BY <1>10 DEF Discard, Goto, TypeOK, RegistryOK, SourceOK, ThreadOK,
       ClientOK, SourceOn, registry, source, thread, client
  <1>11. ASSUME Enable PROVE SourceOn'
    BY <1>11 DEF Enable, Goto, EnableVSync, TypeOK, RegistryOK, SourceOK,
       ThreadOK, ClientOK, SourceOn, registry, source, thread, client
  <1>12. ASSUME Sleep PROVE SourceOn'
    BY <1>12 DEF Sleep, Goto, TypeOK, RegistryOK, SourceOK, ThreadOK, ClientOK,
       SourceOn, registry, source, thread, client
  <1>13. ASSUME Wake PROVE SourceOn'
    BY <1>13 DEF Wake, Goto, TypeOK, RegistryOK, SourceOK, ThreadOK, ClientOK,
       SourceOn, registry, source, thread, client
  <1>14. ASSUME SoftwareVSync PROVE SourceOn'
    BY <1>14 DEF SoftwareVSync, Goto, CountUp, TypeOK, RegistryOK, SourceOK,
       ThreadOK, ClientOK, SourceOn, registry, source, thread, client
  <1>15. ASSUME NEW c \in Connections, PostSent(c) PROVE SourceOn'
    BY <1>15 DEF PostSent, TypeOK, RegistryOK, SourceOK, ThreadOK, ClientOK,
       SourceOn, registry, source, thread, client
  <1>16. ASSUME NEW c \in Connections, PostFull(c) PROVE SourceOn'
    BY <1>16 DEF PostFull, Goto, TypeOK, RegistryOK, SourceOK, ThreadOK,
       ClientOK, SourceOn, registry, source, thread, client
  <1>17. ASSUME NEW c \in Connections, PostInterrupted(c) PROVE SourceOn'
    BY <1>17 DEF PostInterrupted, Goto, TypeOK, RegistryOK, SourceOK, ThreadOK,
       ClientOK, SourceOn, registry, source, thread, client
  <1>18. ASSUME NEW c \in Connections, PostError(c) PROVE SourceOn'
    BY <1>18 DEF PostError, Goto, TypeOK, RegistryOK, SourceOK, ThreadOK,
       ClientOK, SourceOn, registry, source, thread, client
  <1>19. ASSUME PostDone PROVE SourceOn'
    BY <1>19 DEF PostDone, Goto, TypeOK, RegistryOK, SourceOK, ThreadOK,
       ClientOK, SourceOn, registry, source, thread, client
  <1>20. ASSUME Again PROVE SourceOn'
    BY <1>20 DEF Again, Goto, TypeOK, RegistryOK, SourceOK, ThreadOK, ClientOK,
       SourceOn, registry, source, thread, client
  <1>21. ASSUME Drop PROVE SourceOn'
    BY <1>21 DEF Drop, Goto, TypeOK, RegistryOK, SourceOK, ThreadOK, ClientOK,
       SourceOn, registry, source, thread, client
  <1>22. ASSUME SpuriousWake PROVE SourceOn'
    BY <1>22 DEF SpuriousWake, Goto, TypeOK, RegistryOK, SourceOK, ThreadOK,
       ClientOK, SourceOn, registry, source, thread, client
  <1>23. ASSUME Stop PROVE SourceOn'
    BY <1>23 DEF Stop, TypeOK, RegistryOK, SourceOK, ThreadOK, ClientOK,
       SourceOn, registry, source, thread, client
  <1>24. ASSUME StopNotify PROVE SourceOn'
    BY <1>24 DEF StopNotify, Notify, TypeOK, RegistryOK, SourceOK, ThreadOK,
       ClientOK, SourceOn, registry, source, thread, client
  <1>25. ASSUME UNCHANGED vars PROVE SourceOn'
    BY <1>25 DEF vars, TypeOK, RegistryOK, SourceOK, ThreadOK, ClientOK,
       SourceOn, registry, source, thread, client
  <1> QED
    BY <1>1, <1>2, <1>3, <1>4, <1>5, <1>6, <1>7, <1>8, <1>9, <1>10, <1>11,
       <1>12, <1>13, <1>14, <1>15, <1>16, <1>17, <1>18, <1>19, <1>20, <1>21,
       <1>22, <1>23, <1>24, <1>25 DEF Next, Calls, ThreadMain

LEMMA ZeroMod == ASSUME NEW r \in Nat \ {0} PROVE 0 % r = 0
  OBVIOUS

LEMMA StepSleep ==
  TypeOK /\ RateSource /\ SourceOn /\ NoSleepOnRequest /\ [Next]_vars
    => NoSleepOnRequest'
  <1> SUFFICES ASSUME TypeOK, RateSource, SourceOn, NoSleepOnRequest, [Next]_vars
               PROVE  NoSleepOnRequest'
    OBVIOUS
  <1>1. ASSUME NEW c \in Connections \ added, AddConnection(c) PROVE
     NoSleepOnRequest'
    BY <1>1, RateAssumption DEF AddConnection, TypeOK, RegistryOK, SourceOK,
       ThreadOK, ClientOK, RateSource, NoSleepOnRequest, Due, EffectiveRate,
       registry, source, thread, client
  <1>2. ASSUME NEW c \in Connections, RemoveConnection(c) PROVE
     NoSleepOnRequest'
    BY <1>2, RateAssumption DEF RemoveConnection, TypeOK, RegistryOK, SourceOK,
       ThreadOK, ClientOK, RateSource, NoSleepOnRequest, Due, EffectiveRate,
       registry, source, thread, client
  <1>3. ASSUME NEW c \in Connections, RequestNextVSync(c) PROVE
     NoSleepOnRequest'
    BY <1>3, RateAssumption DEF RequestNextVSync, Notify, TypeOK, RegistryOK,
       SourceOK, ThreadOK, ClientOK, RateSource, NoSleepOnRequest, Due,
       EffectiveRate, registry, source, thread, client
  <1>4. ASSUME NEW c \in Connections, NEW r \in Rates \cup {-2, 0},
     SetVSyncRate(c, r) PROVE NoSleepOnRequest'
    BY <1>4, RateAssumption DEF SetVSyncRate, Notify, TypeOK, RegistryOK,
       SourceOK, ThreadOK, ClientOK, RateSource, NoSleepOnRequest, Due,
       EffectiveRate, registry, source, thread, client
  <1>5. ASSUME NEW c \in Connections, NEW r \in Rates \cup {-2, 0},
     SetHighPriorityVSyncRate(c, r) PROVE NoSleepOnRequest'
    BY <1>5, RateAssumption DEF SetHighPriorityVSyncRate, Notify, TypeOK,
       RegistryOK, SourceOK, ThreadOK, ClientOK, RateSource, NoSleepOnRequest,
       Due, EffectiveRate, registry, source, thread, client
  <1>6. ASSUME NEW c \in Connections, OnReadable(c) PROVE NoSleepOnRequest'
    BY <1>6, RateAssumption DEF OnReadable, TypeOK, RegistryOK, SourceOK,
       ThreadOK, ClientOK, RateSource, NoSleepOnRequest, Due, EffectiveRate,
       registry, source, thread, client
  <1>7. ASSUME OnVSyncEvent PROVE NoSleepOnRequest'
    BY <1>7, RateAssumption DEF OnVSyncEvent, Notify, CountUp, TypeOK,
       RegistryOK, SourceOK, ThreadOK, ClientOK, RateSource, NoSleepOnRequest,
       Due, EffectiveRate, registry, source, thread, client
  <1>8. ASSUME Loop PROVE NoSleepOnRequest'
    BY <1>8, RateAssumption DEF Loop, Goto, TypeOK, RegistryOK, SourceOK,
       ThreadOK, ClientOK, RateSource, NoSleepOnRequest, Due, EffectiveRate,
       registry, source, thread, client
  <1>9. ASSUME Collect PROVE NoSleepOnRequest'
    BY <1>9, RateAssumption DEF Collect, Goto, TypeOK, RegistryOK, SourceOK,
       ThreadOK, ClientOK, RateSource, NoSleepOnRequest, Due, EffectiveRate,
       registry, source, thread, client
  <1>10. ASSUME Discard PROVE NoSleepOnRequest'
    BY <1>10, RateAssumption DEF Discard, Goto, TypeOK, RegistryOK, SourceOK,
       ThreadOK, ClientOK, RateSource, NoSleepOnRequest, Due, EffectiveRate,
       registry, source, thread, client
  <1>11. ASSUME Enable PROVE NoSleepOnRequest'
    BY <1>11, RateAssumption DEF Enable, Goto, EnableVSync, TypeOK, RegistryOK,
       SourceOK, ThreadOK, ClientOK, RateSource, NoSleepOnRequest, Due,
       EffectiveRate, registry, source, thread, client
  <1>12. ASSUME Sleep PROVE NoSleepOnRequest'
    <2>1. CASE vsyncEnabled
      BY <1>12, <2>1 DEF Sleep, Goto, SourceOn, NoSleepOnRequest, source
    <2>2. CASE ~vsyncEnabled
      <3>1. \A c \in connections : ~Due(c)
        BY <1>12, <2>2 DEF Sleep, Waiters
      <3>2. ASSUME HasController, NEW c \in connections, rate[c] >= 0
            PROVE  Due(c)
        <4>1. vsyncCount = 0 /\ c \in Connections
          BY <2>2, <3>2 DEF SourceOn, TypeOK, RegistryOK
        <4>2. EffectiveRate(c) = 0 \/ EffectiveRate(c) \in Nat \ {0}
          BY <3>2, <4>1, RateValues DEF EffectiveRate, TypeOK
        <4> QED
          BY <3>2, <4>1, <4>2, ZeroMod DEF Due
      <3>3. UNCHANGED <<event, connections, rate, listening>> /\ ~event
        BY <1>12 DEF Sleep, registry, source
      <3>4. \A c \in connections' : ~(Due(c))'
        BY <3>1, <1>12 DEF Due, EffectiveRate, Sleep, registry, source
      <3> QED
        BY <3>1, <3>2, <3>3, <3>4 DEF NoSleepOnRequest
    <2> QED
      BY <2>1, <2>2 DEF TypeOK
  <1>13. ASSUME Wake PROVE NoSleepOnRequest'
    BY <1>13, RateAssumption DEF Wake, Goto, TypeOK, RegistryOK, SourceOK,
       ThreadOK, ClientOK, RateSource, NoSleepOnRequest, Due, EffectiveRate,
       registry, source, thread, client
  <1>14. ASSUME SoftwareVSync PROVE NoSleepOnRequest'
    BY <1>14, RateAssumption DEF SoftwareVSync, Goto, CountUp, TypeOK,
       RegistryOK, SourceOK, ThreadOK, ClientOK, RateSource, NoSleepOnRequest,
       Due, EffectiveRate, registry, source, thread, client
  <1>15. ASSUME NEW c \in Connections, PostSent(c) PROVE NoSleepOnRequest'
    BY <1>15, RateAssumption DEF PostSent, TypeOK, RegistryOK, SourceOK,
       ThreadOK, ClientOK, RateSource, NoSleepOnRequest, Due, EffectiveRate,
       registry, source, thread, client
  <1>16. ASSUME NEW c \in Connections, PostFull(c) PROVE NoSleepOnRequest'
    BY <1>16, RateAssumption DEF PostFull, Goto, TypeOK, RegistryOK, SourceOK,
       ThreadOK, ClientOK, RateSource, NoSleepOnRequest, Due, EffectiveRate,
       registry, source, thread, client
  <1>17. ASSUME NEW c \in Connections, PostInterrupted(c) PROVE
     NoSleepOnRequest'
    BY <1>17, RateAssumption DEF PostInterrupted, Goto, TypeOK, RegistryOK,
       SourceOK, ThreadOK, ClientOK, RateSource, NoSleepOnRequest, Due,
       EffectiveRate, registry, source, thread, client
  <1>18. ASSUME NEW c \in Connections, PostError(c) PROVE NoSleepOnRequest'
    BY <1>18, RateAssumption DEF PostError, Goto, TypeOK, RegistryOK, SourceOK,
       ThreadOK, ClientOK, RateSource, NoSleepOnRequest, Due, EffectiveRate,
       registry, source, thread, client
  <1>19. ASSUME PostDone PROVE NoSleepOnRequest'
    BY <1>19, RateAssumption DEF PostDone, Goto, TypeOK, RegistryOK, SourceOK,
       ThreadOK, ClientOK, RateSource, NoSleepOnRequest, Due, EffectiveRate,
       registry, source, thread, client
  <1>20. ASSUME Again PROVE NoSleepOnRequest'
    BY <1>20, RateAssumption DEF Again, Goto, TypeOK, RegistryOK, SourceOK,
       ThreadOK, ClientOK, RateSource, NoSleepOnRequest, Due, EffectiveRate,
       registry, source, thread, client
  <1>21. ASSUME Drop PROVE NoSleepOnRequest'
    BY <1>21, RateAssumption DEF Drop, Goto, TypeOK, RegistryOK, SourceOK,
       ThreadOK, ClientOK, RateSource, NoSleepOnRequest, Due, EffectiveRate,
       registry, source, thread, client
  <1>22. ASSUME SpuriousWake PROVE NoSleepOnRequest'
    BY <1>22, RateAssumption DEF SpuriousWake, Goto, TypeOK, RegistryOK,
       SourceOK, ThreadOK, ClientOK, RateSource, NoSleepOnRequest, Due,
       EffectiveRate, registry, source, thread, client
  <1>23. ASSUME Stop PROVE NoSleepOnRequest'
    BY <1>23, RateAssumption DEF Stop, TypeOK, RegistryOK, SourceOK, ThreadOK,
       ClientOK, RateSource, NoSleepOnRequest, Due, EffectiveRate, registry,
       source, thread, client
  <1>24. ASSUME StopNotify PROVE NoSleepOnRequest'
    BY <1>24, RateAssumption DEF StopNotify, Notify, TypeOK, RegistryOK,
       SourceOK, ThreadOK, ClientOK, RateSource, NoSleepOnRequest, Due,
       EffectiveRate, registry, source, thread, client
  <1>25. ASSUME UNCHANGED vars PROVE NoSleepOnRequest'
    BY <1>25 DEF vars, TypeOK, RegistryOK, SourceOK, ThreadOK, ClientOK,
       RateSource, NoSleepOnRequest, Due, EffectiveRate, registry, source,
       thread, client
  <1> QED
    BY <1>1, <1>2, <1>3, <1>4, <1>5, <1>6, <1>7, <1>8, <1>9, <1>10, <1>11,
       <1>12, <1>13, <1>14, <1>15, <1>16, <1>17, <1>18, <1>19, <1>20, <1>21,
       <1>22, <1>23, <1>24, <1>25 DEF Next, Calls, ThreadMain

\* The thread never sleeps without a timeout on a vsync that has come, nor while
\* a connection wants one that nobody will make.
THEOREM NeverSleepsOnRequest == Spec => []NoSleepOnRequest
  <1>1. Init => NoSleepOnRequest
    BY DEF Init, NoSleepOnRequest
  <1> QED
    BY <1>1, InitType, StepType, InitInHand, StepInHand, InitRateSource,
       StepRateSource, InitSourceOn, StepSourceOn, StepSleep, PTL DEF Spec
=============================================================================
