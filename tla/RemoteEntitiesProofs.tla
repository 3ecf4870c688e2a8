------------------------ MODULE RemoteEntitiesProofs ------------------------
(***************************************************************************)
(* Proofs about RemoteEntities, for every set of uids, bridges, topics and *)
(* handlers.                                                               *)
(***************************************************************************)
EXTENDS RemoteEntities, FiniteSetTheorems, TLAPS

(***************************************************************************)
(* Types                                                                   *)
(***************************************************************************)

\* What the type invariant says of the frame of one slot, for the actions
\* that resume it.
LEMMA FrameTypes ==
  ASSUME TypeOK, NEW s \in Slot
  PROVE  /\ frame[s].kind = "subscribe" =>
              frame[s].uid \in Uid /\ frame[s].st \in StateTopic
         /\ frame[s].kind = "remove" =>
              frame[s].uid \in Uid /\ frame[s].added \in BOOLEAN
         /\ frame[s].kind = "removeMeta" =>
              frame[s].bridge \in Bridge /\ frame[s].added \in BOOLEAN
  BY DEF TypeOK, Frame

\* The frames the actions build are well typed.
LEMMA NewFrames ==
  /\ Idle \in Frame
  /\ \A u \in Uid, st \in StateTopic :
       [kind |-> "subscribe", uid |-> u, st |-> st] \in Frame
  /\ \A u \in Uid, a \in BOOLEAN :
       [kind |-> "remove", uid |-> u, added |-> a] \in Frame
  /\ \A b \in Bridge, a \in BOOLEAN :
       [kind |-> "removeMeta", bridge |-> b, added |-> a] \in Frame
  BY DEF Idle, Frame

\* Items of a device are items.
LEMMA DeviceItemsType ==
  ASSUME TypeOK, NEW b
  PROVE  DeviceItems(b) \subseteq Item
  BY DEF TypeOK, DeviceItems

\* StartRemoval preserves the types of the variables it writes.
LEMMA StartRemovalType ==
  ASSUME TypeOK, NEW s \in Slot, NEW t \in Topic, StartRemoval(s, t)
  PROVE  /\ topicUid' \in [Topic -> Uid \cup {None}]
         /\ unsubs' \in [Uid -> StateTopic \cup {None}]
         /\ entities' \in [Uid -> {"absent", "added"} \cup Handler]
         /\ announced' \in [Uid -> StateTopic \cup {None}]
         /\ frame' \in [Slot -> Frame]
  <1>1. topicUid[t] \in Uid
    BY DEF TypeOK, StartRemoval
  <1>2. [kind |-> "remove", uid |-> topicUid[t],
         added |-> entities[topicUid[t]] = "added"] \in Frame
    BY <1>1 DEF Frame
  <1>3. frame' \in [Slot -> Frame]
    BY <1>2 DEF TypeOK, StartRemoval
  <1> QED BY <1>1, <1>3 DEF TypeOK, StartRemoval

\* SettleBridge preserves the types of the variables it writes.
LEMMA SettleBridgeType ==
  ASSUME TypeOK, NEW s \in Slot, frame[s].kind = "remove", SettleBridge(s)
  PROVE  /\ entityBridge' \in [Uid -> Bridge \cup {None}]
         /\ counts' \in [Bridge -> Nat]
         /\ metas' \in [Bridge -> {"absent", "added", "failed"}]
         /\ frame' \in [Slot -> Frame]
  <1> DEFINE u == frame[s].uid
             b == entityBridge[u]
  <1>1. u \in Uid
    BY FrameTypes
  <1>2. b \in Bridge \cup {None}
    BY <1>1 DEF TypeOK
  <1>3. entityBridge' \in [Uid -> Bridge \cup {None}]
    BY <1>1 DEF TypeOK, SettleBridge
  <1>4. CASE b = None
    BY <1>3, <1>4, NewFrames DEF TypeOK, SettleBridge, PoppedBridge
  <1>5. CASE b # None
    <2>1. b \in Bridge
      BY <1>2, <1>5
    <2>2. counts' = [counts EXCEPT ![b] = IF LastOf(b) THEN 0 ELSE @ - 1]
      BY <1>5 DEF SettleBridge, PoppedBridge
    <2>3. ~LastOf(b) => counts[b] - 1 \in Nat
      BY <2>1 DEF TypeOK, LastOf
    <2>4. counts' \in [Bridge -> Nat]
      BY <2>1, <2>2, <2>3 DEF TypeOK
    <2>5. metas' \in [Bridge -> {"absent", "added", "failed"}]
      BY <2>1, <1>5 DEF TypeOK, SettleBridge, PoppedBridge
    <2>6. [kind |-> "removeMeta", bridge |-> b, added |-> metas[b] = "added"] \in Frame
      BY <2>1 DEF Frame
    <2>7. frame' \in [Slot -> Frame]
      BY <2>6, <1>5, NewFrames DEF TypeOK, SettleBridge, PoppedBridge
    <2> QED BY <1>3, <2>4, <2>5, <2>7
  <1> QED BY <1>4, <1>5

\* Every step preserves the type invariant.
LEMMA TypeStep == TypeOK /\ [Next]_vars => TypeOK'
  <1> SUFFICES ASSUME TypeOK, [Next]_vars PROVE TypeOK'
    OBVIOUS
  <1> USE DEF Stages, Depub, NoDepub
  <1>1. CASE Setup
    BY <1>1 DEF Setup, TypeOK, EmptyManager, NoEntities, NoTopics, NoUnsubs,
                NoBridges, NoCounts, NoMetas
  <1>2. CASE UnloadPlatforms
    BY <1>2 DEF UnloadPlatforms, TypeOK, manager
  <1>3. CASE UnloadEntry
    BY <1>3 DEF UnloadEntry, TypeOK, EmptyManager, NoEntities, NoTopics,
                NoUnsubs, NoBridges, NoCounts, NoMetas, host
  <1>4. CASE Crash
    BY <1>4, NewFrames DEF Crash, TypeOK, EmptyManager, NoEntities, NoTopics,
                NoUnsubs, NoBridges, NoCounts, NoMetas
  <1>5. ASSUME NEW h \in Handler, NEW u \in Uid, NEW st \in StateTopic,
               CreateEntity(h, u, st)
        PROVE  TypeOK'
    <2>1. BridgeOf[u] \in Bridge /\ TopicOf[u] \in Topic
      BY Wire
    <2>2. frame' \in [Slot -> Frame]
      BY <1>5, NewFrames DEF CreateEntity, TypeOK, Slot
    <2>3. counts' \in [Bridge -> Nat]
      BY <1>5, <2>1 DEF CreateEntity, TypeOK
    <2> QED BY <1>5, <2>1, <2>2, <2>3 DEF CreateEntity, TypeOK, host
  <1>6. ASSUME NEW u \in Uid, NEW st \in StateTopic, UpdateEntity(u, st)
        PROVE  TypeOK'
    <2>1. TopicOf[u] \in Topic
      BY Wire
    <2> QED BY <1>6, <2>1 DEF UpdateEntity, TypeOK, Item
  <1>7. ASSUME NEW u \in Uid, StateMessage(u)
        PROVE  TypeOK'
    BY <1>7 DEF StateMessage, TypeOK, manager, Item
  <1>8. ASSUME NEW h \in Handler, NEW t \in Topic, RemovalMessage(h, t)
        PROVE  TypeOK'
    <2>1. h \in Slot /\ StartRemoval(h, t)
      BY <1>8 DEF RemovalMessage, Slot
    <2>2. UNCHANGED <<stage, entityBridge, counts, metas, host, leaked, depub>>
      BY <1>8 DEF RemovalMessage, StartRemoval
    <2> QED BY <2>1, <2>2, StartRemovalType DEF TypeOK, host
  <1>9. ASSUME NEW s \in Slot, FinishSubscribe(s)
        PROVE  TypeOK'
    <2> DEFINE u == frame[s].uid
    <2>1. u \in Uid /\ frame[s].st \in StateTopic
      BY <1>9, FrameTypes DEF FinishSubscribe
    <2>2. BridgeOf[u] \in Bridge
      BY <2>1, Wire
    <2>3. frame' \in [Slot -> Frame]
      BY <1>9, NewFrames DEF FinishSubscribe, TypeOK
    <2>4. unsubs' \in [Uid -> StateTopic \cup {None}] /\ leaked' \subseteq Uid
      BY <1>9, <2>1 DEF FinishSubscribe, TypeOK
    <2>5. entities' \in [Uid -> {"absent", "added"} \cup Handler]
      BY <1>9 DEF FinishSubscribe, TypeOK
    <2>6. states' \subseteq Item /\ registry' \subseteq Item /\ devices' \subseteq Bridge
      BY <1>9, <2>1, <2>2 DEF FinishSubscribe, TypeOK, Item, host
    <2> QED BY <1>9, <2>3, <2>4, <2>5, <2>6 DEF FinishSubscribe, TypeOK
  <1>10. ASSUME NEW s \in Slot, FinishRemove(s)
         PROVE  TypeOK'
    <2>1. states' \subseteq states /\ registry' \subseteq registry
      BY <1>10 DEF FinishRemove, Purge
    <2>2. frame[s].kind = "remove" /\ SettleBridge(s)
      BY <1>10 DEF FinishRemove
    <2>3. UNCHANGED <<stage, entities, topicUid, unsubs, depub, devices, leaked, announced>>
      BY <1>10 DEF FinishRemove
    <2> QED BY <2>1, <2>2, <2>3, SettleBridgeType DEF TypeOK
  <1>11. ASSUME NEW s \in Slot, FinishRemoveMeta(s)
         PROVE  TypeOK'
    <2>1. states' \subseteq states /\ registry' \subseteq registry
      BY <1>11 DEF FinishRemoveMeta, Purge
    <2>2. frame' \in [Slot -> Frame]
      BY <1>11, NewFrames DEF FinishRemoveMeta, TypeOK
    <2> QED BY <1>11, <2>1, <2>2 DEF FinishRemoveMeta, TypeOK, manager
  <1>12. ASSUME NEW b \in Bridge, NEW ok \in BOOLEAN, HandleMetadata(b, ok)
         PROVE  TypeOK'
    BY <1>12 DEF HandleMetadata, TypeOK, Item
  <1>13. ASSUME NEW b \in Bridge, StartDepublish(b)
         PROVE  TypeOK'
    BY <1>13, DeviceItemsType DEF StartDepublish, TypeOK, manager, host
  <1>14. ASSUME NEW u \in Uid, DepublishEntity(u)
         PROVE  TypeOK'
    <2>1. depub' \in Depub
      BY <1>14 DEF DepublishEntity, TypeOK
    <2>2. CASE StartRemoval(Service, TopicOf[u])
      <3>1. Service \in Slot /\ TopicOf[u] \in Topic
        BY Wire DEF Slot
      <3>2. UNCHANGED <<stage, entityBridge, counts, metas, host, leaked>>
        BY <2>2 DEF StartRemoval
      <3> QED BY <2>1, <2>2, <3>1, <3>2, StartRemovalType DEF TypeOK, host
    <2>3. CASE UNCHANGED <<stage, manager, frame, host, leaked, announced>>
      BY <2>1, <2>3 DEF TypeOK, manager, host
    <2> QED BY <1>14, <2>2, <2>3 DEF DepublishEntity
  <1>15. CASE SweepRegistry
    BY <1>15 DEF SweepRegistry, TypeOK, manager
  <1>16. CASE FinishDepublish
    BY <1>16 DEF FinishDepublish, TypeOK
  <1>17. CASE UNCHANGED vars
    BY <1>17 DEF vars, manager, host, TypeOK
  <1>18. ASSUME NEW s \in Slot, SubscribeFails(s)
         PROVE  TypeOK'
    <2>1. frame' \in [Slot -> Frame]
      BY <1>18, NewFrames DEF SubscribeFails, TypeOK
    <2> QED BY <1>18, <2>1 DEF SubscribeFails, TypeOK, manager, host
  <1>19. CASE DepublishFails
    BY <1>19 DEF DepublishFails, TypeOK, manager, host
  <1> QED
    BY <1>1, <1>2, <1>3, <1>4, <1>5, <1>6, <1>7, <1>8, <1>9, <1>10, <1>11, <1>12,
       <1>13, <1>14, <1>15, <1>16, <1>17, <1>18, <1>19 DEF Next

\* Type correctness of the receiving side.
THEOREM TypeCorrect == Spec => []TypeOK
  <1>1. Init => TypeOK
    BY NewFrames DEF Init, TypeOK, Stages, Depub, NoDepub, NoEntities, NoTopics,
       NoUnsubs, NoBridges, NoCounts, NoMetas
  <1> QED BY <1>1, TypeStep, PTL DEF Spec

(***************************************************************************)
(* The feed of an added entity                                             *)
(***************************************************************************)

\* No step leaves an added entity without its unsubscriber: the subscription
\* is recorded in the same uninterrupted run that adds the entity, and both
\* are popped in the same uninterrupted run of a removal.
LEMMA FedStep == TypeOK /\ FedWhileAdded /\ [Next]_vars => FedWhileAdded'
  <1> SUFFICES ASSUME TypeOK, FedWhileAdded, [Next]_vars PROVE FedWhileAdded'
    OBVIOUS
  <1> USE DEF FedWhileAdded
  <1>0. "added" \notin Handler /\ None \notin StateTopic
    BY Sorts
  <1>1. ASSUME EmptyManager PROVE FedWhileAdded'
    BY <1>1 DEF EmptyManager, NoEntities
  <1>2. ASSUME UNCHANGED <<entities, unsubs>> PROVE FedWhileAdded'
    BY <1>2
  <1>3. ASSUME NEW s \in Slot, NEW t \in Topic, StartRemoval(s, t) PROVE FedWhileAdded'
    BY <1>3 DEF StartRemoval, TypeOK
  <1>4. ASSUME NEW h \in Handler, NEW u \in Uid, NEW st \in StateTopic,
               CreateEntity(h, u, st)
        PROVE  FedWhileAdded'
    BY <1>0, <1>4 DEF CreateEntity, TypeOK
  <1>5. ASSUME NEW s \in Slot, FinishSubscribe(s) PROVE FedWhileAdded'
    <2>1. frame[s].uid \in Uid /\ frame[s].st \in StateTopic
      BY <1>5, FrameTypes DEF FinishSubscribe
    <2>2. \A v \in Uid \ {frame[s].uid} :
            entities'[v] = entities[v] /\ unsubs'[v] = unsubs[v]
      BY <1>5 DEF FinishSubscribe, TypeOK
    <2>3. unsubs'[frame[s].uid] # None
      BY <1>0, <1>5, <2>1 DEF FinishSubscribe, TypeOK
    <2> QED BY <2>2, <2>3
  <1>6. ASSUME NEW u \in Uid, DepublishEntity(u) PROVE FedWhileAdded'
    <2>1. Service \in Slot /\ TopicOf[u] \in Topic
      BY Wire DEF Slot
    <2> QED BY <1>2, <1>3, <1>6, <2>1 DEF DepublishEntity, manager
  <1>7. CASE Setup \/ UnloadEntry \/ Crash
    BY <1>1, <1>7 DEF Setup, UnloadEntry, Crash
  <1>8. CASE UnloadPlatforms \/ SweepRegistry \/ FinishDepublish \/ UNCHANGED vars
    BY <1>2, <1>8 DEF UnloadPlatforms, SweepRegistry, FinishDepublish, vars, manager
  <1>9. ASSUME NEW u \in Uid, NEW st \in StateTopic, UpdateEntity(u, st)
        PROVE  FedWhileAdded'
    BY <1>2, <1>9 DEF UpdateEntity
  <1>10. ASSUME NEW u \in Uid, StateMessage(u) PROVE FedWhileAdded'
    BY <1>2, <1>10 DEF StateMessage, manager
  <1>11. ASSUME NEW h \in Handler, NEW t \in Topic, RemovalMessage(h, t)
         PROVE  FedWhileAdded'
    BY <1>3, <1>11 DEF RemovalMessage, Slot
  <1>12. ASSUME NEW s \in Slot, FinishRemove(s) \/ FinishRemoveMeta(s)
         PROVE  FedWhileAdded'
    BY <1>2, <1>12 DEF FinishRemove, FinishRemoveMeta, manager
  <1>13. ASSUME NEW b \in Bridge, NEW ok \in BOOLEAN,
                HandleMetadata(b, ok) \/ StartDepublish(b)
         PROVE  FedWhileAdded'
    BY <1>2, <1>13 DEF HandleMetadata, StartDepublish, manager
  <1>14. ASSUME NEW s \in Slot, SubscribeFails(s) \/ DepublishFails
         PROVE  FedWhileAdded'
    BY <1>2, <1>14 DEF SubscribeFails, DepublishFails, manager
  <1> QED
    BY <1>4, <1>5, <1>6, <1>7, <1>8, <1>9, <1>10, <1>11, <1>12, <1>13, <1>14
       DEF Next, Slot

\* Every entity on the platform keeps a feed that its removal can end.
THEOREM AddedIsFed == Spec => []FedWhileAdded
  <1>1. Init => FedWhileAdded
    BY DEF Init, FedWhileAdded, NoEntities
  <1> QED BY <1>1, FedStep, TypeCorrect, PTL DEF Spec

(***************************************************************************)
(* Removal by topic                                                        *)
(***************************************************************************)

\* No step separates a tracked uid from its discovery topic, as long as
\* distinct uids have distinct topics.
LEMMA ReachableStep == TypeOK /\ Reachable /\ [Next]_vars => Reachable'
  <1> SUFFICES ASSUME TypeOK, Reachable, [Next]_vars,
                      \A u, v \in Uid : TopicOf[u] = TopicOf[v] => u = v
               PROVE  \A u \in Uid : Tracked(u)' => topicUid'[TopicOf[u]] = u
    BY DEF Reachable
  <1> DEFINE Goal == \A u \in Uid : Tracked(u)' => topicUid'[TopicOf[u]] = u
  <1>0. \A u \in Uid : Tracked(u) => topicUid[TopicOf[u]] = u
    BY DEF Reachable
  <1>0a. \A u \in Uid : TopicOf[u] \in Topic
    BY Wire
  <1>1. ASSUME EmptyManager PROVE Goal
    BY <1>1 DEF EmptyManager, NoEntities, Tracked
  <1>2. ASSUME UNCHANGED <<entities, topicUid>> PROVE Goal
    BY <1>0, <1>2 DEF Tracked
  <1>3. ASSUME NEW s \in Slot, NEW t \in Topic, StartRemoval(s, t) PROVE Goal
    <2>1. topicUid[t] \in Uid
      BY <1>3 DEF StartRemoval, TypeOK
    <2>2. \A u \in Uid : Tracked(u)' => Tracked(u) /\ u # topicUid[t]
      BY <1>3, <2>1 DEF StartRemoval, TypeOK, Tracked
    <2>3. \A u \in Uid : Tracked(u)' => TopicOf[u] # t
      BY <1>0, <2>2
    <2> QED BY <1>0, <1>0a, <1>3, <2>2, <2>3 DEF StartRemoval, TypeOK
  <1>4. ASSUME NEW h \in Handler, NEW u \in Uid, NEW st \in StateTopic,
               CreateEntity(h, u, st)
        PROVE  Goal
    <2>1. \A v \in Uid \ {u} : Tracked(v)' => Tracked(v) /\ TopicOf[v] # TopicOf[u]
      BY <1>4 DEF CreateEntity, TypeOK, Tracked
    <2> QED BY <1>0, <1>0a, <1>4, <2>1 DEF CreateEntity, TypeOK
  <1>5. ASSUME NEW u \in Uid, NEW st \in StateTopic, UpdateEntity(u, st)
        PROVE  Goal
    <2>1. \A v \in Uid \ {u} : Tracked(v)' => Tracked(v) /\ TopicOf[v] # TopicOf[u]
      BY <1>5 DEF UpdateEntity, Tracked
    <2> QED BY <1>0, <1>0a, <1>5, <2>1 DEF UpdateEntity, TypeOK
  <1>6. ASSUME NEW s \in Slot, FinishSubscribe(s) PROVE Goal
    <2>2. frame[s].uid \in Uid
      BY <1>6, FrameTypes DEF FinishSubscribe
    <2>3. entities[frame[s].uid] = s => Tracked(frame[s].uid)
      BY Sorts DEF Slot, Tracked
    <2>4. \A u \in Uid : Tracked(u)' => Tracked(u)
      BY <1>6, <2>2, <2>3 DEF FinishSubscribe, TypeOK, Tracked
    <2>5. topicUid' = topicUid
      BY <1>6 DEF FinishSubscribe
    <2> QED BY <1>0, <2>4, <2>5
  <1>7. ASSUME NEW u \in Uid, DepublishEntity(u) PROVE Goal
    <2>1. Service \in Slot /\ TopicOf[u] \in Topic
      BY Wire DEF Slot
    <2> QED BY <1>2, <1>3, <1>7, <2>1 DEF DepublishEntity, manager
  <1>8. CASE Setup \/ UnloadEntry \/ Crash
    BY <1>1, <1>8 DEF Setup, UnloadEntry, Crash
  <1>9. CASE UnloadPlatforms \/ SweepRegistry \/ FinishDepublish \/ UNCHANGED vars
    BY <1>2, <1>9 DEF UnloadPlatforms, SweepRegistry, FinishDepublish, vars, manager
  <1>10. ASSUME NEW u \in Uid, StateMessage(u) PROVE Goal
    BY <1>2, <1>10 DEF StateMessage, manager
  <1>11. ASSUME NEW h \in Handler, NEW t \in Topic, RemovalMessage(h, t)
         PROVE  Goal
    BY <1>3, <1>11 DEF RemovalMessage, Slot
  <1>12. ASSUME NEW s \in Slot, FinishRemove(s) \/ FinishRemoveMeta(s)
         PROVE  Goal
    BY <1>2, <1>12 DEF FinishRemove, FinishRemoveMeta, manager
  <1>13. ASSUME NEW b \in Bridge, NEW ok \in BOOLEAN,
                HandleMetadata(b, ok) \/ StartDepublish(b)
         PROVE  Goal
    BY <1>2, <1>13 DEF HandleMetadata, StartDepublish, manager
  <1>14. ASSUME NEW s \in Slot, SubscribeFails(s) \/ DepublishFails
         PROVE  Goal
    BY <1>2, <1>14 DEF SubscribeFails, DepublishFails, manager
  <1> QED
    BY <1>4, <1>5, <1>6, <1>7, <1>8, <1>9, <1>10, <1>11, <1>12, <1>13, <1>14
       DEF Next, Slot

\* With one uid per topic, the removal signal always finds its entity.
THEOREM RemovalReaches == Spec => []Reachable
  <1>1. Init => Reachable
    BY DEF Init, Reachable, NoEntities, Tracked
  <1> QED BY <1>1, ReachableStep, TypeCorrect, PTL DEF Spec

(***************************************************************************)
(* Diagnostic entities                                                     *)
(***************************************************************************)

\* Diagnostics and count of a bridge go together in every step.
LEMMA DiagnosticsStep ==
  TypeOK /\ DiagnosticsCounted /\ [Next]_vars => DiagnosticsCounted'
  <1> SUFFICES ASSUME TypeOK, DiagnosticsCounted, [Next]_vars
               PROVE  DiagnosticsCounted'
    OBVIOUS
  <1> USE DEF DiagnosticsCounted
  <1>1. ASSUME EmptyManager PROVE DiagnosticsCounted'
    BY <1>1 DEF EmptyManager, NoMetas
  <1>2. ASSUME UNCHANGED <<metas, counts>> PROVE DiagnosticsCounted'
    BY <1>2
  <1>3. ASSUME NEW h \in Handler, NEW u \in Uid, NEW st \in StateTopic,
               CreateEntity(h, u, st)
        PROVE  DiagnosticsCounted'
    BY <1>3 DEF CreateEntity, TypeOK
  <1>4. ASSUME NEW s \in Slot, FinishRemove(s) PROVE DiagnosticsCounted'
    <2> DEFINE b == PoppedBridge(frame[s].uid)
    <2>1. frame[s].uid \in Uid
      BY <1>4, FrameTypes DEF FinishRemove
    <2>2. CASE b = None
      BY <1>2, <1>4, <2>2 DEF FinishRemove, SettleBridge
    <2>3. CASE b # None
      <3>1. b \in Bridge
        BY <2>1, <2>3 DEF TypeOK, PoppedBridge
      <3>2. /\ counts' = [counts EXCEPT ![b] = IF LastOf(b) THEN 0 ELSE @ - 1]
            /\ metas' = [metas EXCEPT ![b] = IF LastOf(b) THEN "absent" ELSE @]
        BY <1>4, <2>3 DEF FinishRemove, SettleBridge
      <3>3. ~LastOf(b) => counts[b] - 1 > 0
        BY <3>1 DEF LastOf, TypeOK
      <3> QED BY <3>1, <3>2, <3>3 DEF TypeOK
    <2> QED BY <2>2, <2>3
  <1>5. ASSUME NEW b \in Bridge, NEW ok \in BOOLEAN, HandleMetadata(b, ok) PROVE DiagnosticsCounted'
    BY <1>5 DEF HandleMetadata, KnownBridge, TypeOK
  <1>6. CASE FinishDepublish
    BY <1>6 DEF FinishDepublish, TypeOK
  <1>7. CASE Setup \/ UnloadEntry \/ Crash
    BY <1>1, <1>7 DEF Setup, UnloadEntry, Crash
  <1>8. CASE UnloadPlatforms \/ SweepRegistry \/ UNCHANGED vars
    BY <1>2, <1>8 DEF UnloadPlatforms, SweepRegistry, vars, manager
  <1>9. ASSUME NEW u \in Uid, NEW st \in StateTopic, UpdateEntity(u, st)
        PROVE  DiagnosticsCounted'
    BY <1>2, <1>9 DEF UpdateEntity
  <1>10. ASSUME NEW u \in Uid, StateMessage(u) \/ DepublishEntity(u)
         PROVE  DiagnosticsCounted'
    BY <1>2, <1>10 DEF StateMessage, DepublishEntity, StartRemoval, manager
  <1>11. ASSUME NEW h \in Handler, NEW t \in Topic, RemovalMessage(h, t)
         PROVE  DiagnosticsCounted'
    BY <1>2, <1>11 DEF RemovalMessage, StartRemoval
  <1>12. ASSUME NEW s \in Slot, FinishSubscribe(s) \/ FinishRemoveMeta(s)
         PROVE  DiagnosticsCounted'
    BY <1>2, <1>12 DEF FinishSubscribe, FinishRemoveMeta, manager
  <1>13. ASSUME NEW b \in Bridge, StartDepublish(b) PROVE DiagnosticsCounted'
    BY <1>2, <1>13 DEF StartDepublish, manager
  <1>14. ASSUME NEW s \in Slot, SubscribeFails(s) \/ DepublishFails
         PROVE  DiagnosticsCounted'
    BY <1>2, <1>14 DEF SubscribeFails, DepublishFails, manager
  <1> QED
    BY <1>3, <1>4, <1>5, <1>6, <1>7, <1>8, <1>9, <1>10, <1>11, <1>12, <1>13, <1>14
       DEF Next, Slot

\* Diagnostics are never held for a bridge without a counted entity.
THEOREM DiagnosticsNeedEntities == Spec => []DiagnosticsCounted
  <1>1. Init => DiagnosticsCounted
    BY DEF Init, DiagnosticsCounted, NoMetas
  <1> QED BY <1>1, DiagnosticsStep, TypeCorrect, PTL DEF Spec

(***************************************************************************)
(* The count of a bridge                                                   *)
(***************************************************************************)
Paid(b) == counts[b] >= Cardinality(TrackedOf(b)) + Cardinality(RemovingOf(b))

\* One more element adds at most one to the cardinality.
LEMMA AddAtMostOne ==
  ASSUME NEW S, NEW x, IsFiniteSet(S)
  PROVE  /\ IsFiniteSet(S \cup {x})
         /\ Cardinality(S \cup {x}) \in Nat
         /\ Cardinality(S \cup {x}) <= Cardinality(S) + 1
  <1>1. IsFiniteSet(S \cup {x})
    BY FS_AddElement
  <1>2. Cardinality(S) \in Nat /\ Cardinality(S \cup {x}) \in Nat
    BY <1>1, FS_CardinalityType
  <1>3. Cardinality(S \cup {x}) = IF x \in S THEN Cardinality(S) ELSE Cardinality(S) + 1
    BY FS_AddElement
  <1> QED BY <1>1, <1>2, <1>3

\* Everything counted here is finite.
LEMMA FiniteCounts ==
  ASSUME NEW b
  PROVE  /\ IsFiniteSet(TrackedOf(b)) /\ Cardinality(TrackedOf(b)) \in Nat
         /\ IsFiniteSet(RemovingOf(b)) /\ Cardinality(RemovingOf(b)) \in Nat
  <1>1. IsFiniteSet(Slot)
    BY Finite, FS_AddElement DEF Slot
  <1>2. TrackedOf(b) \in SUBSET Uid /\ RemovingOf(b) \in SUBSET Slot
    BY DEF TrackedOf, RemovingOf
  <1>3. IsFiniteSet(TrackedOf(b)) /\ IsFiniteSet(RemovingOf(b))
    BY <1>1, <1>2, Finite, FS_Subset
  <1> QED BY <1>3, FS_CardinalityType

\* The same in the next state.
LEMMA FiniteCountsNext ==
  ASSUME NEW b
  PROVE  /\ IsFiniteSet(TrackedOf(b)') /\ Cardinality(TrackedOf(b)') \in Nat
         /\ IsFiniteSet(RemovingOf(b)') /\ Cardinality(RemovingOf(b)') \in Nat
  <1>1. IsFiniteSet(Slot)
    BY Finite, FS_AddElement DEF Slot
  <1>2. TrackedOf(b)' \in SUBSET Uid /\ RemovingOf(b)' \in SUBSET Slot
    BY DEF TrackedOf, RemovingOf
  <1>3. IsFiniteSet(TrackedOf(b)') /\ IsFiniteSet(RemovingOf(b)')
    BY <1>1, <1>2, Finite, FS_Subset
  <1> QED BY <1>3, FS_CardinalityType

\* A step that neither adds a tracked uid or a suspended removal of a bridge
\* nor touches its count keeps the bridge paid for.
LEMMA PaidShrinks ==
  ASSUME TypeOK, NEW b \in Bridge, Paid(b), counts'[b] = counts[b],
         TrackedOf(b)' \subseteq TrackedOf(b), RemovingOf(b)' \subseteq RemovingOf(b)
  PROVE  Paid(b)'
  <1>1. Cardinality(TrackedOf(b)') <= Cardinality(TrackedOf(b))
    BY FiniteCounts, FS_Subset
  <1>2. Cardinality(RemovingOf(b)') <= Cardinality(RemovingOf(b))
    BY FiniteCounts, FS_Subset
  <1>3. counts[b] \in Nat
    BY DEF TypeOK
  <1>4. /\ Cardinality(TrackedOf(b)) \in Nat /\ Cardinality(RemovingOf(b)) \in Nat
        /\ Cardinality(TrackedOf(b)') \in Nat /\ Cardinality(RemovingOf(b)') \in Nat
    BY FiniteCounts, FiniteCountsNext
  <1>5. counts[b] >= Cardinality(TrackedOf(b)') + Cardinality(RemovingOf(b)')
    BY <1>1, <1>2, <1>3, <1>4 DEF Paid
  <1> QED BY <1>5 DEF Paid

\* A removal moves one uid of its bridge from tracked to suspended.
LEMMA PaidRemoval ==
  ASSUME TypeOK, NEW b \in Bridge, Paid(b), NEW s \in Slot, NEW t \in Topic,
         StartRemoval(s, t)
  PROVE  Paid(b)'
  <1> DEFINE u == topicUid[t]
  <1>1. u \in Uid
    BY DEF StartRemoval, TypeOK
  <1>2. counts' = counts
    BY DEF StartRemoval
  <1>3. TrackedOf(b)' = TrackedOf(b) \ {u}
    BY <1>1 DEF StartRemoval, TypeOK, TrackedOf, Tracked
  <1>4. CASE Tracked(u) /\ BridgeOf[u] = b
    <2>1. u \in TrackedOf(b)
      BY <1>1, <1>4 DEF TrackedOf
    <2>2. RemovingOf(b)' \subseteq RemovingOf(b) \cup {s}
      BY <1>1, <1>4 DEF StartRemoval, TypeOK, RemovingOf
    <2>3. /\ Cardinality(TrackedOf(b)') = Cardinality(TrackedOf(b)) - 1
          /\ Cardinality(RemovingOf(b) \cup {s}) <= Cardinality(RemovingOf(b)) + 1
          /\ IsFiniteSet(RemovingOf(b) \cup {s})
      BY <1>3, <2>1, FiniteCounts, FS_RemoveElement, AddAtMostOne
    <2>4. /\ Cardinality(RemovingOf(b)') <= Cardinality(RemovingOf(b) \cup {s})
          /\ Cardinality(RemovingOf(b) \cup {s}) \in Nat
      BY <2>2, <2>3, FS_Subset, FS_CardinalityType
    <2>5. counts[b] \in Nat
      BY DEF TypeOK
    <2>6. /\ Cardinality(TrackedOf(b)) \in Nat /\ Cardinality(RemovingOf(b)) \in Nat
          /\ Cardinality(TrackedOf(b)') \in Nat /\ Cardinality(RemovingOf(b)') \in Nat
      BY FiniteCounts, FiniteCountsNext
    <2>7. counts[b] >= Cardinality(TrackedOf(b)') + Cardinality(RemovingOf(b)')
      BY <2>3, <2>4, <2>5, <2>6 DEF Paid
    <2> QED BY <1>2, <2>7 DEF Paid
  <1>5. CASE ~(Tracked(u) /\ BridgeOf[u] = b)
    <2>1. RemovingOf(b)' \subseteq RemovingOf(b)
      BY <1>1, <1>5 DEF StartRemoval, TypeOK, RemovingOf
    <2> QED BY <1>2, <1>3, <2>1, PaidShrinks
  <1> QED BY <1>4, <1>5

\* A creation is counted.
LEMMA PaidCreation ==
  ASSUME TypeOK, NEW b \in Bridge, Paid(b),
         NEW h \in Handler, NEW u \in Uid, NEW st \in StateTopic,
         CreateEntity(h, u, st)
  PROVE  Paid(b)'
  <1>1. RemovingOf(b)' \subseteq RemovingOf(b)
    BY DEF CreateEntity, TypeOK, RemovingOf, Slot
  <1>2. CASE BridgeOf[u] # b
    <2>1. TrackedOf(b)' \subseteq TrackedOf(b)
      BY <1>2 DEF CreateEntity, TypeOK, TrackedOf, Tracked
    <2>2. counts'[b] = counts[b]
      BY <1>2 DEF CreateEntity, TypeOK
    <2> QED BY <1>1, <2>1, <2>2, PaidShrinks
  <1>3. CASE BridgeOf[u] = b
    <2>1. TrackedOf(b)' \subseteq TrackedOf(b) \cup {u}
      BY DEF CreateEntity, TypeOK, TrackedOf, Tracked
    <2>2. counts'[b] = counts[b] + 1 /\ counts[b] \in Nat
      BY <1>3 DEF CreateEntity, TypeOK
    <2>3. /\ Cardinality(TrackedOf(b) \cup {u}) <= Cardinality(TrackedOf(b)) + 1
          /\ IsFiniteSet(TrackedOf(b) \cup {u})
      BY FiniteCounts, AddAtMostOne
    <2>4. /\ Cardinality(TrackedOf(b)') <= Cardinality(TrackedOf(b) \cup {u})
          /\ Cardinality(TrackedOf(b) \cup {u}) \in Nat
      BY <2>1, <2>3, FS_Subset, FS_CardinalityType
    <2>5. Cardinality(RemovingOf(b)') <= Cardinality(RemovingOf(b))
      BY <1>1, FiniteCounts, FS_Subset
    <2>6. /\ Cardinality(TrackedOf(b)) \in Nat /\ Cardinality(RemovingOf(b)) \in Nat
          /\ Cardinality(TrackedOf(b)') \in Nat /\ Cardinality(RemovingOf(b)') \in Nat
      BY FiniteCounts, FiniteCountsNext
    <2>7. counts[b] + 1 >= Cardinality(TrackedOf(b)') + Cardinality(RemovingOf(b)')
      BY <2>2, <2>3, <2>4, <2>5, <2>6 DEF Paid
    <2> QED BY <2>2, <2>7 DEF Paid
  <1> QED BY <1>2, <1>3

\* A resumed removal takes at most one from the count of its own bridge.
LEMMA PaidSettling ==
  ASSUME TypeOK, CountInv, NEW b \in Bridge, Paid(b), NEW s \in Slot, FinishRemove(s)
  PROVE  Paid(b)'
  <1> DEFINE u == frame[s].uid
             c == PoppedBridge(u)
  <1>1. u \in Uid /\ frame[s].kind = "remove"
    BY FrameTypes DEF FinishRemove
  <1>2. TrackedOf(b)' = TrackedOf(b)
    BY DEF FinishRemove, TrackedOf, Tracked
  <1>3. c \in {None, BridgeOf[u]}
    BY <1>1 DEF CountInv, PoppedBridge
  <1>4. frame'[s].kind # "remove" /\ \A r \in Slot \ {s} : frame'[r] = frame[r]
    BY DEF FinishRemove, SettleBridge, TypeOK, Idle
  <1>5. RemovingOf(b)' = RemovingOf(b) \ {s}
    BY <1>4 DEF RemovingOf
  <1>6. CASE c # b
    <2>1. counts'[b] = counts[b]
      BY <1>6 DEF FinishRemove, SettleBridge, TypeOK
    <2> QED BY <1>2, <1>5, <2>1, PaidShrinks
  <1>7. CASE c = b
    <2>1. b # None /\ BridgeOf[u] = b
      BY <1>3, <1>7, Sorts
    <2>2. s \in RemovingOf(b)
      BY <1>1, <2>1 DEF RemovingOf
    <2>3. Cardinality(RemovingOf(b)') = Cardinality(RemovingOf(b)) - 1
      BY <1>5, <2>2, FiniteCounts, FS_RemoveElement
    <2>4. counts[b] \in Nat
      BY DEF TypeOK
    <2>5. counts' = [counts EXCEPT ![b] = IF LastOf(b) THEN 0 ELSE @ - 1]
      BY <1>7, <2>1 DEF FinishRemove, SettleBridge
    <2>6. /\ Cardinality(TrackedOf(b)) \in Nat /\ Cardinality(RemovingOf(b)) \in Nat
          /\ Cardinality(RemovingOf(b)') \in Nat
      BY FiniteCounts, FiniteCountsNext
    <2>7. counts[b] - 1 >= Cardinality(TrackedOf(b)) + Cardinality(RemovingOf(b)')
      BY <2>3, <2>4, <2>6 DEF Paid
    <2>8. LastOf(b) => counts[b] = 1
      BY <2>4, <2>6, <2>7 DEF LastOf
    <2>9. counts'[b] = counts[b] - 1
      BY <2>4, <2>5, <2>8 DEF TypeOK
    <2> QED BY <1>2, <2>7, <2>9 DEF Paid
  <1> QED BY <1>6, <1>7

\* Every step preserves the strengthened invariant.
LEMMA CountStep == TypeOK /\ CountInv /\ [Next]_vars => CountInv'
  <1> SUFFICES ASSUME TypeOK, CountInv, [Next]_vars PROVE CountInv'
    OBVIOUS
  <1> DEFINE Popped == \A u \in Uid : entityBridge[u] \in {None, BridgeOf[u]}
             Named == depub.pc # "idle" => depub.bridge \in Depublishable
             AllPaid == \A b \in Bridge \ Depublishable : Paid(b)
             Offline == \A u \in Uid : ~Tracked(u)
  <1>1. /\ Popped /\ Named
        /\ Listening => AllPaid
        /\ ~Listening => Offline
    BY DEF CountInv, Paid
  <1>2. ASSUME Popped', Named', Listening' => AllPaid', ~Listening' => Offline'
        PROVE  CountInv'
    BY <1>2 DEF CountInv, Paid
  <1>3. ASSUME stage' = stage, entities' = entities, counts' = counts,
               Popped', Named',
               \A s \in Slot : frame'[s] = frame[s] \/ frame'[s].kind # "remove"
        PROVE  CountInv'
    <2>1. ASSUME NEW b \in Bridge, Paid(b) PROVE Paid(b)'
      <3>1. TrackedOf(b)' = TrackedOf(b) /\ RemovingOf(b)' \subseteq RemovingOf(b)
        BY <1>3 DEF TrackedOf, Tracked, RemovingOf
      <3> QED BY <1>3, <2>1, <3>1, PaidShrinks
    <2> QED BY <1>1, <1>2, <1>3, <2>1 DEF Listening, Tracked
  <1>4. ASSUME NEW s \in Slot, NEW t \in Topic, StartRemoval(s, t), Named'
        PROVE  CountInv'
    <2>1. UNCHANGED <<stage, entityBridge>>
      BY <1>4 DEF StartRemoval
    <2>2. Offline => Offline'
      BY <1>4 DEF StartRemoval, TypeOK, Tracked
    <2> QED BY <1>1, <1>2, <1>4, <2>1, <2>2, PaidRemoval DEF Listening
  <1>5. CASE Setup
    <2>1. \A b : TrackedOf(b)' = {} /\ RemovingOf(b)' = {}
      BY <1>5 DEF Setup, Quiet, Idle, EmptyManager, NoEntities, TrackedOf, Tracked,
                  RemovingOf
    <2>2. AllPaid'
      BY <1>5, <2>1, FS_EmptySet DEF Setup, EmptyManager, NoCounts, Paid
    <2> QED BY <1>1, <1>2, <1>5, <2>2
            DEF Setup, EmptyManager, NoBridges, Listening
  <1>6. CASE UnloadPlatforms
    <2>1. ASSUME NEW b \in Bridge, Paid(b) PROVE Paid(b)'
      BY <1>6, <2>1 DEF UnloadPlatforms, manager, Paid, TrackedOf, Tracked, RemovingOf
    <2> QED BY <1>1, <1>2, <1>6, <2>1 DEF UnloadPlatforms, manager, Listening
  <1>7. CASE UnloadEntry \/ Crash
    <2>1. EmptyManager /\ stage' \in {"down", "unloaded"} /\ Named'
      BY <1>1, <1>7 DEF UnloadEntry, Crash, NoDepub
    <2> QED BY <1>2, <2>1 DEF EmptyManager, NoBridges, NoEntities, Listening, Tracked
  <1>8. ASSUME NEW h \in Handler, NEW u \in Uid, NEW st \in StateTopic,
               CreateEntity(h, u, st)
        PROVE  CountInv'
    <2>1. Listening /\ stage' = stage /\ depub' = depub
      BY <1>8 DEF CreateEntity
    <2>2. Popped'
      BY <1>1, <1>8, Wire DEF CreateEntity, TypeOK
    <2> QED BY <1>1, <1>2, <1>8, <2>1, <2>2, PaidCreation DEF Listening
  <1>9. ASSUME NEW u \in Uid, NEW st \in StateTopic, UpdateEntity(u, st)
        PROVE  CountInv'
    BY <1>1, <1>3, <1>9 DEF UpdateEntity
  <1>10. ASSUME NEW u \in Uid, StateMessage(u) PROVE CountInv'
    BY <1>1, <1>3, <1>10 DEF StateMessage, manager
  <1>11. ASSUME NEW h \in Handler, NEW t \in Topic, RemovalMessage(h, t)
         PROVE  CountInv'
    BY <1>1, <1>4, <1>11 DEF RemovalMessage, Slot
  <1>12. ASSUME NEW s \in Slot, FinishSubscribe(s) PROVE CountInv'
    <2>1. frame[s].uid \in Uid
      BY <1>12, FrameTypes DEF FinishSubscribe
    <2>2. entities[frame[s].uid] = s => Tracked(frame[s].uid)
      BY Sorts DEF Slot, Tracked
    <2>3. \A u \in Uid : Tracked(u)' <=> Tracked(u)
      BY <1>12, <2>1, <2>2 DEF FinishSubscribe, TypeOK, Tracked
    <2>4. \A r \in Slot : frame'[r] = frame[r] \/ frame'[r].kind # "remove"
      BY <1>12 DEF FinishSubscribe, TypeOK, Idle
    <2>5. UNCHANGED <<stage, entityBridge, counts, depub>>
      BY <1>12 DEF FinishSubscribe
    <2>6. ASSUME NEW b \in Bridge, Paid(b) PROVE Paid(b)'
      <3>1. TrackedOf(b)' = TrackedOf(b) /\ RemovingOf(b)' \subseteq RemovingOf(b)
        BY <2>3, <2>4 DEF TrackedOf, RemovingOf
      <3> QED BY <2>5, <2>6, <3>1, PaidShrinks
    <2> QED BY <1>1, <1>2, <2>3, <2>5, <2>6 DEF Listening
  <1>13. ASSUME NEW s \in Slot, FinishRemove(s) PROVE CountInv'
    <2>1. UNCHANGED <<stage, entities, depub>>
      BY <1>13 DEF FinishRemove
    <2>2. Popped'
      BY <1>1, <1>13 DEF FinishRemove, SettleBridge, TypeOK
    <2> QED BY <1>1, <1>2, <1>13, <2>1, <2>2, PaidSettling DEF Listening, Tracked
  <1>14. ASSUME NEW s \in Slot, FinishRemoveMeta(s) PROVE CountInv'
    <2>1. \A r \in Slot : frame'[r] = frame[r] \/ frame'[r].kind # "remove"
      BY <1>14 DEF FinishRemoveMeta, TypeOK, Idle
    <2> QED BY <1>1, <1>3, <1>14, <2>1 DEF FinishRemoveMeta, manager
  <1>15. ASSUME NEW b \in Bridge, NEW ok \in BOOLEAN, HandleMetadata(b, ok) PROVE CountInv'
    BY <1>1, <1>3, <1>15 DEF HandleMetadata
  <1>16. ASSUME NEW b \in Bridge, StartDepublish(b) PROVE CountInv'
    BY <1>1, <1>3, <1>16 DEF StartDepublish, manager
  <1>17. ASSUME NEW u \in Uid, DepublishEntity(u) PROVE CountInv'
    <2>1. Service \in Slot /\ TopicOf[u] \in Topic
      BY Wire DEF Slot
    <2>2. depub'.pc = depub.pc /\ depub'.bridge = depub.bridge
      BY <1>17 DEF DepublishEntity, TypeOK, Depub
    <2>3. Named'
      BY <1>1, <2>2
    <2> QED BY <1>1, <1>3, <1>4, <1>17, <2>1, <2>3 DEF DepublishEntity, manager
  <1>18. CASE SweepRegistry
    <2>1. depub.pc = "publishing" /\ depub'.bridge = depub.bridge
      BY <1>18 DEF SweepRegistry, TypeOK, Depub
    <2> QED BY <1>1, <1>3, <1>18, <2>1 DEF SweepRegistry, manager
  <1>19. CASE FinishDepublish
    <2>1. depub.bridge \in Depublishable
      BY <1>1, <1>19 DEF FinishDepublish
    <2>2. UNCHANGED <<stage, entities, entityBridge, frame>> /\ Named'
      BY <1>19 DEF FinishDepublish, NoDepub
    <2>3. \A b \in Bridge \ Depublishable : counts'[b] = counts[b]
      BY <1>19, <2>1 DEF FinishDepublish, TypeOK
    <2>4. ASSUME NEW b \in Bridge \ Depublishable, Paid(b) PROVE Paid(b)'
      BY <2>2, <2>3, <2>4 DEF Paid, TrackedOf, Tracked, RemovingOf
    <2> QED BY <1>1, <1>2, <2>2, <2>4 DEF Listening, Tracked
  <1>20. CASE UNCHANGED vars
    BY <1>1, <1>3, <1>20 DEF vars, manager
  <1>21. ASSUME NEW s \in Slot, SubscribeFails(s) PROVE CountInv'
    <2>1. \A r \in Slot : frame'[r] = frame[r] \/ frame'[r].kind # "remove"
      BY <1>21 DEF SubscribeFails, TypeOK, Idle
    <2> QED BY <1>1, <1>3, <1>21, <2>1 DEF SubscribeFails, manager
  <1>22. CASE DepublishFails
    BY <1>1, <1>3, <1>22 DEF DepublishFails, NoDepub, manager
  <1> QED
    BY <1>5, <1>6, <1>7, <1>8, <1>9, <1>10, <1>11, <1>12, <1>13, <1>14, <1>15,
       <1>16, <1>17, <1>18, <1>19, <1>20, <1>21, <1>22 DEF Next

\* The count of a bridge nobody depublishes covers its tracked entities.
THEOREM CountCovers == Spec => []BridgeCounted
  <1>1. Init => CountInv
    BY DEF Init, CountInv, NoBridges, NoDepub, NoEntities, Listening, Tracked
  <1>2. TypeOK /\ CountInv => BridgeCounted
    <2> SUFFICES ASSUME TypeOK, CountInv, NEW b \in Bridge \ Depublishable
                 PROVE  counts[b] >= Cardinality(TrackedOf(b))
      BY DEF BridgeCounted
    <2>1. /\ counts[b] \in Nat
          /\ Cardinality(TrackedOf(b)) \in Nat /\ Cardinality(RemovingOf(b)) \in Nat
      BY FiniteCounts DEF TypeOK
    <2>2. CASE Listening
      BY <2>1, <2>2 DEF CountInv
    <2>3. CASE ~Listening
      <3>1. TrackedOf(b) = {}
        BY <2>3 DEF CountInv, TrackedOf
      <3> QED BY <2>1, <3>1, FS_EmptySet
    <2> QED BY <2>2, <2>3
  <1> QED BY <1>1, <1>2, CountStep, TypeCorrect, PTL DEF Spec
=============================================================================
