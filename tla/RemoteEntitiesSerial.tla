------------------------ MODULE RemoteEntitiesSerial ------------------------
(***************************************************************************)
(* Proofs about RemoteEntities when coroutines run to completion, the      *)
(* order in which the repository's tests drive the manager.  The argument  *)
(* has four layers, each an invariant of its own: who is suspended         *)
(* (Alone), how tables, frames and subscriptions hang together (Wired),    *)
(* what Home Assistant shows and remembers (Visible, Remembered), and the  *)
(* counts and diagnostics of the bridges (Exact, Attached).                *)
(***************************************************************************)
EXTENDS RemoteEntitiesProofs

Removing(u) == \E s \in Slot : frame[s].kind = "remove" /\ frame[s].uid = u

\* At most one handler is suspended, or the depublication with the removal it
\* awaits; and nothing is, unless messages arrive.
Alone ==
  /\ \A r, s \in Slot : frame[r] # Idle /\ frame[s] # Idle => r = s
  /\ depub.pc # "idle" => \A h \in Handler : frame[h] = Idle
  /\ depub.pc # "publishing" => frame[Service] = Idle
  /\ ~Listening => Quiet

\* A suspended creation holds its uid, a suspended removal has let go of it;
\* subscriptions are those of tracked uids and none is lost.
Wired ==
  /\ leaked = {}
  /\ \A s \in Slot : frame[s].kind = "subscribe" =>
       entities[frame[s].uid] = s /\ unsubs[frame[s].uid] = None
  /\ \A s \in Slot : frame[s].kind = "remove" => ~Tracked(frame[s].uid)
  /\ \A u \in Uid : unsubs[u] # None => Tracked(u)
  /\ ~Listening => \A u \in Uid : ~Tracked(u)
  /\ stage = "running" => \A u \in Uid : entities[u] \in Handler =>
       frame[entities[u]].kind = "subscribe" /\ frame[entities[u]].uid = u

\* Only a running entry shows anything: the entities on the platform and the
\* one whose removal is awaited.
Visible ==
  IF stage = "running"
    THEN /\ \A u \in Uid : u \in states <=> entities[u] = "added" \/ Removing(u)
         /\ \A s \in Slot : frame[s].kind = "remove" => frame[s].added
    ELSE states = {}

\* What is shown is registered, and a depublication has yet to come to the
\* tracked entities of its snapshot.
Remembered ==
  /\ states \cap Uid \subseteq registry
  /\ depub.pc # "idle" => \A u \in depub.doomed \cap Uid : Tracked(u) => u \in depub.todo

\* The count of every bridge is exact, and a depublication drops the count of
\* a bridge that has no tracked entity left.
Exact ==
  stage = "running" =>
    /\ \A b \in Bridge : counts[b] = Cardinality(TrackedOf(b)) + Cardinality(RemovingOf(b))
    /\ \A u \in Uid : Tracked(u) \/ Removing(u) => entityBridge[u] = BridgeOf[u]
    /\ depub.pc # "idle" => TrackedOf(depub.bridge) \subseteq depub.todo
    /\ depub.pc = "clearing" => depub.todo = {}

\* Shown diagnostics are held for their bridge, or their removal is awaited.
Attached ==
  stage = "running" =>
    /\ \A b \in Bridge : metas[b] # "failed"
    /\ \A b \in Bridge \cap states :
         metas[b] = "added" \/ \E s \in Slot : frame[s].kind = "removeMeta" /\ frame[s].bridge = b
    /\ \A s \in Slot : frame[s].kind = "removeMeta" => frame[s].added

\* The assumptions under which all of this holds: one handler at a time, and
\* no subscription that raises; publishes may.
Serial == Interleaved = FALSE /\ "subscribe" \notin Failures

LEMMA Subscribes == ASSUME Serial, NEW s, SubscribeFails(s) PROVE FALSE
  BY DEF Serial, SubscribeFails

\* A discovery topic of its own for every uid.
Distinct == \A u, v \in Uid : TopicOf[u] = TopicOf[v] => u = v

(***************************************************************************)
(* Who is suspended                                                        *)
(***************************************************************************)

\* A step that suspends no further coroutine.
LEMMA AloneShrinks ==
  ASSUME Alone, stage' = stage, depub' = depub,
         \A r \in Slot : frame'[r] # Idle => frame[r] # Idle
  PROVE  Alone'
  BY DEF Alone, Quiet, Listening, Slot

\* With one handler at a time there is at most one suspended frame.
LEMMA AloneStep == Serial /\ TypeOK /\ Alone /\ [Next]_vars => Alone'
  <1> SUFFICES ASSUME Serial, TypeOK, Alone, [Next]_vars PROVE Alone'
    OBVIOUS
  <1>0. CanRun <=> Quiet
    BY DEF CanRun, Serial
  <1>1. ASSUME Quiet' PROVE Alone'
    BY <1>1 DEF Alone, Quiet, Slot
  <1>2. CASE Setup \/ UnloadPlatforms \/ UnloadEntry
    BY <1>0, <1>1, <1>2 DEF Setup, UnloadPlatforms, UnloadEntry, Quiet
  <1>3. CASE Crash
    BY <1>1, <1>3 DEF Crash, Quiet, NoDepub
  <1>4. ASSUME NEW h \in Handler, NEW u \in Uid, NEW st \in StateTopic,
               CreateEntity(h, u, st)
        PROVE  Alone'
    BY <1>0, <1>4, Sorts DEF CreateEntity, Alone, Quiet, Listening, TypeOK, Slot
  <1>5. ASSUME NEW h \in Handler, NEW t \in Topic, RemovalMessage(h, t) PROVE Alone'
    BY <1>0, <1>5, Sorts DEF RemovalMessage, StartRemoval, Alone, Quiet, Listening, TypeOK, Slot
  <1>6. ASSUME NEW s \in Slot, FinishSubscribe(s) \/ FinishRemoveMeta(s) PROVE Alone'
    <2>1. stage' = stage /\ depub' = depub
      BY <1>6 DEF FinishSubscribe, FinishRemoveMeta
    <2>2. \A r \in Slot : frame'[r] # Idle => frame[r] # Idle
      BY <1>6 DEF FinishSubscribe, FinishRemoveMeta, TypeOK
    <2> QED BY <2>1, <2>2, AloneShrinks
  <1>7. ASSUME NEW s \in Slot, FinishRemove(s) PROVE Alone'
    <2>1. stage' = stage /\ depub' = depub
      BY <1>7 DEF FinishRemove
    <2>2. frame[s] # Idle /\ \A r \in Slot \ {s} : frame'[r] = frame[r]
      BY <1>7 DEF FinishRemove, SettleBridge, TypeOK, Idle
    <2> QED BY <2>1, <2>2, AloneShrinks
  <1>8. ASSUME NEW b \in Bridge, StartDepublish(b) PROVE Alone'
    BY <1>0, <1>8 DEF StartDepublish, Alone, Quiet, Listening, Slot
  <1>9. ASSUME NEW u \in Uid, DepublishEntity(u) PROVE Alone'
    <2>1. stage' = stage /\ depub'.pc = depub.pc /\ depub.pc = "publishing"
      BY <1>9 DEF DepublishEntity, StartRemoval, TypeOK, Depub
    <2>2. \A h \in Handler : frame'[h] = frame[h]
      BY <1>9, Sorts DEF DepublishEntity, StartRemoval, TypeOK, Slot
    <2> QED BY <2>1, <2>2, Sorts DEF Alone, Quiet, Listening, Slot
  <1>10. CASE SweepRegistry \/ FinishDepublish
    <2>1. stage' = stage /\ frame' = frame /\ depub.pc # "idle"
      BY <1>10 DEF SweepRegistry, FinishDepublish
    <2>3. SweepRegistry => depub'.pc = "clearing"
      BY DEF SweepRegistry, TypeOK, Depub
    <2>4. FinishDepublish => depub'.pc = "idle"
      BY DEF FinishDepublish, NoDepub
    <2>2. frame[Service] = Idle
      BY <1>10 DEF SweepRegistry, FinishDepublish, RemovalDone, Alone
    <2> QED BY <1>10, <2>1, <2>2, <2>3, <2>4 DEF Alone, Quiet, Listening, Slot
  <1>11. ASSUME UNCHANGED <<stage, frame, depub>> PROVE Alone'
    BY <1>11, AloneShrinks
  <1>12. ASSUME NEW u \in Uid, NEW st \in StateTopic, UpdateEntity(u, st) PROVE Alone'
    BY <1>11, <1>12 DEF UpdateEntity
  <1>13. ASSUME NEW b \in Bridge, NEW ok \in BOOLEAN, HandleMetadata(b, ok) PROVE Alone'
    BY <1>11, <1>13 DEF HandleMetadata
  <1>14. ASSUME NEW u \in Uid, StateMessage(u) PROVE Alone'
    BY <1>11, <1>14 DEF StateMessage
  <1>15. CASE UNCHANGED vars
    BY <1>11, <1>15 DEF vars
  <1>16. CASE DepublishFails
    <2>1. depub.pc # "idle" /\ frame' = frame /\ depub'.pc = "idle"
      BY <1>16 DEF DepublishFails, NoDepub
    <2>2. frame[Service] = Idle
      BY <1>16 DEF DepublishFails, RemovalDone, Alone
    <2> QED BY <1>1, <2>1, <2>2 DEF Alone, Quiet, Slot
  <1> QED
    BY <1>2, <1>3, <1>4, <1>5, <1>6, <1>7, <1>8, <1>9, <1>10, <1>12, <1>13, <1>14,
       <1>15, <1>16, Subscribes DEF Next

(***************************************************************************)
(* Tables, frames and subscriptions                                        *)
(***************************************************************************)

\* A removal starts only when no coroutine is suspended.
LEMMA NobodyElse ==
  /\ Serial /\ CanRun => \A r \in Slot : frame[r] = Idle
  /\ Alone /\ depub.pc = "publishing" /\ RemovalDone => \A r \in Slot : frame[r] = Idle
  BY DEF Serial, CanRun, Quiet, Alone, RemovalDone, Slot

\* The awaited subscription is the only thing suspended, and it is new.
LEMMA WiredSubscribe ==
  ASSUME TypeOK, Alone, Wired, NEW s \in Slot, FinishSubscribe(s)
  PROVE  Wired'
  <1> DEFINE u == frame[s].uid
  <1>1. u \in Uid /\ frame[s].st \in StateTopic /\ frame[s] # Idle
    BY FrameTypes DEF FinishSubscribe, Idle
  <1>2. \A r \in Slot \ {s} : frame[r] = Idle
    BY <1>1 DEF Alone
  <1>3. \A r \in Slot : frame'[r] = Idle
    BY <1>2 DEF FinishSubscribe, TypeOK
  <1>4. entities[u] = s /\ unsubs[u] = None
    BY DEF FinishSubscribe, Wired
  <1>5. leaked' = {} /\ stage' = stage
    BY <1>4 DEF FinishSubscribe, Wired
  <1>6. entities[u] # "absent" /\ entities'[u] # "absent"
    BY <1>1, <1>4, Sorts DEF FinishSubscribe, TypeOK, Tracked, Slot
  <1>7. \A v \in Uid \ {u} : entities'[v] = entities[v] /\ unsubs'[v] = unsubs[v]
    BY <1>1 DEF FinishSubscribe, TypeOK
  <1>8. \A v \in Uid : unsubs'[v] # None => Tracked(v)'
    BY <1>6, <1>7 DEF Wired, Tracked
  <1>9. Listening'
    BY <1>1, <1>5 DEF Alone, Quiet, Listening
  <1>10. ASSUME stage' = "running", NEW v \in Uid PROVE entities'[v] \notin Handler
    <2>1. CASE v = u
      BY <1>1, <1>4, <1>5, <1>10, <2>1, Sorts DEF FinishSubscribe, TypeOK
    <2>2. CASE v # u
      <3>1. entities[v] \in Handler => frame[entities[v]].uid = v /\ entities[v] = s
        BY <1>2, <1>5, <1>10 DEF Wired, Slot, Idle
      <3> QED BY <1>7, <2>2, <3>1
    <2> QED BY <2>1, <2>2
  <1> QED BY <1>3, <1>5, <1>8, <1>9, <1>10 DEF Wired, Idle

\* A removal takes subscription and entity out together.
LEMMA WiredRemoval ==
  ASSUME TypeOK, Wired, NEW s \in Slot, NEW t \in Topic, StartRemoval(s, t),
         \A r \in Slot : frame[r] = Idle
  PROVE  Wired'
  <1> DEFINE u == topicUid[t]
  <1>1. u \in Uid
    BY DEF StartRemoval, TypeOK
  <1>2. /\ stage' = stage /\ leaked' = leaked
        /\ entities' = [entities EXCEPT ![u] = "absent"]
        /\ unsubs' = [unsubs EXCEPT ![u] = None]
    BY DEF StartRemoval
  <1>3. \A v \in Uid : Tracked(v)' => Tracked(v)
    BY <1>1, <1>2 DEF TypeOK, Tracked
  <1>4. entities'[u] = "absent" /\ unsubs'[u] = None
    BY <1>1, <1>2 DEF TypeOK, Tracked
  <1>5. \A r \in Slot : \/ frame'[r] = Idle
                        \/ frame'[r].kind = "remove" /\ frame'[r].uid = u
    BY DEF StartRemoval, TypeOK
  <1>6. \A v \in Uid : unsubs'[v] # None => Tracked(v)'
    BY <1>1, <1>2, <1>4 DEF Wired, TypeOK, Tracked
  <1>7. stage' = "running" => \A v \in Uid : entities'[v] \notin Handler
    BY <1>1, <1>2, Sorts DEF Wired, TypeOK, Slot, Idle
  <1>8. \A r \in Slot :
          /\ frame'[r].kind # "subscribe"
          /\ frame'[r].kind = "remove" => entities'[frame'[r].uid] = "absent"
    BY <1>4, <1>5 DEF Idle
  <1>9. ~Listening' => \A v \in Uid : ~Tracked(v)'
    BY <1>2, <1>3 DEF Wired, Listening
  <1> QED BY <1>2, <1>6, <1>7, <1>8, <1>9 DEF Wired, Tracked

\* Every step keeps tables, frames and subscriptions together.
LEMMA WiredStep == Serial /\ TypeOK /\ Alone /\ Wired /\ [Next]_vars => Wired'
  <1> SUFFICES ASSUME Serial, TypeOK, Alone, Wired, [Next]_vars PROVE Wired'
    OBVIOUS
  <1>0. CanRun => Quiet
    BY DEF CanRun, Serial
  <1>1. ASSUME EmptyManager, leaked' = {}, \A r \in Slot : frame'[r] = Idle PROVE Wired'
    BY <1>1, Sorts DEF EmptyManager, NoEntities, NoUnsubs, Wired, Tracked, Idle
  <1>2. CASE Setup
    <2>1. ~Listening
      BY <1>2 DEF Setup, Listening
    <2>2. leaked' = {}
      BY <1>2, <2>1 DEF Setup, Wired
    <2> QED BY <1>1, <1>2, <2>2 DEF Setup, Quiet
  <1>3. CASE UnloadEntry
    BY <1>0, <1>1, <1>3 DEF UnloadEntry, Quiet, Wired
  <1>4. CASE Crash
    BY <1>1, <1>4 DEF Crash
  <1>5. CASE UnloadPlatforms
    BY <1>5 DEF UnloadPlatforms, manager, Wired, Tracked, Listening
  <1>6. ASSUME UNCHANGED <<stage, entities, unsubs, leaked, frame>> PROVE Wired'
    BY <1>6 DEF Wired, Tracked, Listening
  <1>7. ASSUME NEW h \in Handler, NEW u \in Uid, NEW st \in StateTopic,
               CreateEntity(h, u, st)
        PROVE  Wired'
    <2>1. \A r \in Slot : frame[r] = Idle
      BY <1>0, <1>7 DEF CreateEntity, Quiet
    <2>2. Listening /\ stage' = stage /\ leaked' = leaked /\ unsubs' = unsubs
      BY <1>7 DEF CreateEntity
    <2>3. unsubs[u] = None
      BY <1>7 DEF CreateEntity, Wired
    <2>4. Tracked(u)' /\ entities'[u] = h
      BY <1>7, Sorts DEF CreateEntity, TypeOK, Tracked
    <2>5. \A v \in Uid \ {u} : entities'[v] = entities[v]
      BY <1>7 DEF CreateEntity, TypeOK
    <2>6. frame' = [frame EXCEPT ![h] = [kind |-> "subscribe", uid |-> u, st |-> st]]
      BY <1>7 DEF CreateEntity
    <2>7. \A r \in Slot : r # h => frame'[r] = Idle
      BY <2>1, <2>6 DEF TypeOK
    <2>8. frame'[h].kind = "subscribe" /\ frame'[h].uid = u
      BY <2>6 DEF TypeOK, Slot
    <2>9. stage = "running" => \A v \in Uid \ {u} : entities'[v] \notin Handler
      BY <2>1, <2>5 DEF Wired, Slot, Idle
    <2> QED BY <2>2, <2>3, <2>4, <2>5, <2>7, <2>8, <2>9
            DEF Wired, Tracked, Listening, Slot, Idle
  <1>8. ASSUME NEW h \in Handler, NEW t \in Topic, RemovalMessage(h, t) PROVE Wired'
    BY <1>8, NobodyElse, WiredRemoval DEF RemovalMessage, Slot
  <1>9. ASSUME NEW u \in Uid, DepublishEntity(u) PROVE Wired'
    <2>1. Service \in Slot /\ TopicOf[u] \in Topic
      BY Wire DEF Slot
    <2> QED BY <1>6, <1>9, <2>1, NobodyElse, WiredRemoval DEF DepublishEntity, manager
  <1>10. ASSUME NEW s \in Slot, FinishSubscribe(s) PROVE Wired'
    BY <1>10, WiredSubscribe
  <1>11. ASSUME NEW s \in Slot, FinishRemove(s) \/ FinishRemoveMeta(s) PROVE Wired'
    <2>1. UNCHANGED <<stage, entities, unsubs, leaked>>
      BY <1>11 DEF FinishRemove, FinishRemoveMeta, manager
    <2>2. frame[s].kind \in {"remove", "removeMeta"}
      BY <1>11 DEF FinishRemove, FinishRemoveMeta
    <2>3. /\ frame'[s].kind \notin {"subscribe", "remove"}
          /\ \A r \in Slot \ {s} : frame'[r] = frame[r]
      BY <1>11 DEF FinishRemove, FinishRemoveMeta, SettleBridge, TypeOK, Idle
    <2> QED BY <2>1, <2>2, <2>3 DEF Wired, Tracked, Listening, Slot
  <1>12. ASSUME NEW u \in Uid, NEW st \in StateTopic, UpdateEntity(u, st) PROVE Wired'
    BY <1>6, <1>12 DEF UpdateEntity
  <1>13. ASSUME NEW b \in Bridge, NEW ok \in BOOLEAN, HandleMetadata(b, ok) PROVE Wired'
    BY <1>6, <1>13 DEF HandleMetadata
  <1>14. ASSUME NEW u \in Uid, StateMessage(u) PROVE Wired'
    BY <1>6, <1>14 DEF StateMessage, manager
  <1>15. ASSUME NEW b \in Bridge, StartDepublish(b) PROVE Wired'
    BY <1>6, <1>15 DEF StartDepublish, manager
  <1>16. CASE SweepRegistry \/ FinishDepublish \/ DepublishFails \/ UNCHANGED vars
    BY <1>6, <1>16 DEF SweepRegistry, FinishDepublish, DepublishFails, vars, manager
  <1> QED
    BY <1>2, <1>3, <1>4, <1>5, <1>7, <1>8, <1>9, <1>10, <1>11, <1>12, <1>13, <1>14,
       <1>15, <1>16, Subscribes DEF Next

(***************************************************************************)
(* What Home Assistant shows                                               *)
(***************************************************************************)

\* With no coroutine suspended, the tracked entities of a running entry are on
\* the platform.
LEMMA TrackedAdded ==
  ASSUME TypeOK, Wired, stage = "running", \A r \in Slot : frame[r] = Idle, NEW u \in Uid
  PROVE  Tracked(u) => entities[u] = "added"
  BY DEF TypeOK, Wired, Tracked, Slot, Idle

\* An entity whose removal begins stays visible until it has ended.
LEMMA VisibleRemoval ==
  ASSUME TypeOK, Wired, Visible, NEW s \in Slot, NEW t \in Topic, StartRemoval(s, t),
         \A r \in Slot : frame[r] = Idle
  PROVE  Visible'
  <1> DEFINE u == topicUid[t]
  <1>1. u \in Uid
    BY DEF StartRemoval, TypeOK
  <1>2. stage' = stage /\ states' = states
    BY DEF StartRemoval, host
  <1>3. entities' = [entities EXCEPT ![u] = "absent"]
    BY DEF StartRemoval
  <1>4. CASE stage # "running"
    BY <1>2, <1>4 DEF Visible
  <1>5. CASE stage = "running" /\ Tracked(u)
    <2>1. entities[u] = "added"
      BY <1>1, <1>5, TrackedAdded
    <2>2. frame' = [frame EXCEPT ![s] = [kind |-> "remove", uid |-> u, added |-> TRUE]]
      BY <1>5, <2>1 DEF StartRemoval
    <2>3. frame'[s] = [kind |-> "remove", uid |-> u, added |-> TRUE]
      BY <2>2 DEF TypeOK
    <2>4. \A r \in Slot \ {s} : frame'[r].kind # "remove"
      BY <2>2 DEF TypeOK, Idle
    <2>5. \A v \in Uid : Removing(v)' <=> v = u
      BY <2>3, <2>4 DEF Removing
    <2>6. \A v \in Uid : v \in states <=> entities[v] = "added"
      BY <1>5 DEF Visible, Removing, Idle
    <2>7. \A v \in Uid : v \in states <=> entities'[v] = "added" \/ v = u
      BY <1>1, <1>3, <2>1, <2>6 DEF TypeOK
    <2>8. \A r \in Slot : frame'[r].kind = "remove" => frame'[r].added
      BY <2>3, <2>4
    <2> QED BY <1>2, <2>5, <2>7, <2>8, <1>5 DEF Visible
  <1>6. CASE ~Tracked(u)
    <2>1. entities' = entities /\ frame' = frame
      BY <1>1, <1>3, <1>6 DEF StartRemoval, TypeOK, Tracked
    <2> QED BY <1>2, <2>1 DEF Visible, Removing
  <1> QED BY <1>4, <1>5, <1>6

\* Every step shows exactly the entities on the platform.
LEMMA VisibleStep ==
  Serial /\ TypeOK /\ Alone /\ Wired /\ Visible /\ [Next]_vars => Visible'
  <1> SUFFICES ASSUME Serial, TypeOK, Alone, Wired, Visible, [Next]_vars PROVE Visible'
    OBVIOUS
  <1>0. CanRun => Quiet
    BY DEF CanRun, Serial
  <1>1. ASSUME UNCHANGED <<stage, entities, frame>>, states' \cap Uid = states \cap Uid,
               stage # "running" => states' = states
        PROVE  Visible'
    BY <1>1 DEF Visible, Removing
  <1>2. CASE Setup
    BY <1>2 DEF Setup, EmptyManager, NoEntities, Visible, Removing, Quiet, Idle
  <1>3. CASE UnloadPlatforms \/ UnloadEntry \/ Crash
    BY <1>3 DEF UnloadPlatforms, UnloadEntry, Crash, Visible, host
  <1>4. ASSUME NEW h \in Handler, NEW u \in Uid, NEW st \in StateTopic,
               CreateEntity(h, u, st)
        PROVE  Visible'
    <2>1. \A r \in Slot : frame[r] = Idle
      BY <1>0, <1>4 DEF CreateEntity, Quiet
    <2>2. stage' = stage /\ states' = states
      BY <1>4 DEF CreateEntity, host
    <2>3. \A v \in Uid : entities'[v] = "added" <=> entities[v] = "added"
      BY <1>4, Sorts DEF CreateEntity, TypeOK, Tracked
    <2>4. \A r \in Slot : frame'[r].kind # "remove"
      BY <1>4, <2>1 DEF CreateEntity, TypeOK, Idle
    <2> QED BY <2>1, <2>2, <2>3, <2>4 DEF Visible, Removing, Idle
  <1>5. ASSUME NEW u \in Uid, NEW st \in StateTopic, UpdateEntity(u, st) PROVE Visible'
    BY <1>1, <1>5 DEF UpdateEntity, Visible
  <1>6. ASSUME NEW u \in Uid, StateMessage(u) PROVE Visible'
    BY <1>1, <1>6 DEF StateMessage, manager, Visible
  <1>7. ASSUME NEW h \in Handler, NEW t \in Topic, RemovalMessage(h, t) PROVE Visible'
    BY <1>7, NobodyElse, VisibleRemoval DEF RemovalMessage, Slot
  <1>8. ASSUME NEW u \in Uid, DepublishEntity(u) PROVE Visible'
    <2>1. Service \in Slot /\ TopicOf[u] \in Topic
      BY Wire DEF Slot
    <2> QED BY <1>1, <1>8, <2>1, NobodyElse, VisibleRemoval DEF DepublishEntity, manager, host
  <1>9. ASSUME NEW s \in Slot, FinishSubscribe(s) PROVE Visible'
    <2> DEFINE u == frame[s].uid
    <2>1. u \in Uid /\ frame[s] # Idle /\ frame[s].kind # "remove"
      BY <1>9, FrameTypes DEF FinishSubscribe, Idle
    <2>2. \A r \in Slot : frame[r].kind # "remove" /\ frame'[r].kind # "remove"
      BY <1>9, <2>1 DEF FinishSubscribe, Alone, TypeOK, Idle
    <2>3. stage' = stage /\ entities[u] = s
      BY <1>9 DEF FinishSubscribe, Wired
    <2>4. CASE stage # "running"
      BY <1>9, <2>3, <2>4 DEF FinishSubscribe, host, Visible
    <2>5. CASE stage = "running"
      <3>1. entities' = [entities EXCEPT ![u] = "added"] /\ states' = states \cup {u}
        BY <1>9, <2>3, <2>5 DEF FinishSubscribe
      <3>2. \A v \in Uid : v \in states' <=> entities'[v] = "added"
        BY <2>1, <2>2, <2>5, <3>1 DEF Visible, Removing, TypeOK
      <3> QED BY <2>2, <2>3, <2>5, <3>2 DEF Visible, Removing
    <2> QED BY <2>4, <2>5
  <1>10. ASSUME NEW s \in Slot, FinishRemove(s) PROVE Visible'
    <2> DEFINE u == frame[s].uid
    <2>1. u \in Uid /\ frame[s].kind = "remove" /\ frame[s] # Idle
      BY <1>10, FrameTypes DEF FinishRemove, Idle
    <2>2. \A r \in Slot : frame'[r].kind # "remove" /\ (r # s => frame[r].kind # "remove")
      <3>1. \A r \in Slot \ {s} : frame[r] = Idle /\ frame'[r] = frame[r]
        BY <1>10, <2>1 DEF FinishRemove, SettleBridge, Alone, TypeOK
      <3>2. frame'[s].kind # "remove"
        BY <1>10 DEF FinishRemove, SettleBridge, TypeOK, Idle
      <3> QED BY <3>1, <3>2 DEF Idle
    <2>3. UNCHANGED <<stage, entities>>
      BY <1>10 DEF FinishRemove
    <2>4. CASE stage # "running"
      BY <1>10, <2>3, <2>4 DEF FinishRemove, Purge, Visible
    <2>5. CASE stage = "running"
      <3>1. states' = states \ {u}
        BY <1>10, <2>1, <2>5 DEF FinishRemove, Purge, Visible
      <3>2. entities[u] # "added"
        BY <2>1 DEF Wired, Tracked
      <3>3. \A v \in Uid \ {u} : ~Removing(v)
        BY <2>2 DEF Removing
      <3>4. \A v \in Uid : v \in states' <=> entities'[v] = "added"
        BY <2>3, <2>5, <3>1, <3>2, <3>3 DEF Visible
      <3> QED BY <2>2, <2>3, <2>5, <3>4 DEF Visible, Removing
    <2> QED BY <2>4, <2>5
  <1>11. ASSUME NEW s \in Slot, FinishRemoveMeta(s) PROVE Visible'
    <2>1. frame[s].bridge \in Bridge /\ frame[s].kind = "removeMeta"
      BY <1>11, FrameTypes DEF FinishRemoveMeta
    <2>2. \A v \in Uid : v \in states' <=> v \in states
      BY <1>11, <2>1, Sorts DEF FinishRemoveMeta, Purge
    <2>3. \A r \in Slot : frame'[r] = frame[r] \/ r = s
      BY <1>11 DEF FinishRemoveMeta, TypeOK
    <2>4. frame'[s].kind # "remove"
      BY <1>11 DEF FinishRemoveMeta, TypeOK, Idle
    <2>5. \A v \in Uid : Removing(v)' <=> Removing(v)
      BY <2>1, <2>3, <2>4 DEF Removing
    <2>6. UNCHANGED <<stage, entities>> /\ states' \subseteq states
      BY <1>11 DEF FinishRemoveMeta, manager, Purge
    <2> QED BY <2>2, <2>3, <2>4, <2>5, <2>6 DEF Visible
  <1>12. ASSUME NEW b \in Bridge, NEW ok \in BOOLEAN, HandleMetadata(b, ok) PROVE Visible'
    <2>1. states' \in {states, states \cup {b}} /\ (stage # "running" => states' = states)
      BY <1>12 DEF HandleMetadata
    <2>2. states' \cap Uid = states \cap Uid
      BY <2>1, Sorts
    <2> QED BY <1>1, <1>12, <2>1, <2>2 DEF HandleMetadata
  <1>13. ASSUME NEW b \in Bridge, StartDepublish(b) PROVE Visible'
    BY <1>1, <1>13 DEF StartDepublish, manager, host
  <1>14. CASE SweepRegistry \/ FinishDepublish \/ DepublishFails \/ UNCHANGED vars
    BY <1>1, <1>14
       DEF SweepRegistry, FinishDepublish, DepublishFails, vars, manager, host
  <1> QED
    BY <1>2, <1>3, <1>4, <1>5, <1>6, <1>7, <1>8, <1>9, <1>10, <1>11, <1>12, <1>13,
       <1>14, Subscribes DEF Next

(***************************************************************************)
(* What Home Assistant remembers                                           *)
(***************************************************************************)

\* With distinct topics a depublication has removed the tracked entity it has
\* just published the empty payload of.
LEMMA DepublishUntracks ==
  ASSUME Distinct, TypeOK, Reachable, NEW u \in Uid, DepublishEntity(u)
  PROVE  ~Tracked(u)' /\ \A v \in Uid : Tracked(v)' => Tracked(v)
  <1>1. TopicOf[u] \in Topic /\ u # None
    BY Wire, Sorts
  <1>2. Tracked(u) => topicUid[TopicOf[u]] = u
    BY DEF Distinct, Reachable
  <1>3. CASE Tracked(u)
    <2>1. StartRemoval(Service, TopicOf[u])
      BY <1>1, <1>2, <1>3 DEF DepublishEntity
    <2>2. entities' = [entities EXCEPT ![u] = "absent"]
      BY <1>2, <1>3, <2>1 DEF StartRemoval
    <2> QED BY <2>2 DEF TypeOK, Tracked
  <1>4. CASE ~Tracked(u)
    <2>1. entities' = entities \/ StartRemoval(Service, TopicOf[u])
      BY DEF DepublishEntity, manager
    <2>2. StartRemoval(Service, TopicOf[u]) =>
            topicUid[TopicOf[u]] \in Uid
              /\ entities' = [entities EXCEPT ![topicUid[TopicOf[u]]] = "absent"]
      BY <1>1 DEF StartRemoval, TypeOK
    <2> QED BY <1>4, <2>1, <2>2 DEF TypeOK, Tracked
  <1> QED BY <1>3, <1>4

\* Every step keeps what is shown in the registry; the sweep of a depublication
\* spares nothing that is shown, because nothing of its snapshot is left.
LEMMA RememberedStep ==
  Serial /\ Distinct /\ TypeOK /\ Reachable /\ Alone /\ Wired /\ Visible /\ Remembered
    /\ [Next]_vars => Remembered'
  <1> SUFFICES ASSUME Serial, Distinct, TypeOK, Reachable, Alone, Wired, Visible,
                      Remembered, [Next]_vars
               PROVE  Remembered'
    OBVIOUS
  <1>0. CanRun => Quiet
    BY DEF CanRun, Serial
  <1>1. ASSUME (states \cap Uid \subseteq registry)', depub'.pc = "idle" PROVE Remembered'
    BY <1>1 DEF Remembered
  <1>2. ASSUME (states \cap Uid \subseteq registry)', depub' = depub,
               \A v \in Uid : Tracked(v)' => Tracked(v)
        PROVE  Remembered'
    BY <1>2 DEF Remembered
  <1>3. CASE Setup \/ UnloadPlatforms \/ UnloadEntry
    BY <1>0, <1>1, <1>3 DEF Setup, UnloadPlatforms, UnloadEntry, Quiet, host, Remembered
  <1>4. CASE Crash
    BY <1>1, <1>4 DEF Crash, NoDepub
  <1>5. ASSUME NEW h \in Handler, NEW u \in Uid, NEW st \in StateTopic,
               CreateEntity(h, u, st)
        PROVE  Remembered'
    BY <1>0, <1>1, <1>5 DEF CreateEntity, Quiet, host, Remembered
  <1>6. ASSUME NEW u \in Uid, NEW st \in StateTopic, UpdateEntity(u, st) PROVE Remembered'
    BY <1>0, <1>1, <1>6 DEF UpdateEntity, Quiet, Visible, Remembered
  <1>7. ASSUME NEW u \in Uid, StateMessage(u) PROVE Remembered'
    BY <1>2, <1>7 DEF StateMessage, manager, Tracked, Visible, Remembered
  <1>8. ASSUME NEW h \in Handler, NEW t \in Topic, RemovalMessage(h, t) PROVE Remembered'
    BY <1>0, <1>1, <1>8 DEF RemovalMessage, StartRemoval, Quiet, host, Remembered
  <1>9. ASSUME NEW s \in Slot, FinishSubscribe(s) PROVE Remembered'
    <2> DEFINE u == frame[s].uid
    <2>1. u \in Uid /\ entities[u] = s
      BY <1>9, FrameTypes DEF FinishSubscribe, Wired
    <2>2. \A v \in Uid : Tracked(v)' => Tracked(v)
      BY <1>9, <2>1, Sorts DEF FinishSubscribe, TypeOK, Tracked, Slot
    <2>3. (states \cap Uid \subseteq registry)'
      BY <1>9 DEF FinishSubscribe, host, Remembered
    <2>4. depub' = depub
      BY <1>9 DEF FinishSubscribe
    <2> QED BY <1>2, <2>2, <2>3, <2>4
  <1>10. ASSUME NEW s \in Slot, FinishRemove(s) \/ FinishRemoveMeta(s) PROVE Remembered'
    BY <1>2, <1>10
       DEF FinishRemove, FinishRemoveMeta, Purge, manager, Tracked, Remembered
  <1>11. ASSUME NEW b \in Bridge, NEW ok \in BOOLEAN, HandleMetadata(b, ok)
         PROVE  Remembered'
    <2>1. states' \subseteq states \cup {b} /\ registry \subseteq registry'
      BY <1>11 DEF HandleMetadata
    <2>2. (states \cap Uid \subseteq registry)'
      BY <2>1, Sorts DEF Remembered
    <2> QED BY <1>2, <1>11, <2>2 DEF HandleMetadata, Tracked
  <1>12. ASSUME NEW b \in Bridge, StartDepublish(b) PROVE Remembered'
    BY <1>12 DEF StartDepublish, host, Remembered
  <1>13. ASSUME NEW u \in Uid, DepublishEntity(u) PROVE Remembered'
    <2>1. ~Tracked(u)' /\ \A v \in Uid : Tracked(v)' => Tracked(v)
      BY <1>13, DepublishUntracks
    <2>2. UNCHANGED <<states, registry>> /\ depub.pc # "idle"
      BY <1>13 DEF DepublishEntity, StartRemoval, host
    <2>3. depub'.todo = depub.todo \ {u} /\ depub'.doomed = depub.doomed
      BY <1>13 DEF DepublishEntity, TypeOK, Depub
    <2> QED BY <2>1, <2>2, <2>3 DEF Remembered
  <1>14. CASE SweepRegistry
    <2>1. \A r \in Slot : frame[r] = Idle
      BY <1>14, NobodyElse DEF SweepRegistry
    <2>2. \A v \in states \cap Uid : Tracked(v)
      BY <2>1 DEF Visible, Removing, Tracked, Idle
    <2>3. \A v \in states \cap Uid : v \notin depub.doomed
      BY <1>14, <2>2 DEF SweepRegistry, Remembered
    <2>4. depub'.doomed = {} /\ states' = states /\ registry' = registry \ depub.doomed
      BY <1>14 DEF SweepRegistry, TypeOK, Depub
    <2> QED BY <2>3, <2>4 DEF Remembered
  <1>15. CASE FinishDepublish \/ DepublishFails
    BY <1>1, <1>15 DEF FinishDepublish, DepublishFails, NoDepub, host, Remembered
  <1>16. CASE UNCHANGED vars
    BY <1>2, <1>16 DEF vars, manager, host, Tracked, Remembered
  <1> QED
    BY <1>3, <1>4, <1>5, <1>6, <1>7, <1>8, <1>9, <1>10, <1>11, <1>12, <1>13, <1>14,
       <1>15, <1>16, Subscribes DEF Next

(***************************************************************************)
(* The theorems about entities                                             *)
(***************************************************************************)
SerialInv == Alone /\ Wired /\ Visible

\* The layers that do not depend on the topics.
LEMMA SerialInvariant == ASSUME Serial PROVE Spec => []SerialInv
  <1> USE DEF SerialInv
  <1>1. Init => SerialInv
    BY Sorts DEF Init, Alone, Wired, Visible, Quiet, Listening, NoEntities, NoUnsubs,
                 NoDepub, Idle, Tracked, Slot
  <1>2. TypeOK /\ SerialInv /\ [Next]_vars => SerialInv'
    BY AloneStep, WiredStep, VisibleStep
  <1> QED BY <1>1, <1>2, TypeCorrect, PTL DEF Spec

\* With one handler at a time, the subscriptions of a running entry are those
\* of its tracked entities, and none is lost.
THEOREM SubscriptionsFollow == ASSUME Serial PROVE Spec => []SubscribedIffTracked
  <1>1. TypeOK /\ SerialInv /\ FedWhileAdded => SubscribedIffTracked
    BY TrackedAdded
       DEF SerialInv, Wired, FedWhileAdded, SubscribedIffTracked, Settled, Quiet
  <1> QED BY <1>1, SerialInvariant, TypeCorrect, AddedIsFed, PTL

\* With one handler at a time, an unloaded entry leaves no state and no
\* subscription behind.
THEOREM UnloadLeavesNothing == ASSUME Serial PROVE Spec => []UnloadClean
  <1>1. SerialInv => UnloadClean
    BY DEF SerialInv, Wired, Visible, UnloadClean, Listening
  <1> QED BY <1>1, SerialInvariant, PTL

\* With distinct topics as well, what is shown is registered.
LEMMA RememberedInvariant == ASSUME Serial, Distinct PROVE Spec => []Remembered
  <1>1. Init => Remembered
    BY DEF Init, Remembered, NoDepub
  <1>2. TypeOK /\ Reachable /\ SerialInv /\ Remembered /\ [Next]_vars => Remembered'
    BY RememberedStep DEF SerialInv
  <1> QED BY <1>1, <1>2, TypeCorrect, RemovalReaches, SerialInvariant, PTL DEF Spec

\* With one handler at a time and a topic for every uid, Home Assistant shows
\* exactly the tracked entities, each of them registered.
THEOREM ShowsTracked == ASSUME Serial, Distinct PROVE Spec => []ShownIffTracked
  <1>1. TypeOK /\ SerialInv /\ Remembered => ShownIffTracked
    <2> SUFFICES ASSUME TypeOK, SerialInv, Remembered, Settled, NEW u \in Uid
                 PROVE  /\ u \in states <=> Tracked(u)
                        /\ Tracked(u) => entities[u] = "added" /\ u \in registry
      BY DEF ShownIffTracked
    <2>1. \A r \in Slot : frame[r] = Idle
      BY DEF Settled, Quiet
    <2>2. Tracked(u) <=> entities[u] = "added"
      BY <2>1, TrackedAdded DEF SerialInv, Settled, Tracked
    <2>3. u \in states <=> entities[u] = "added"
      BY <2>1 DEF SerialInv, Visible, Removing, Settled, Idle
    <2> QED BY <2>2, <2>3 DEF Remembered
  <1> QED BY <1>1, TypeCorrect, SerialInvariant, RememberedInvariant, PTL
(***************************************************************************)
(* The receiving side implements BridgeMirror                              *)
(***************************************************************************)
Announced == IF stage = "running" THEN {u \in Uid : Tracked(u)} ELSE {}
Steps == [Mirror!Next]_(Mirror!view)

\* What BridgeMirror sees of a state: a step that changes none of it stutters.
LEMMA Unseen ==
  ASSUME (stage = "running") <=> (stage' = "running"), Announced' = Announced,
         states' \cap Uid = states \cap Uid, registry' \cap Uid = registry \cap Uid
  PROVE  Steps
  BY DEF Steps, Mirror!view, Announced

\* Registry entries that go when nothing is shown for them are forgotten.
LEMMA Forgotten ==
  ASSUME (stage = "running") <=> (stage' = "running"), Announced' = Announced,
         states' \cap Uid = states \cap Uid,
         NEW S \in SUBSET Uid, S \cap (Announced \cup (states \cap Uid)) = {},
         registry' \cap Uid = (registry \cap Uid) \ S
  PROVE  Steps
  <1>1. Mirror!Forget(S)
    BY DEF Mirror!Forget, Announced
  <1> QED BY <1>1 DEF Steps, Mirror!Next

\* The start of a removal withdraws a shown entity, or nothing.
LEMMA StepsRemoval ==
  ASSUME TypeOK, Wired, Visible, NEW s \in Slot, NEW t \in Topic, StartRemoval(s, t),
         \A r \in Slot : frame[r] = Idle
  PROVE  Steps
  <1> DEFINE u == topicUid[t]
  <1>1. u \in Uid
    BY DEF StartRemoval, TypeOK
  <1>2. /\ UNCHANGED <<stage, states, registry>>
        /\ entities' = [entities EXCEPT ![u] = "absent"]
    BY DEF StartRemoval, host
  <1>3. CASE stage = "running" /\ Tracked(u)
    <2>1. entities[u] = "added"
      BY <1>1, <1>3, TrackedAdded
    <2>2. u \in Announced /\ u \in states
      BY <1>1, <1>3, <2>1 DEF Announced, Visible
    <2>3. Announced' = Announced \ {u}
      BY <1>1, <1>2, <1>3 DEF Announced, Tracked, TypeOK
    <2>4. Mirror!Withdraw(u)
      BY <1>1, <1>2, <1>3, <2>2, <2>3 DEF Mirror!Withdraw, Announced
    <2> QED BY <1>1, <2>4 DEF Steps, Mirror!Next
  <1>4. CASE ~(stage = "running" /\ Tracked(u))
    <2>1. ~Tracked(u) => entities' = entities
      BY <1>1, <1>2 DEF Tracked, TypeOK
    <2>2. Announced' = Announced
      BY <1>2, <1>4, <2>1 DEF Announced, Tracked
    <2> QED BY <1>2, <2>2, Unseen
  <1> QED BY <1>3, <1>4

\* Every step of the receiving side is a step of BridgeMirror or none.
LEMMA StepsNext ==
  Serial /\ Distinct /\ TypeOK /\ Reachable /\ SerialInv /\ Remembered /\ [Next]_vars
    => Steps
  <1> SUFFICES ASSUME Serial, Distinct, TypeOK, Reachable, SerialInv, Remembered, [Next]_vars
               PROVE  Steps
    OBVIOUS
  <1> USE DEF SerialInv
  <1>0. CanRun => Quiet
    BY DEF CanRun, Serial
  <1>1. ASSUME UNCHANGED <<stage, entities>>, states' \cap Uid = states \cap Uid,
               registry' \cap Uid = registry \cap Uid
        PROVE  Steps
    BY <1>1, Unseen DEF Announced, Tracked
  <1>2. CASE Setup
    <2>1. Mirror!Start
      BY <1>2 DEF Setup, EmptyManager, NoEntities, Mirror!Start, Tracked
    <2> QED BY <2>1 DEF Steps, Mirror!Next
  <1>3. CASE UnloadPlatforms \/ (Crash /\ stage = "running")
    <2>1. Mirror!Stop
      BY <1>3 DEF UnloadPlatforms, Crash, Mirror!Stop
    <2> QED BY <2>1 DEF Steps, Mirror!Next
  <1>4. CASE UnloadEntry \/ (Crash /\ stage # "running")
    <2>1. stage # "running" /\ stage' # "running" /\ states' = states /\ registry' = registry
      BY <1>4 DEF UnloadEntry, Crash, host, Visible
    <2> QED BY <2>1, Unseen DEF Announced
  <1>5. ASSUME NEW h \in Handler, NEW u \in Uid, NEW st \in StateTopic,
               CreateEntity(h, u, st)
        PROVE  Steps
    <2>1. UNCHANGED <<stage, states, registry>>
      BY <1>5 DEF CreateEntity, host
    <2>2. CASE stage # "running"
      BY <2>1, <2>2, Unseen DEF Announced
    <2>3. CASE stage = "running"
      <3>1. u \notin Announced /\ u \notin states
        BY <1>0, <1>5, <2>3
           DEF CreateEntity, Announced, Visible, Removing, Quiet, Idle, Tracked
      <3>2. Announced' = Announced \cup {u}
        BY <1>5, <2>1, <2>3, Sorts DEF CreateEntity, Announced, Tracked, TypeOK
      <3>3. Mirror!Announce(u)
        BY <2>1, <2>3, <3>1, <3>2 DEF Mirror!Announce, Announced
      <3> QED BY <3>3 DEF Steps, Mirror!Next
    <2> QED BY <2>2, <2>3
  <1>6. ASSUME NEW u \in Uid, NEW st \in StateTopic, UpdateEntity(u, st) PROVE Steps
    BY <1>1, <1>6 DEF UpdateEntity, Visible
  <1>7. ASSUME NEW u \in Uid, StateMessage(u) PROVE Steps
    BY <1>1, <1>7 DEF StateMessage, manager, Visible
  <1>8. ASSUME NEW h \in Handler, NEW t \in Topic, RemovalMessage(h, t) PROVE Steps
    BY <1>8, NobodyElse, StepsRemoval DEF RemovalMessage, Slot
  <1>9. ASSUME NEW u \in Uid, DepublishEntity(u) PROVE Steps
    <2>1. Service \in Slot /\ TopicOf[u] \in Topic
      BY Wire DEF Slot
    <2> QED BY <1>1, <1>9, <2>1, NobodyElse, StepsRemoval DEF DepublishEntity, manager, host
  <1>10. ASSUME NEW s \in Slot, FinishSubscribe(s) PROVE Steps
    <2> DEFINE u == frame[s].uid
    <2>1. u \in Uid /\ frame[s] # Idle /\ frame[s].kind = "subscribe"
      BY <1>10, FrameTypes DEF FinishSubscribe, Idle
    <2>2. stage' = stage /\ entities[u] = s
      BY <1>10 DEF FinishSubscribe, Wired
    <2>3. CASE stage # "running"
      BY <1>10, <2>2, <2>3, Unseen DEF FinishSubscribe, host, Announced
    <2>4. CASE stage = "running"
      <3>1. /\ entities' = [entities EXCEPT ![u] = "added"]
            /\ states' = states \cup {u} /\ registry' = registry \cup {u}
        BY <1>10, <2>2, <2>4 DEF FinishSubscribe
      <3>2. entities[u] # "absent" /\ entities[u] # "added"
        BY <2>2, Sorts DEF Slot
      <3>3. \A r \in Slot : frame[r].kind # "remove"
        BY <2>1 DEF Alone, Idle
      <3>4. u \notin states
        BY <2>1, <2>4, <3>2, <3>3 DEF Visible, Removing
      <3>5. u \in Announced /\ Announced' = Announced
        BY <2>1, <2>2, <2>4, <3>1, <3>2 DEF Announced, Tracked, TypeOK
      <3>6. Mirror!Show(u)
        BY <2>1, <2>2, <2>4, <3>1, <3>4, <3>5 DEF Mirror!Show, Announced
      <3> QED BY <2>1, <3>6 DEF Steps, Mirror!Next
    <2> QED BY <2>3, <2>4
  <1>11. ASSUME NEW s \in Slot, FinishRemove(s) PROVE Steps
    <2> DEFINE u == frame[s].uid
    <2>1. u \in Uid /\ frame[s].kind = "remove" /\ entities[u] = "absent"
      BY <1>11, FrameTypes DEF FinishRemove, Wired, Tracked
    <2>2. UNCHANGED <<stage, entities>>
      BY <1>11 DEF FinishRemove
    <2>3. Announced' = Announced /\ u \notin Announced
      BY <2>1, <2>2 DEF Announced, Tracked
    <2>4. CASE stage = "running"
      <3>1. frame[s].added /\ u \in states
        BY <2>1, <2>4 DEF Visible, Removing
      <3>2. states' = states \ {u} /\ registry' = registry \ {u}
        BY <1>11, <3>1 DEF FinishRemove, Purge
      <3>3. Mirror!Hide(u)
        BY <2>1, <2>2, <2>3, <2>4, <3>1, <3>2 DEF Mirror!Hide, Announced
      <3> QED BY <2>1, <3>3 DEF Steps, Mirror!Next
    <2>5. CASE stage # "running"
      <3>1. states = {} /\ states' = {}
        BY <1>11, <2>5 DEF FinishRemove, Purge, Visible
      <3>2. registry' = registry \/ registry' = registry \ {u}
        BY <1>11 DEF FinishRemove, Purge
      <3> QED BY <2>1, <2>2, <2>3, <3>1, <3>2, Unseen, Forgotten
    <2> QED BY <2>4, <2>5
  <1>12. ASSUME NEW s \in Slot, FinishRemoveMeta(s) PROVE Steps
    <2>1. frame[s].bridge \notin Uid
      BY <1>12, FrameTypes, Sorts DEF FinishRemoveMeta
    <2>2. states' \cap Uid = states \cap Uid /\ registry' \cap Uid = registry \cap Uid
      BY <1>12, <2>1 DEF FinishRemoveMeta, Purge
    <2> QED BY <1>1, <1>12, <2>2 DEF FinishRemoveMeta, manager
  <1>13. ASSUME NEW b \in Bridge, NEW ok \in BOOLEAN, HandleMetadata(b, ok) PROVE Steps
    <2>1. /\ states' \in {states, states \cup {b}}
          /\ registry' \in {registry, registry \cup {b}}
      BY <1>13 DEF HandleMetadata
    <2>2. states' \cap Uid = states \cap Uid /\ registry' \cap Uid = registry \cap Uid
      BY <2>1, Sorts
    <2> QED BY <1>1, <1>13, <2>2 DEF HandleMetadata
  <1>14. ASSUME NEW b \in Bridge, StartDepublish(b) PROVE Steps
    BY <1>1, <1>14 DEF StartDepublish, manager, host
  <1>15. CASE SweepRegistry
    <2> DEFINE S == depub.doomed \cap Uid
    <2>1. \A r \in Slot : frame[r] = Idle
      BY <1>15, NobodyElse DEF SweepRegistry
    <2>2. \A v \in S : ~Tracked(v)
      BY <1>15 DEF SweepRegistry, Remembered
    <2>3. \A v \in S : v \notin states
      BY <2>1, <2>2 DEF Visible, Removing, Tracked, Idle
    <2>4. S \cap (Announced \cup (states \cap Uid)) = {}
      BY <2>2, <2>3 DEF Announced
    <2>5. UNCHANGED <<stage, entities, states>> /\ registry' = registry \ depub.doomed
      BY <1>15 DEF SweepRegistry, manager
    <2>6. Announced' = Announced /\ registry' \cap Uid = (registry \cap Uid) \ S
      BY <2>5 DEF Announced, Tracked
    <2> QED BY <2>4, <2>5, <2>6, Forgotten
  <1>16. CASE FinishDepublish \/ DepublishFails \/ UNCHANGED vars
    BY <1>1, <1>16 DEF FinishDepublish, DepublishFails, vars, manager, host
  <1> QED
    BY <1>2, <1>3, <1>4, <1>5, <1>6, <1>7, <1>8, <1>9, <1>10, <1>11, <1>12, <1>13,
       <1>14, <1>15, <1>16, Subscribes DEF Next

\* The refinement itself, without its liveness: what a user sees follows what
\* is announced and withdrawn, step by step.
THEOREM ImplementsMirror == ASSUME Serial, Distinct PROVE Spec => Mirror!Spec
  <1>1. Init => Mirror!Init
    BY DEF Init, Mirror!Init
  <1>2. TypeOK /\ Reachable /\ SerialInv /\ Remembered /\ [Next]_vars
          => [Mirror!Next]_(Mirror!view)
    BY StepsNext DEF Steps
  <1> QED
    BY <1>1, <1>2, TypeCorrect, RemovalReaches, SerialInvariant, RememberedInvariant, PTL
       DEF Spec, Mirror!Spec
(***************************************************************************)
(* Counts                                                                  *)
(***************************************************************************)

\* A step that leaves tracked uids, suspended removals, counts and bridges of
\* a running entry alone and has the depublication wait for no fewer.
LEMMA ExactSame ==
  ASSUME Exact, stage' = "running" => stage = "running", UNCHANGED <<counts, entityBridge>>,
         \A u \in Uid : Tracked(u)' <=> Tracked(u),
         \A s \in Slot : frame'[s] # frame[s] =>
           frame[s].kind # "remove" /\ frame'[s].kind # "remove",
         depub' = depub
  PROVE  Exact'
  <1>1. \A b : TrackedOf(b)' = TrackedOf(b) /\ RemovingOf(b)' = RemovingOf(b)
    BY DEF TrackedOf, RemovingOf
  <1>2. \A u \in Uid : Removing(u)' <=> Removing(u)
    BY DEF Removing
  <1> QED BY <1>1, <1>2 DEF Exact

\* A creation is counted once.
LEMMA ExactCreation ==
  ASSUME TypeOK, Exact, Quiet, NEW h \in Handler, NEW u \in Uid, NEW st \in StateTopic,
         CreateEntity(h, u, st), stage = "running"
  PROVE  Exact'
  <1>1. BridgeOf[u] \in Bridge
    BY Wire
  <1>2. \A r \in Slot : frame[r].kind # "remove" /\ frame'[r].kind # "remove"
    BY DEF CreateEntity, TypeOK, Quiet, Idle
  <1>3. \A b : RemovingOf(b) = {} /\ RemovingOf(b)' = {}
    BY <1>2 DEF RemovingOf
  <1>4. \A v \in Uid : Tracked(v)' <=> Tracked(v) \/ v = u
    BY Sorts DEF CreateEntity, TypeOK, Tracked
  <1>5. ASSUME NEW b \in Bridge
        PROVE  counts'[b] = Cardinality(TrackedOf(b)') + Cardinality(RemovingOf(b)')
    <2>1. counts[b] = Cardinality(TrackedOf(b)) /\ Cardinality(TrackedOf(b)) \in Nat
      BY <1>3, FS_EmptySet, FiniteCounts DEF Exact
    <2>2. Cardinality(RemovingOf(b)') = 0 /\ Cardinality(TrackedOf(b)') \in Nat
      BY <1>3, FS_EmptySet, FiniteCountsNext
    <2>3. CASE b = BridgeOf[u]
      <3>1. TrackedOf(b)' = TrackedOf(b) \cup {u} /\ u \notin TrackedOf(b)
        BY <1>4, <2>3 DEF TrackedOf, CreateEntity
      <3>2. Cardinality(TrackedOf(b)') = Cardinality(TrackedOf(b)) + 1
        BY <3>1, FiniteCounts, FS_AddElement
      <3>3. counts'[b] = counts[b] + 1
        BY <2>3 DEF CreateEntity, TypeOK
      <3> QED BY <2>1, <2>2, <3>2, <3>3
    <2>4. CASE b # BridgeOf[u]
      <3>1. TrackedOf(b)' = TrackedOf(b)
        BY <1>4, <2>4 DEF TrackedOf
      <3>2. counts'[b] = counts[b]
        BY <2>4 DEF CreateEntity, TypeOK
      <3> QED BY <2>1, <2>2, <3>1, <3>2
    <2> QED BY <2>3, <2>4
  <1>6. \A v \in Uid : Tracked(v)' \/ Removing(v)' => entityBridge'[v] = BridgeOf[v]
    BY <1>2, <1>4 DEF CreateEntity, Exact, TypeOK, Removing
  <1>7. depub'.pc = "idle"
    BY DEF CreateEntity, Quiet
  <1> QED BY <1>5, <1>6, <1>7 DEF Exact

\* A removal moves one from the tracked to the suspended; the bridge is counted
\* until it is settled.
LEMMA ExactRemoval ==
  ASSUME TypeOK, Exact, NEW s \in Slot, NEW t \in Topic, StartRemoval(s, t),
         \A r \in Slot : frame[r] = Idle, stage = "running",
         (depub.pc # "idle" => TrackedOf(depub.bridge) \subseteq depub.todo)',
         depub'.pc # "clearing"
  PROVE  Exact'
  <1> DEFINE u == topicUid[t]
  <1>1. u \in Uid
    BY DEF StartRemoval, TypeOK
  <1>2. /\ UNCHANGED <<stage, counts, entityBridge>>
        /\ entities' = [entities EXCEPT ![u] = "absent"]
    BY DEF StartRemoval
  <1>3. \A b : RemovingOf(b) = {}
    BY DEF RemovingOf, Idle
  <1>4. \A b : TrackedOf(b)' = TrackedOf(b) \ {u}
    BY <1>1, <1>2 DEF TypeOK, TrackedOf, Tracked
  <1>5. \A r \in Slot \ {s} : frame'[r] = Idle
    BY DEF StartRemoval, TypeOK
  <1>6. CASE ~Tracked(u)
    <2>1. frame' = frame
      BY <1>6 DEF StartRemoval
    <2>2. \A b : TrackedOf(b)' = TrackedOf(b) /\ RemovingOf(b)' = RemovingOf(b)
      BY <1>4, <1>6, <2>1 DEF TrackedOf, RemovingOf
    <2>3. \A v \in Uid : (Tracked(v)' => Tracked(v)) /\ (Removing(v)' <=> Removing(v))
      BY <1>1, <1>2, <2>1 DEF TypeOK, Tracked, Removing
    <2> QED BY <1>2, <2>2, <2>3 DEF Exact
  <1>7. CASE Tracked(u)
    <2>1. frame'[s].kind = "remove" /\ frame'[s].uid = u
      BY <1>7 DEF StartRemoval, TypeOK
    <2>2. \A b : RemovingOf(b)' = IF BridgeOf[u] = b THEN {s} ELSE {}
      BY <1>5, <2>1 DEF RemovingOf, Idle
    <2>3. ASSUME NEW b \in Bridge
          PROVE  counts'[b] = Cardinality(TrackedOf(b)') + Cardinality(RemovingOf(b)')
      <3>1. counts[b] = Cardinality(TrackedOf(b)) /\ Cardinality(TrackedOf(b)) \in Nat
        BY <1>3, FS_EmptySet, FiniteCounts DEF Exact
      <3>2. CASE BridgeOf[u] = b
        <4>1. u \in TrackedOf(b)
          BY <1>1, <1>7, <3>2 DEF TrackedOf
        <4>2. Cardinality(TrackedOf(b)') = Cardinality(TrackedOf(b)) - 1
          BY <1>4, <4>1, FiniteCounts, FS_RemoveElement
        <4>3. Cardinality(RemovingOf(b)') = 1
          BY <2>2, <3>2, FS_Singleton
        <4> QED BY <1>2, <3>1, <4>2, <4>3
      <3>3. CASE BridgeOf[u] # b
        <4>1. TrackedOf(b)' = TrackedOf(b) /\ RemovingOf(b)' = {}
          BY <1>4, <2>2, <3>3 DEF TrackedOf
        <4> QED BY <1>2, <3>1, <4>1, FS_EmptySet
      <3> QED BY <3>2, <3>3
    <2>4. \A v \in Uid : Tracked(v)' \/ Removing(v)' => Tracked(v)
      BY <1>1, <1>2, <1>5, <1>7, <2>1 DEF TypeOK, Tracked, Removing, Idle
    <2> QED BY <1>2, <2>3, <2>4 DEF Exact
  <1> QED BY <1>6, <1>7

\* The awaited removal is the only one, and it is settled with its own bridge.
LEMMA ExactSettling ==
  ASSUME TypeOK, Alone, Wired, Exact, NEW s \in Slot, FinishRemove(s), stage = "running"
  PROVE  /\ Exact'
         /\ PoppedBridge(frame[s].uid) = BridgeOf[frame[s].uid]
  <1> DEFINE u == frame[s].uid
             c == BridgeOf[u]
  <1>1. u \in Uid /\ frame[s].kind = "remove" /\ c \in Bridge /\ c # None
    BY FrameTypes, Wire, Sorts DEF FinishRemove
  <1>2. PoppedBridge(u) = c
    BY <1>1 DEF Exact, Removing, PoppedBridge
  <1>3. UNCHANGED <<stage, entities, depub>>
    BY DEF FinishRemove
  <1>4. \A r \in Slot \ {s} : frame[r] = Idle /\ frame'[r] = Idle
    BY <1>1 DEF FinishRemove, SettleBridge, Alone, TypeOK, Idle
  <1>5. frame'[s].kind # "remove"
    BY DEF FinishRemove, SettleBridge, TypeOK, Idle
  <1>6. \A b : TrackedOf(b)' = TrackedOf(b)
    BY <1>3 DEF TrackedOf, Tracked
  <1>7. \A b : RemovingOf(b) = (IF c = b THEN {s} ELSE {}) /\ RemovingOf(b)' = {}
    BY <1>1, <1>4, <1>5 DEF RemovingOf, Idle
  <1>8. counts' = [counts EXCEPT ![c] = IF LastOf(c) THEN 0 ELSE @ - 1]
    BY <1>1, <1>2 DEF FinishRemove, SettleBridge
  <1>9. ASSUME NEW b \in Bridge
        PROVE  counts'[b] = Cardinality(TrackedOf(b)') + Cardinality(RemovingOf(b)')
    <2>1. Cardinality(TrackedOf(b)) \in Nat /\ Cardinality(RemovingOf(b)') = 0
      BY <1>7, FS_EmptySet, FiniteCounts
    <2>2. CASE c = b
      <3>1. counts[b] = Cardinality(TrackedOf(b)) + 1
        BY <1>7, <2>2, FS_Singleton DEF Exact
      <3>2. LastOf(b) => Cardinality(TrackedOf(b)) = 0
        BY <2>1, <3>1 DEF LastOf
      <3>3. counts'[b] = IF LastOf(b) THEN 0 ELSE counts[b] - 1
        BY <1>8, <2>2 DEF TypeOK
      <3> QED BY <1>6, <2>1, <3>1, <3>2, <3>3
    <2>3. CASE c # b
      <3>1. counts[b] = Cardinality(TrackedOf(b)) + 0
        BY <1>7, <2>3, FS_EmptySet DEF Exact
      <3>2. counts'[b] = counts[b]
        BY <1>8, <2>3 DEF TypeOK
      <3> QED BY <1>6, <2>1, <3>1, <3>2
    <2> QED BY <2>2, <2>3
  <1>10. \A v \in Uid : Tracked(v)' \/ Removing(v)' => Tracked(v) /\ v # u
    BY <1>1, <1>3, <1>4, <1>5 DEF Wired, Tracked, Removing, Idle
  <1>11. \A v \in Uid \ {u} : entityBridge'[v] = entityBridge[v]
    BY DEF FinishRemove, SettleBridge, TypeOK
  <1>12. \A v \in Uid : Tracked(v)' \/ Removing(v)' => entityBridge'[v] = BridgeOf[v]
    BY <1>10, <1>11 DEF Exact
  <1> QED BY <1>2, <1>3, <1>6, <1>9, <1>12 DEF Exact

\* Every step keeps the counts exact.
LEMMA ExactStep ==
  Serial /\ Distinct /\ TypeOK /\ Reachable /\ SerialInv /\ Remembered /\ Exact
    /\ [Next]_vars => Exact'
  <1> SUFFICES ASSUME Serial, Distinct, TypeOK, Reachable, SerialInv, Remembered, Exact,
                      [Next]_vars
               PROVE  Exact'
    OBVIOUS
  <1> USE DEF SerialInv
  <1>0. CanRun => Quiet
    BY DEF CanRun, Serial
  <1>1. ASSUME stage' # "running" PROVE Exact'
    BY <1>1 DEF Exact
  <1>2. ASSUME UNCHANGED <<stage, entities, counts, entityBridge, frame, depub>> PROVE Exact'
    BY <1>2, ExactSame DEF Tracked
  <1>3. CASE Setup
    <2>1. \A b : TrackedOf(b)' = {} /\ RemovingOf(b)' = {}
      BY <1>3 DEF Setup, Quiet, Idle, EmptyManager, NoEntities, TrackedOf, Tracked,
                  RemovingOf
    <2>2. \A b \in Bridge : counts'[b] = 0
      BY <1>3 DEF Setup, EmptyManager, NoCounts
    <2>3. \A u \in Uid : ~Tracked(u)' /\ ~Removing(u)'
      BY <1>3 DEF Setup, Quiet, Idle, EmptyManager, NoEntities, Tracked, Removing
    <2>4. depub'.pc = "idle"
      BY <1>3 DEF Setup, Quiet
    <2> QED BY <2>1, <2>2, <2>3, <2>4, FS_EmptySet DEF Exact
  <1>4. CASE UnloadPlatforms \/ UnloadEntry \/ Crash
    BY <1>1, <1>4 DEF UnloadPlatforms, UnloadEntry, Crash
  <1>5. ASSUME NEW h \in Handler, NEW u \in Uid, NEW st \in StateTopic,
               CreateEntity(h, u, st)
        PROVE  Exact'
    BY <1>0, <1>1, <1>5, ExactCreation DEF CreateEntity
  <1>6. ASSUME NEW u \in Uid, NEW st \in StateTopic, UpdateEntity(u, st) PROVE Exact'
    BY <1>2, <1>6 DEF UpdateEntity
  <1>7. ASSUME NEW u \in Uid, StateMessage(u) PROVE Exact'
    BY <1>2, <1>7 DEF StateMessage, manager
  <1>8. ASSUME NEW h \in Handler, NEW t \in Topic, RemovalMessage(h, t) PROVE Exact'
    <2>1. Quiet /\ StartRemoval(h, t) /\ h \in Slot /\ depub' = depub /\ stage' = stage
      BY <1>0, <1>8 DEF RemovalMessage, StartRemoval, Slot
    <2>2. depub'.pc = "idle" /\ \A r \in Slot : frame[r] = Idle
      BY <2>1 DEF Quiet
    <2> QED BY <1>1, <2>1, <2>2, ExactRemoval
  <1>9. ASSUME NEW u \in Uid, DepublishEntity(u) PROVE Exact'
    <2>1. Service \in Slot /\ TopicOf[u] \in Topic
      BY Wire DEF Slot
    <2>2. /\ depub.pc = "publishing" /\ depub'.pc = "publishing"
          /\ depub'.bridge = depub.bridge /\ depub'.todo = depub.todo \ {u}
      BY <1>9 DEF DepublishEntity, TypeOK, Depub
    <2>3. \A r \in Slot : frame[r] = Idle
      BY <1>9, <2>2, NobodyElse DEF DepublishEntity
    <2>4. stage' = stage
      BY <1>9 DEF DepublishEntity, StartRemoval
    <2>5. stage = "running" => TrackedOf(depub.bridge)' \subseteq depub'.todo
      <3>1. ~Tracked(u)' /\ \A v \in Uid : Tracked(v)' => Tracked(v)
        BY <1>9, DepublishUntracks
      <3> QED BY <2>2, <3>1 DEF Exact, TrackedOf
    <2>6. CASE StartRemoval(Service, TopicOf[u])
      BY <1>1, <2>1, <2>2, <2>3, <2>4, <2>5, <2>6, ExactRemoval
    <2>7. CASE UNCHANGED <<stage, manager, frame, host, leaked, announced>>
      <3>1. \A b : TrackedOf(b)' = TrackedOf(b) /\ RemovingOf(b)' = RemovingOf(b)
        BY <2>7 DEF manager, TrackedOf, Tracked, RemovingOf
      <3>2. \A v \in Uid : (Tracked(v)' <=> Tracked(v)) /\ (Removing(v)' <=> Removing(v))
        BY <2>7 DEF manager, Tracked, Removing
      <3> QED BY <2>2, <2>5, <2>7, <3>1, <3>2 DEF Exact, manager
    <2> QED BY <1>9, <2>6, <2>7 DEF DepublishEntity
  <1>10. ASSUME NEW s \in Slot, FinishSubscribe(s) PROVE Exact'
    <2>1. frame[s].uid \in Uid /\ entities[frame[s].uid] = s
      BY <1>10, FrameTypes DEF FinishSubscribe, Wired
    <2>2. \A v \in Uid : Tracked(v)' <=> Tracked(v)
      BY <1>10, <2>1, Sorts DEF FinishSubscribe, TypeOK, Tracked, Slot
    <2>3. \A r \in Slot : frame'[r] # frame[r] =>
            frame[r].kind # "remove" /\ frame'[r].kind # "remove"
      BY <1>10 DEF FinishSubscribe, TypeOK, Idle
    <2> QED BY <1>10, <2>2, <2>3, ExactSame DEF FinishSubscribe
  <1>11. ASSUME NEW s \in Slot, FinishRemove(s) PROVE Exact'
    BY <1>1, <1>11, ExactSettling DEF FinishRemove
  <1>12. ASSUME NEW s \in Slot, FinishRemoveMeta(s) PROVE Exact'
    <2>1. \A r \in Slot : frame'[r] # frame[r] =>
            frame[r].kind # "remove" /\ frame'[r].kind # "remove"
      BY <1>12 DEF FinishRemoveMeta, TypeOK, Idle
    <2> QED BY <1>12, <2>1, ExactSame DEF FinishRemoveMeta, manager, Tracked
  <1>13. ASSUME NEW b \in Bridge, NEW ok \in BOOLEAN, HandleMetadata(b, ok) PROVE Exact'
    BY <1>2, <1>13 DEF HandleMetadata
  <1>14. ASSUME NEW b \in Bridge, StartDepublish(b) PROVE Exact'
    <2>1. Quiet /\ UNCHANGED <<stage, entities, counts, entityBridge, frame>>
      BY <1>0, <1>14 DEF StartDepublish, manager
    <2>2. depub'.pc = "publishing" /\ depub'.bridge = b /\ depub'.todo = DeviceItems(b) \cap Uid
      BY <1>14 DEF StartDepublish
    <2>3. stage = "running" => TrackedOf(b) \subseteq DeviceItems(b) \cap Uid
      <3> SUFFICES ASSUME stage = "running", NEW v \in TrackedOf(b)
                   PROVE  v \in DeviceItems(b) /\ v \in Uid
        OBVIOUS
      <3>1. v \in Uid /\ Tracked(v) /\ BridgeOf[v] = b
        BY DEF TrackedOf
      <3>2. entities[v] = "added"
        BY <2>1, <3>1, TrackedAdded DEF Quiet
      <3>3. v \in registry
        BY <3>1, <3>2 DEF Visible, Remembered
      <3> QED BY <3>1, <3>3, Sorts DEF DeviceItems, DeviceOf
    <2>4. \A c : TrackedOf(c)' = TrackedOf(c) /\ RemovingOf(c)' = RemovingOf(c)
      BY <2>1 DEF TrackedOf, Tracked, RemovingOf
    <2>5. \A v \in Uid : (Tracked(v)' <=> Tracked(v)) /\ (Removing(v)' <=> Removing(v))
      BY <2>1 DEF Tracked, Removing
    <2> QED BY <2>1, <2>2, <2>3, <2>4, <2>5 DEF Exact
  <1>15. CASE SweepRegistry
    <2>1. UNCHANGED <<stage, entities, counts, entityBridge, frame>>
      BY <1>15 DEF SweepRegistry, manager
    <2>2. depub.pc = "publishing" /\ depub.todo = {} /\ depub'.todo = {}
            /\ depub'.bridge = depub.bridge
      BY <1>15 DEF SweepRegistry, TypeOK, Depub
    <2>4. \A c : TrackedOf(c)' = TrackedOf(c) /\ RemovingOf(c)' = RemovingOf(c)
      BY <2>1 DEF TrackedOf, Tracked, RemovingOf
    <2>5. \A v \in Uid : (Tracked(v)' <=> Tracked(v)) /\ (Removing(v)' <=> Removing(v))
      BY <2>1 DEF Tracked, Removing
    <2> QED BY <2>1, <2>2, <2>4, <2>5 DEF Exact
  <1>16. CASE FinishDepublish
    <2>1. UNCHANGED <<stage, entities, entityBridge, frame>> /\ depub.pc = "clearing"
            /\ depub'.pc = "idle"
      BY <1>16 DEF FinishDepublish, NoDepub
    <2>2. \A r \in Slot : frame[r] = Idle
      BY <2>1 DEF Alone, Slot
    <2>3. stage = "running" => /\ TrackedOf(depub.bridge) = {}
                               /\ RemovingOf(depub.bridge) = {}
      BY <2>1, <2>2 DEF Exact, RemovingOf, Idle
    <2>4. \A c : TrackedOf(c)' = TrackedOf(c) /\ RemovingOf(c)' = RemovingOf(c)
      BY <2>1 DEF TrackedOf, Tracked, RemovingOf
    <2>5. \A v \in Uid : (Tracked(v)' <=> Tracked(v)) /\ (Removing(v)' <=> Removing(v))
      BY <2>1 DEF Tracked, Removing
    <2>6. counts' = [counts EXCEPT ![depub.bridge] = 0]
      BY <1>16 DEF FinishDepublish
    <2>7. ASSUME stage = "running", NEW c \in Bridge PROVE counts'[c] = counts[c]
      <3>1. CASE c = depub.bridge
        <4>1. Cardinality(TrackedOf(c)) = 0 /\ Cardinality(RemovingOf(c)) = 0
          BY <2>3, <2>7, <3>1, FS_EmptySet
        <4>2. counts[c] = 0
          BY <2>7, <4>1 DEF Exact
        <4> QED BY <2>6, <3>1, <4>2 DEF TypeOK
      <3>2. CASE c # depub.bridge
        BY <2>6, <3>2 DEF TypeOK
      <3> QED BY <3>1, <3>2
    <2> QED BY <2>1, <2>4, <2>5, <2>7 DEF Exact
  <1>17. CASE UNCHANGED vars
    BY <1>2, <1>17 DEF vars, manager
  <1>18. CASE DepublishFails
    <2>1. UNCHANGED <<stage, entities, counts, entityBridge, frame>> /\ depub'.pc = "idle"
      BY <1>18 DEF DepublishFails, NoDepub, manager
    <2>2. \A c : TrackedOf(c)' = TrackedOf(c) /\ RemovingOf(c)' = RemovingOf(c)
      BY <2>1 DEF TrackedOf, Tracked, RemovingOf
    <2>3. \A v \in Uid : (Tracked(v)' <=> Tracked(v)) /\ (Removing(v)' <=> Removing(v))
      BY <2>1 DEF Tracked, Removing
    <2> QED BY <2>1, <2>2, <2>3 DEF Exact
  <1> QED
    BY <1>3, <1>4, <1>5, <1>6, <1>7, <1>8, <1>9, <1>10, <1>11, <1>12, <1>13, <1>14,
       <1>15, <1>16, <1>17, <1>18, Subscribes DEF Next

LEMMA ExactInvariant == ASSUME Serial, Distinct PROVE Spec => []Exact
  <1>1. Init => Exact
    BY DEF Init, Exact
  <1>2. TypeOK /\ Reachable /\ SerialInv /\ Remembered /\ Exact /\ [Next]_vars => Exact'
    BY ExactStep
  <1> QED
    BY <1>1, <1>2, TypeCorrect, RemovalReaches, SerialInvariant, RememberedInvariant, PTL
       DEF Spec

\* With one handler at a time and a topic for every uid, the counts kept across
\* four handlers and a service are those of the tracked entities.
THEOREM CountsAreExact == ASSUME Serial, Distinct PROVE Spec => []CountsExact
  <1>1. TypeOK /\ Exact => CountsExact
    <2> SUFFICES ASSUME TypeOK, Exact, Settled, NEW b \in Bridge
                 PROVE  counts[b] = Cardinality(TrackedOf(b))
      BY DEF CountsExact
    <2>1. RemovingOf(b) = {}
      BY DEF Settled, Quiet, RemovingOf, Idle
    <2>2. counts[b] = Cardinality(TrackedOf(b)) + Cardinality(RemovingOf(b))
      BY DEF Exact, Settled
    <2> QED BY <2>1, <2>2, FS_EmptySet, FiniteCounts
  <1> QED BY <1>1, TypeCorrect, ExactInvariant, PTL

(***************************************************************************)
(* Diagnostics                                                             *)
(***************************************************************************)

\* A step that shows no further diagnostics and leaves the table and the
\* suspended removals of diagnostics of a running entry alone.
LEMMA AttachedSame ==
  ASSUME Attached, stage' = "running" => stage = "running", metas' = metas,
         states' \cap Bridge \subseteq states,
         \A s \in Slot : frame'[s] # frame[s] =>
           frame[s].kind # "removeMeta" /\ frame'[s].kind # "removeMeta"
  PROVE  Attached'
  BY DEF Attached

\* The last entity of a bridge hands the shown diagnostics to its coroutine.
LEMMA AttachedSettling ==
  ASSUME TypeOK, Alone, Attached, NEW s \in Slot, FinishRemove(s), stage = "running",
         PoppedBridge(frame[s].uid) = BridgeOf[frame[s].uid]
  PROVE  Attached'
  <1> DEFINE u == frame[s].uid
             c == BridgeOf[u]
  <1>1. u \in Uid /\ frame[s].kind = "remove" /\ c \in Bridge /\ c # None
    BY FrameTypes, Wire, Sorts DEF FinishRemove
  <1>2. stage' = stage /\ states' \subseteq states
    BY DEF FinishRemove, Purge
  <1>3. \A r \in Slot \ {s} : frame[r] = Idle /\ frame'[r] = Idle
    BY <1>1 DEF FinishRemove, SettleBridge, Alone, TypeOK, Idle
  <1>4. \A b \in Bridge \cap states : metas[b] = "added"
    <2>1. \A r \in Slot : frame[r].kind # "removeMeta"
      BY <1>1, <1>3 DEF Idle
    <2> QED BY <2>1 DEF Attached
  <1>5. metas' = [metas EXCEPT ![c] = IF LastOf(c) THEN "absent" ELSE @]
    BY <1>1 DEF FinishRemove, SettleBridge
  <1>6. frame'[s] = IF LastOf(c) /\ metas[c] # "absent"
                      THEN [kind |-> "removeMeta", bridge |-> c, added |-> metas[c] = "added"]
                      ELSE Idle
    BY <1>1 DEF FinishRemove, SettleBridge, TypeOK
  <1>7. \A b \in Bridge : metas[b] \in {"absent", "added"}
    BY DEF Attached, TypeOK
  <1>8. \A b \in Bridge : metas'[b] # "failed"
    BY <1>5, <1>7 DEF TypeOK
  <1>9. \A r \in Slot : frame'[r].kind = "removeMeta" => frame'[r].added
    <2>1. metas[c] # "absent" => (metas[c] = "added") = TRUE
      BY <1>1, <1>7
    <2>2. \/ frame'[s] = [kind |-> "removeMeta", bridge |-> c, added |-> TRUE]
          \/ frame'[s] = Idle
      BY <1>6, <2>1
    <2>3. frame'[s].kind = "removeMeta" => frame'[s].added
      BY <2>2 DEF Idle
    <2> QED BY <1>3, <2>3 DEF Idle
  <1>10. ASSUME NEW b \in Bridge \cap states'
         PROVE  metas'[b] = "added" \/ (frame'[s].kind = "removeMeta" /\ frame'[s].bridge = b)
    <2>1. metas[b] = "added"
      BY <1>2, <1>4
    <2> QED BY <1>5, <1>6, <2>1 DEF TypeOK
  <1> QED BY <1>2, <1>8, <1>9, <1>10 DEF Attached

\* Every step shows diagnostics only while they are held.
LEMMA AttachedStep ==
  Serial /\ TypeOK /\ SerialInv /\ Exact /\ DiagnosticsCounted /\ Attached /\ [Next]_vars
    => Attached'
  <1> SUFFICES ASSUME Serial, TypeOK, SerialInv, Exact, DiagnosticsCounted, Attached,
                      [Next]_vars
               PROVE  Attached'
    OBVIOUS
  <1> USE DEF SerialInv
  <1>0. CanRun => Quiet
    BY DEF CanRun, Serial
  <1>1. ASSUME stage' # "running" PROVE Attached'
    BY <1>1 DEF Attached
  <1>2. ASSUME UNCHANGED <<stage, metas, frame>>, states' \cap Bridge \subseteq states
        PROVE  Attached'
    BY <1>2, AttachedSame
  <1>3. CASE Setup
    <2>1. states' = {} /\ metas' = NoMetas /\ \A s \in Slot : frame'[s] = Idle
      BY <1>3 DEF Setup, Quiet, EmptyManager, Visible
    <2> QED BY <2>1 DEF Attached, NoMetas, Idle
  <1>4. CASE UnloadPlatforms \/ UnloadEntry \/ Crash
    BY <1>1, <1>4 DEF UnloadPlatforms, UnloadEntry, Crash
  <1>5. ASSUME NEW h \in Handler, NEW u \in Uid, NEW st \in StateTopic,
               CreateEntity(h, u, st)
        PROVE  Attached'
    <2>1. \A r \in Slot : frame'[r] # frame[r] =>
            frame[r].kind # "removeMeta" /\ frame'[r].kind # "removeMeta"
      BY <1>5 DEF CreateEntity, TypeOK, Idle
    <2> QED BY <1>5, <2>1, AttachedSame DEF CreateEntity, host
  <1>6. ASSUME NEW u \in Uid, NEW st \in StateTopic, UpdateEntity(u, st) PROVE Attached'
    BY <1>2, <1>6, Sorts DEF UpdateEntity
  <1>7. ASSUME NEW u \in Uid, StateMessage(u) PROVE Attached'
    BY <1>2, <1>7, Sorts DEF StateMessage, manager
  <1>8. ASSUME NEW s \in Slot, NEW t \in Topic, StartRemoval(s, t) PROVE Attached'
    <2>1. \A r \in Slot : frame'[r] # frame[r] =>
            frame[r].kind # "removeMeta" /\ frame'[r].kind # "removeMeta"
      BY <1>8 DEF StartRemoval, TypeOK, Idle
    <2> QED BY <1>8, <2>1, AttachedSame DEF StartRemoval, host
  <1>9. ASSUME NEW h \in Handler, NEW t \in Topic, RemovalMessage(h, t) PROVE Attached'
    BY <1>8, <1>9 DEF RemovalMessage, Slot
  <1>10. ASSUME NEW u \in Uid, DepublishEntity(u) PROVE Attached'
    <2>1. Service \in Slot /\ TopicOf[u] \in Topic
      BY Wire DEF Slot
    <2> QED BY <1>2, <1>8, <1>10, <2>1 DEF DepublishEntity, manager, host
  <1>11. ASSUME NEW s \in Slot, FinishSubscribe(s) PROVE Attached'
    <2>1. frame[s].uid \notin Bridge
      BY <1>11, FrameTypes, Sorts DEF FinishSubscribe
    <2>2. \A r \in Slot : frame'[r] # frame[r] =>
            frame[r].kind # "removeMeta" /\ frame'[r].kind # "removeMeta"
      BY <1>11 DEF FinishSubscribe, TypeOK, Idle
    <2>3. states' \cap Bridge \subseteq states
      BY <1>11, <2>1 DEF FinishSubscribe, host
    <2> QED BY <1>11, <2>2, <2>3, AttachedSame DEF FinishSubscribe
  <1>12. ASSUME NEW s \in Slot, FinishRemove(s) PROVE Attached'
    BY <1>1, <1>12, ExactSettling, AttachedSettling DEF FinishRemove
  <1>13. ASSUME NEW s \in Slot, FinishRemoveMeta(s) PROVE Attached'
    <2> DEFINE b == frame[s].bridge
    <2>1. frame[s].kind = "removeMeta" /\ frame[s] # Idle /\ UNCHANGED <<stage, metas>>
      BY <1>13 DEF FinishRemoveMeta, manager, Idle
    <2>2. \A r \in Slot : frame'[r] = Idle /\ (r # s => frame[r] = Idle)
      BY <1>13, <2>1 DEF FinishRemoveMeta, Alone, TypeOK
    <2>3. stage = "running" => states' = states \ {b}
      BY <1>13, <2>1 DEF FinishRemoveMeta, Purge, Attached
    <2>4. stage = "running" => \A c \in Bridge \cap states : c = b \/ metas[c] = "added"
      BY <2>2 DEF Attached, Idle
    <2> QED BY <2>1, <2>2, <2>3, <2>4 DEF Attached, Idle
  <1>14. ASSUME NEW b \in Bridge, NEW ok \in BOOLEAN, HandleMetadata(b, ok) PROVE Attached'
    <2>1. UNCHANGED <<stage, frame>>
      BY <1>14 DEF HandleMetadata
    <2>2. CASE stage = "running"
      <3>1. metas[b] \in {"absent", "added"}
        BY <2>2 DEF Attached, TypeOK
      <3>2. metas' = [metas EXCEPT ![b] = "added"]
        BY <1>14, <2>2, <3>1 DEF HandleMetadata, TypeOK
      <3>3. states' \subseteq states \cup {b}
        BY <1>14 DEF HandleMetadata
      <3> QED BY <2>1, <2>2, <3>2, <3>3 DEF Attached, TypeOK
    <2> QED BY <1>1, <2>1, <2>2
  <1>15. ASSUME NEW b \in Bridge, StartDepublish(b) PROVE Attached'
    BY <1>2, <1>15 DEF StartDepublish, manager, host
  <1>16. CASE FinishDepublish
    <2> DEFINE b == depub.bridge
    <2>1. UNCHANGED <<stage, frame, states>> /\ metas' = [metas EXCEPT ![b] = "absent"]
      BY <1>16 DEF FinishDepublish
    <2>2. CASE stage = "running"
      <3>1. TrackedOf(b) = {} /\ RemovingOf(b) = {}
        BY <1>16, <2>2 DEF FinishDepublish, Exact, Alone, RemovingOf, Idle, Slot
      <3>2. b \in Bridge => counts[b] = 0
        BY <2>2, <3>1, FS_EmptySet DEF Exact
      <3>3. b \in Bridge => metas[b] = "absent"
        BY <3>2 DEF DiagnosticsCounted
      <3>4. metas' = metas
        BY <2>1, <3>3 DEF TypeOK
      <3> QED BY <1>2, <2>1, <3>4
    <2> QED BY <1>1, <2>1, <2>2
  <1>17. CASE SweepRegistry \/ DepublishFails \/ UNCHANGED vars
    BY <1>2, <1>17 DEF SweepRegistry, DepublishFails, vars, manager, host
  <1> QED
    BY <1>3, <1>4, <1>5, <1>6, <1>7, <1>9, <1>10, <1>11, <1>12, <1>13, <1>14,
       <1>15, <1>16, <1>17, Subscribes DEF Next

\* With one handler at a time and a topic for every uid, diagnostics are shown
\* only next to an entity of their bridge.
THEOREM DiagnosticsNeverAlone == ASSUME Serial, Distinct PROVE Spec => []DiagnosticsAttached
  <1>1. Init => Attached
    BY DEF Init, Attached
  <1>2. TypeOK /\ SerialInv /\ Exact /\ DiagnosticsCounted /\ Attached /\ [Next]_vars
          => Attached'
    BY AttachedStep
  <1>3. TypeOK /\ Exact /\ DiagnosticsCounted /\ Attached => DiagnosticsAttached
    <2> SUFFICES ASSUME TypeOK, Exact, DiagnosticsCounted, Attached, Settled,
                        NEW b \in Bridge \cap states
                 PROVE  TrackedOf(b) # {}
      BY DEF DiagnosticsAttached
    <2>1. \A s \in Slot : frame[s].kind = "idle"
      BY DEF Settled, Quiet, Idle
    <2>2. metas[b] = "added"
      BY <2>1 DEF Attached, Settled
    <2>3. counts[b] > 0
      BY <2>2 DEF DiagnosticsCounted
    <2>4. RemovingOf(b) = {}
      BY <2>1 DEF RemovingOf
    <2>5. counts[b] = Cardinality(TrackedOf(b)) + Cardinality(RemovingOf(b))
      BY DEF Exact, Settled
    <2> QED BY <2>3, <2>4, <2>5, FS_EmptySet
  <1> QED
    BY <1>1, <1>2, <1>3, TypeCorrect, SerialInvariant, ExactInvariant,
       DiagnosticsNeedEntities, PTL DEF Spec

(***************************************************************************)
(* Devices                                                                 *)
(***************************************************************************)
\* The snapshot of a depublication covers the registry entries of the bridge,
\* and the sweep leaves none of them.
Swept ==
  /\ depub.pc = "publishing" => DeviceItems(depub.bridge) \subseteq depub.doomed
  /\ depub.pc = "clearing" => DeviceItems(depub.bridge) = {}

\* While a depublication runs no handler is at work that could register.
LEMMA NobodyCreates ==
  ASSUME TypeOK, Alone, Wired, depub.pc # "idle",
         NEW s \in Slot, frame[s].kind = "subscribe"
  PROVE  FALSE
  <1>1. frame[s].uid \in Uid /\ entities[frame[s].uid] = s
    BY FrameTypes DEF Wired
  <1>2. s \in Handler
    BY <1>1, Sorts DEF TypeOK, Slot
  <1> QED BY <1>2 DEF Alone, Idle

\* The snapshot goes on covering a registry that does not grow.
LEMMA SweptFrame ==
  ASSUME Swept, registry' \subseteq registry,
         depub'.pc = depub.pc, depub'.bridge = depub.bridge, depub'.doomed = depub.doomed
  PROVE  Swept'
  BY DEF Swept, DeviceItems

\* With one handler at a time, nothing escapes the sweep.
LEMMA SweptStep ==
  ASSUME Serial
  PROVE  TypeOK /\ Alone /\ Wired /\ Swept /\ [Next]_vars => Swept'
  <1> SUFFICES ASSUME TypeOK, Alone, Wired, Swept, [Next]_vars PROVE Swept'
    OBVIOUS
  <1>0. CanRun => depub.pc = "idle"
    BY DEF CanRun, Serial, Quiet
  <1>1. ASSUME depub'.pc = "idle" PROVE Swept'
    BY <1>1 DEF Swept
  <1>2. CASE Setup \/ UnloadPlatforms \/ UnloadEntry \/ Crash
    BY <1>0, <1>1, <1>2
       DEF Setup, UnloadPlatforms, UnloadEntry, Crash, Quiet, NoDepub
  <1>3. ASSUME NEW h \in Handler, NEW u \in Uid, NEW st \in StateTopic,
               CreateEntity(h, u, st)
        PROVE  Swept'
    BY <1>0, <1>1, <1>3 DEF CreateEntity
  <1>4. ASSUME NEW u \in Uid, NEW st \in StateTopic, UpdateEntity(u, st) PROVE Swept'
    BY <1>0, <1>1, <1>4 DEF UpdateEntity
  <1>5. ASSUME NEW u \in Uid, StateMessage(u) PROVE Swept'
    BY <1>5, SweptFrame DEF StateMessage
  <1>6. ASSUME NEW h \in Handler, NEW t \in Topic, RemovalMessage(h, t) PROVE Swept'
    BY <1>0, <1>1, <1>6 DEF RemovalMessage
  <1>7. ASSUME NEW s \in Slot, FinishSubscribe(s) PROVE Swept'
    <2>1. depub.pc = "idle"
      BY <1>7, NobodyCreates DEF FinishSubscribe
    <2> QED BY <1>1, <1>7, <2>1 DEF FinishSubscribe
  <1>8. ASSUME NEW s \in Slot, FinishRemove(s) \/ FinishRemoveMeta(s) PROVE Swept'
    BY <1>8, SweptFrame DEF FinishRemove, FinishRemoveMeta, Purge
  <1>9. ASSUME NEW b \in Bridge, NEW ok \in BOOLEAN, HandleMetadata(b, ok) PROVE Swept'
    BY <1>0, <1>1, <1>9 DEF HandleMetadata
  <1>10. ASSUME NEW b \in Bridge, StartDepublish(b) PROVE Swept'
    BY <1>10 DEF StartDepublish, host, Swept, DeviceItems
  <1>11. ASSUME NEW u \in Uid, DepublishEntity(u) PROVE Swept'
    BY <1>11, SweptFrame DEF DepublishEntity, StartRemoval, host, TypeOK, Depub
  <1>12. CASE SweepRegistry
    BY <1>12 DEF SweepRegistry, Swept, DeviceItems, TypeOK, Depub
  <1>13. CASE FinishDepublish \/ DepublishFails
    BY <1>1, <1>13 DEF FinishDepublish, DepublishFails, NoDepub
  <1>14. CASE UNCHANGED vars
    BY <1>14, SweptFrame DEF vars, host
  <1> QED
    BY <1>2, <1>3, <1>4, <1>5, <1>6, <1>7, <1>8, <1>9, <1>10, <1>11, <1>12, <1>13,
       <1>14, Subscribes DEF Next

\* A device goes at the cleanup of a setup, when nothing is registered for it,
\* or at the end of a depublication, when its items have been swept.
LEMMA DeviceStep ==
  ASSUME TypeOK, Swept, [Next]_vars, NEW b \in devices \ devices'
  PROVE  DeviceItems(b)' = {}
  <1>1. CASE Setup
    BY <1>1 DEF Setup, InUse, DeviceItems
  <1>2. CASE FinishDepublish
    BY <1>2 DEF FinishDepublish, Swept, DeviceItems
  <1>3. CASE ~Setup /\ ~FinishDepublish
    <2>1. devices \subseteq devices'
      BY <1>3 DEF Next, vars, host, UnloadPlatforms, UnloadEntry, Crash, CreateEntity,
                  UpdateEntity, StateMessage, RemovalMessage, StartRemoval,
                  FinishSubscribe, FinishRemove, FinishRemoveMeta, HandleMetadata,
                  StartDepublish, DepublishEntity, SweepRegistry, SubscribeFails,
                  DepublishFails
    <2> QED BY <2>1
  <1> QED BY <1>1, <1>2, <1>3

\* With one handler at a time, a device is removed only when nothing
\* registered hangs on it, whether a startup or a depublication removes it.
THEOREM RemovedDevicesAreOrphans == ASSUME Serial PROVE Spec => RemovedDeviceOrphaned
  <1>1. Init => Swept
    BY DEF Init, NoDepub, Swept
  <1>2. TypeOK /\ SerialInv /\ Swept /\ [Next]_vars => Swept'
    BY SweptStep DEF SerialInv
  <1>3. TypeOK /\ Swept /\ [Next]_vars
          => [\A b \in devices \ devices' : DeviceItems(b)' = {}]_vars
    BY DeviceStep
  <1> QED
    BY <1>1, <1>2, <1>3, TypeCorrect, SerialInvariant, PTL DEF Spec, RemovedDeviceOrphaned
=============================================================================
