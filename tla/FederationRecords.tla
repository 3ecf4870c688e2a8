------------------------- MODULE FederationRecords -------------------------
(***************************************************************************)
(* Proofs about Federation: what an instance shows is in its registry and  *)
(* the last to be seen on its topic (Recorded), what it depublished is not *)
(* retained (Buried), and its entities read what their sources can read    *)
(* (AllSober).                                                             *)
(***************************************************************************)
EXTENDS FederationMirrors

(***************************************************************************)
(* One unique id per topic                                                 *)
(***************************************************************************)
\* Nothing is announced but what was retained at first and what is bridged.
Genuine(m) ==
  Announces(m) => Produced(m.payload) \/ \E r \in Heritage : m.payload = r.payload

GenuineStore == \A r \in retained : Genuine(r)
GenuineInbox(q) == \A i \in 1..Len(inbox[q]) : Genuine(inbox[q][i])

LEMMA GenuineIsAnnounced ==
  ASSUME NEW m \in Msg, Genuine(m), Announces(m)
  PROVE  UidOf(m) \in Announced
<1> DEFINE d == m.payload
           u == d.unique_id
<1>1. u \in Uid
  BY Messages, Payloads DEF Announces
<1>2. CASE Produced(d)
  <2>1. PICK p \in Instance : \E s \in Slugs(p), e \in Entity[p] :
          d = build_discovery_payload(e, ClassOf[e], s, ValuePrefix)
    BY <1>2 DEF Produced
  <2>2. PICK s \in Slugs(p), e \in Entity[p] :
          d = build_discovery_payload(e, ClassOf[e], s, ValuePrefix)
    BY <2>1
  <2>3. u = <<s, "::", e>>
    BY <2>2 DEF build_discovery_payload
  <2>4. u \in Slugs(p) \X {"::"} \X Entity[p]
    BY <2>3
  <2> QED
    BY <2>4, Zenon DEF Announced, UidOf
<1>3. CASE \E r \in Heritage : m.payload = r.payload
  <2>1. PICK r \in Heritage : m.payload = r.payload
    BY <1>3
  <2>2. Announces(r) /\ UidOf(r) = u
    BY <2>1 DEF Announces, UidOf
  <2> QED
    BY <2>2 DEF Announced, UidOf
<1> QED
  BY <1>2, <1>3 DEF Genuine

LEMMA SpreadGenuine ==
  ASSUME NEW S, NEW C, Shared(S, C), NEW q \in Instance, NEW w, inbox[q] \in Seq(Msg),
         Extended(w, inbox[q], Heard(q, S \cup C)), GenuineInbox(q)
  PROVE  \A i \in 1..Len(w) : Genuine(w[i])
<1> DEFINE s == inbox[q]
           H == Heard(q, S \cup C)
<1>1. /\ w \in Seq(Msg) /\ Len(s) <= Len(w)
      /\ \A i \in 1..Len(s) : w[i] = s[i]
      /\ \A i \in Len(s) + 1 .. Len(w) : w[i] \in H
  BY DEF Extended
<1>2. Len(s) \in Nat /\ Len(w) \in Nat
  BY <1>1, LenProperties
<1>3. H \subseteq S \cup C
  BY DEF Heard
<1>4. \A m \in S \cup C : Genuine(m)
  <2>1. \A m \in C : ~Announces(m)
    BY Payloads DEF Announces, Shared
  <2> QED
    BY <2>1 DEF Genuine, Shared
<1>5. \A i \in 1..Len(s) : Genuine(s[i])
  BY DEF GenuineInbox
<1> HIDE DEF s, H
<1> QED
  BY <1>1, <1>2, <1>3, <1>4, <1>5

LEMMA GenuineStep ==
  ASSUME Typed, Typed', NEW q \in Instance, Step(q), GenuineStore, GenuineInbox(q)
  PROVE  GenuineStore' /\ GenuineInbox(q)'
<1>1. Shape /\ StoreTyped /\ InstanceTyped(q) /\ inbox[q] \in Seq(Msg)
  BY DEF Typed, InstanceTyped
<1>2. PICK S \in SUBSET Msg, C \in SUBSET Msg :
        /\ Shared(S, C) /\ retained' = Store(S)
        /\ \/ Stays(q) /\ Spread(q, S, C)
           \/ Renewed(q) \/ Reconnect(q) \/ Receive(q)
           \/ \E u \in registry[q] : Depublish(q, u[1])
  BY DEF Step
<1>3. \A r \in retained' : Genuine(r)
  BY <1>2 DEF GenuineStore, Store, Shared, Genuine
<1> DEFINE All(w) == \A i \in 1..Len(w) : Genuine(w[i])
<1>4. ASSUME NEW x, inbox'[q] = Redelivered(x, retained')
      PROVE  All(inbox'[q])
  <2>1. IsFiniteSet(retained')
    BY DEF Typed, StoreTyped
  <2>2. \A i \in 1..Len(inbox'[q]) : inbox'[q][i] \in retained'
    BY <1>4, <2>1, RedeliveredMessages
  <2> QED
    BY <1>3, <2>2
<1>5. ASSUME Stays(q), Spread(q, S, C) PROVE All(inbox'[q])
  <2>1. CASE q \in up
    <3>1. Extended(inbox'[q], inbox[q], Heard(q, S \cup C))
      BY <1>5, <2>1 DEF Spread
    <3> QED
      BY <1>1, <1>2, <3>1, SpreadGenuine, Zenon
  <2>2. CASE q \notin up
    <3>1. inbox'[q] = inbox[q]
      BY <1>5, <2>2 DEF Spread
    <3> QED
      BY <3>1 DEF GenuineInbox
  <2> QED
    BY <2>1, <2>2
<1>6. ASSUME Renewed(q) PROVE All(inbox'[q])
  <2>1. CASE q \in up'
    BY <1>4, <1>6, <2>1 DEF Renewed
  <2>2. CASE q \notin up'
    <3>1. inbox'[q] = <<>> /\ Len(<<>>) = 0
      BY <1>6, <2>2 DEF Renewed
    <3> QED
      BY <3>1
  <2> QED
    BY <2>1, <2>2
<1>7. ASSUME Reconnect(q) PROVE All(inbox'[q])
  <2>1. inbox'[q] = Redelivered(entry[q].prefix, retained')
    BY <1>1, <1>7 DEF Reconnect, Shape
  <2> QED
    BY <1>4, <2>1
<1>8. ASSUME Receive(q) PROVE All(inbox'[q])
  <2>1. inbox[q] # <<>> /\ inbox'[q] = Tail(inbox[q])
    BY <1>1, <1>8, ReceiveOwn DEF Shape
  <2>2. /\ Len(inbox[q]) \in Nat /\ Len(inbox'[q]) = Len(inbox[q]) - 1
        /\ \A i \in 1..Len(inbox'[q]) : inbox'[q][i] = inbox[q][i + 1]
    BY <1>1, <2>1, FirstMessage, LenProperties
  <2>3. \A i \in 1..Len(inbox'[q]) : i + 1 \in 1..Len(inbox[q])
    BY <2>2
  <2> QED
    BY <2>2, <2>3 DEF GenuineInbox
<1>9. ASSUME NEW u \in registry[q], Depublish(q, u[1])
      PROVE  All(inbox'[q])
  <2> DEFINE E == Erasers(q, u[1])
  <2>1. Shared(E, {}) /\ Extended(inbox'[q], inbox[q], Heard(q, E \cup {}))
    BY <1>1, <1>9, DepublishSpreads
  <2> HIDE DEF E
  <2> QED
    BY <1>1, <2>1, SpreadGenuine
<1>10. All(inbox'[q])
  <2> HIDE DEF All
  <2> QED
    BY <1>2, <1>5, <1>6, <1>7, <1>8, <1>9
<1> QED
  BY <1>3, <1>10 DEF GenuineStore, GenuineInbox

AllGenuine == Typed /\ GenuineStore /\ \A q \in Instance : GenuineInbox(q)

LEMMA AllGenuineInit == Init => AllGenuine
<1> SUFFICES ASSUME Init PROVE AllGenuine
  OBVIOUS
<1>1. GenuineStore
  BY DEF Init, GenuineStore, Genuine
<1>2. ASSUME NEW q \in Instance PROVE GenuineInbox(q)
  <2>1. inbox[q] = <<>> /\ Len(<<>>) = 0
    BY DEF Init
  <2> QED
    BY <2>1 DEF GenuineInbox
<1> QED
  BY <1>1, <1>2, TypedInit DEF AllGenuine

LEMMA AllGenuineStep == AllGenuine /\ [Next]_vars => AllGenuine'
<1> SUFFICES ASSUME AllGenuine, [Next]_vars PROVE AllGenuine'
  OBVIOUS
<1>1. Typed /\ Typed' /\ GenuineStore
  BY TypedStep DEF AllGenuine
<1>2. ASSUME NEW q \in Instance PROVE GenuineStore' /\ GenuineInbox(q)'
  BY <1>1, Steps, GenuineStep DEF AllGenuine
<1>3. GenuineStore'
  <2>1. CASE UNCHANGED vars
    BY <1>1, <2>1 DEF vars, GenuineStore
  <2>2. CASE Next
    BY <1>2, <2>2, Zenon DEF Next
  <2> QED
    BY <2>1, <2>2
<1> QED
  BY <1>1, <1>2, <1>3 DEF AllGenuine

\* What q shows is in its registry, holds only what was announced, and was the
\* last to be seen on its topic.
Recorded(q) ==
  /\ registry[q] \subseteq Announced /\ DOMAIN known[q] \subseteq registry[q]
  /\ q \in up => \A u \in DOMAIN known[q] :
       LET t == TopicIn(entry[q].prefix, u)
       IN t \in DOMAIN topicUid[q] /\ topicUid[q][t] = u

\* A discovery topic tells which announced unique id is on it.
LEMMA OneUid ==
  ASSUME OneUidPerTopic, NEW x \in SharedPrefix, NEW y \in SharedPrefix,
         NEW u \in Uid \cap Announced, NEW v \in Uid \cap Announced,
         TopicIn(x, u) = TopicIn(y, v)
  PROVE  x = y /\ u = v
<1>1. u[3] \in EntityId /\ v[3] \in EntityId
  BY UidParts
<1>2. topics_to_subscribe(DiscoveryTopic(y, v[3]), x)
  BY <1>1, DiscoveryRoute DEF TopicIn
<1>3. x = y
  BY <1>1, <1>2, DiscoveryRoute
<1>4. u[3][2] = v[3][2]
  <2>1. /\ Remainder(DiscoveryTopic(x, u[3]), x)[2] = u[3][2]
        /\ Remainder(DiscoveryTopic(x, v[3]), x)[2] = v[3][2]
    BY <1>1, DiscoveryRoute
  <2> QED
    BY <1>3, <2>1 DEF TopicIn
<1> QED
  BY <1>3, <1>4 DEF OneUidPerTopic

\* The entities of the topics given up are the ones given up.
LEMMA WithdrawnRecorded ==
  ASSUME Shape, NEW q \in Instance, q \in up, Recorded(q), NEW T, NEW gone, NEW device,
         entry' = entry,
         gone \cap DOMAIN known[q] = LastSeen(q, T) \cap DOMAIN known[q],
         \A u \in device \cap DOMAIN known[q] : TopicIn(entry[q].prefix, u) \in T,
         topicUid'[q] = Drop(topicUid[q], T), known'[q] = Drop(known[q], gone),
         registry'[q] = registry[q] \ (device \cup gone)
  PROVE  Recorded(q)'
<1>1. /\ DOMAIN known'[q] = DOMAIN known[q] \ gone
      /\ DOMAIN topicUid'[q] = DOMAIN topicUid[q] \ T
      /\ \A t \in DOMAIN topicUid'[q] : topicUid'[q][t] = topicUid[q][t]
  BY DEF Drop
<1>2. ASSUME NEW u \in DOMAIN known'[q]
      PROVE  LET t == TopicIn(entry[q].prefix, u)
             IN t \notin T /\ t \in DOMAIN topicUid[q] /\ topicUid[q][t] = u
  <2> DEFINE t == TopicIn(entry[q].prefix, u)
  <2>1. u \in DOMAIN known[q] /\ u \notin gone
    BY <1>1
  <2>2. t \in DOMAIN topicUid[q] /\ topicUid[q][t] = u
    BY <2>1 DEF Recorded
  <2>3. t \notin T
    BY <2>1, <2>2 DEF LastSeen
  <2> QED
    BY <2>2, <2>3
<1>3. registry'[q] \subseteq Announced
  BY DEF Recorded
<1>4. DOMAIN known'[q] \subseteq registry'[q]
  <2>1. \A u \in DOMAIN known'[q] : u \in DOMAIN known[q] /\ u \notin gone /\ u \notin device
    BY <1>1, <1>2
  <2> QED
    BY <2>1 DEF Recorded
<1>5. \A u \in DOMAIN known'[q] :
        LET t == TopicIn(entry'[q].prefix, u)
        IN t \in DOMAIN topicUid'[q] /\ topicUid'[q][t] = u
  BY <1>1, <1>2
<1> QED
  BY <1>3, <1>4, <1>5 DEF Recorded

LEMMA ReceiveRecorded ==
  ASSUME OneUidPerTopic, Shape, NEW q \in Instance, InstanceTyped(q), Receive(q),
         GenuineInbox(q), Recorded(q)
  PROVE  Recorded(q)'
<1> DEFINE t == Head(inbox[q]).topic
<1>1. q \in up /\ inbox[q] # <<>> /\ UNCHANGED <<entry, up>>
  BY ReceiveOwn
<1>2. CASE ReceiveRemoval(q, t)
  <2> DEFINE gone == LastSeen(q, {t}) \cap DOMAIN known[q]
  <2>1. /\ topicUid'[q] = Drop(topicUid[q], {t}) /\ known'[q] = Drop(known[q], gone)
        /\ registry'[q] = registry[q] \ gone
    BY <1>2, RemovalEffect
  <2>2. registry'[q] = registry[q] \ ({} \cup gone)
    BY <2>1
  <2>3. gone \cap DOMAIN known[q] = LastSeen(q, {t}) \cap DOMAIN known[q]
    OBVIOUS
  <2> DEFINE T == {t}
  <2>4. \A u \in {} \cap DOMAIN known[q] : TopicIn(entry[q].prefix, u) \in T
    OBVIOUS
  <2>5. /\ topicUid'[q] = Drop(topicUid[q], T)
        /\ gone \cap DOMAIN known[q] = LastSeen(q, T) \cap DOMAIN known[q]
    BY <2>1, <2>3
  <2>6. entry' = entry
    BY <1>1
  <2> HIDE DEF gone, T
  <2> QED
    BY <1>1, <2>1, <2>2, <2>4, <2>5, <2>6, WithdrawnRecorded
<1>3. CASE ReceiveDiscovery(q, t)
  <2> DEFINE m == Head(inbox[q])
             u == UidOf(m)
             x == entry[q].prefix
  <2>1. /\ x \in SharedPrefix /\ m \in Msg /\ Announces(m) /\ u \in Uid /\ t = TopicIn(x, u)
        /\ topicUid'[q] = Put(topicUid[q], t, u) /\ known'[q] = Put(known[q], u, known'[q][u])
        /\ registry'[q] = registry[q] \cup {u}
    BY <1>3, DiscoveryEffect
  <2>2. u \in Announced
    <3>1. Genuine(m)
      BY <1>1, FirstMessage DEF GenuineInbox, InstanceTyped
    <3> QED
      BY <2>1, <3>1, GenuineIsAnnounced
  <2>3. DOMAIN known[q] \subseteq Uid \cap Announced
    BY DEF InstanceTyped, KnownTyped, Recorded
  <2>4. /\ DOMAIN topicUid'[q] = DOMAIN topicUid[q] \cup {t} /\ topicUid'[q][t] = u
        /\ \A z \in DOMAIN topicUid[q] : z # t => topicUid'[q][z] = topicUid[q][z]
    BY <2>1 DEF Put
  <2>5. DOMAIN known'[q] = DOMAIN known[q] \cup {u}
    <3> DEFINE k == known'[q][u]
    <3>1. known'[q] = Put(known[q], u, k)
      BY <2>1
    <3> HIDE DEF k
    <3> QED
      BY <3>1 DEF Put
  <2> HIDE DEF m, u, x, t
  <2>6. ASSUME NEW w \in DOMAIN known[q], w # u
        PROVE  /\ TopicIn(x, w) \in DOMAIN topicUid'[q]
               /\ topicUid'[q][TopicIn(x, w)] = w
    <3>1. TopicIn(x, w) # t
      BY <2>1, <2>2, <2>3, <2>6, OneUid
    <3>2. TopicIn(x, w) \in DOMAIN topicUid[q] /\ topicUid[q][TopicIn(x, w)] = w
      BY <1>1 DEF Recorded, x
    <3> QED
      BY <2>4, <3>1, <3>2
  <2>7. entry'[q].prefix = x
    BY <1>1 DEF x
  <2>8. \A w \in DOMAIN known'[q] : /\ TopicIn(x, w) \in DOMAIN topicUid'[q]
                                    /\ topicUid'[q][TopicIn(x, w)] = w
    BY <2>1, <2>4, <2>5, <2>6
  <2> QED
    BY <2>1, <2>2, <2>5, <2>7, <2>8 DEF Recorded
<1>4. CASE ReceiveState(q, t)
  <2>1. DOMAIN known'[q] = DOMAIN known[q] /\ topicUid'[q] = topicUid[q] /\ registry'[q] = registry[q]
    BY <1>4, StateEffect
  <2> QED
    BY <1>1, <2>1 DEF Recorded
<1>5. CASE ReceiveMetadata(q, t) \/ Ignore(q, t)
  <2>1. known'[q] = known[q] /\ topicUid'[q] = topicUid[q] /\ registry'[q] = registry[q]
    BY <1>5 DEF ReceiveMetadata, Ignore, memory
  <2> QED
    BY <1>1, <2>1 DEF Recorded
<1> QED
  BY <1>2, <1>3, <1>4, <1>5 DEF Receive

LEMMA RecordedStep ==
  ASSUME OneUidPerTopic, Typed, NEW q \in Instance, Step(q), GenuineInbox(q), Recorded(q)
  PROVE  Recorded(q)'
<1>1. Shape /\ InstanceTyped(q)
  BY DEF Typed
<1>2. CASE Stays(q)
  BY <1>2 DEF Stays, Recorded
<1>3. CASE Renewed(q)
  <2>1. DOMAIN known'[q] = {}
    BY <1>3, NothingKnown DEF Renewed
  <2> QED
    BY <1>3, <2>1 DEF Renewed, Recorded
<1>4. CASE Reconnect(q)
  <2>1. /\ entry'[q] = entry[q] /\ up' = up /\ known'[q] = known[q] /\ topicUid'[q] = topicUid[q]
        /\ registry'[q] = registry[q]
    BY <1>4 DEF Reconnect, memory
  <2> QED
    BY <2>1 DEF Recorded
<1>5. CASE Receive(q)
  BY <1>1, <1>5, ReceiveRecorded
<1>6. ASSUME NEW v \in registry[q], Depublish(q, v[1]) PROVE Recorded(q)'
  <2> DEFINE T == Live(q, v[1])
             gone == LastSeen(q, T)
             device == Obsolete(q, v[1])
  <2>1. /\ q \in up /\ entry' = entry
        /\ topicUid' = [topicUid EXCEPT ![q] = Drop(@, T)]
        /\ known' = [known EXCEPT ![q] = Drop(@, gone)]
        /\ registry' = [registry EXCEPT ![q] = @ \ (device \cup gone)]
    BY <1>1, <1>6, DepublishEffect
  <2>2. /\ topicUid'[q] = Drop(topicUid[q], T) /\ known'[q] = Drop(known[q], gone)
        /\ registry'[q] = registry[q] \ (device \cup gone)
    BY <1>1, <2>1 DEF Shape
  <2>3. \A u \in device \cap DOMAIN known[q] : TopicIn(entry[q].prefix, u) \in T
    BY DEF Live
  <2>4. gone \cap DOMAIN known[q] = LastSeen(q, T) \cap DOMAIN known[q]
    OBVIOUS
  <2> HIDE DEF T, gone, device
  <2> QED
    BY <1>1, <2>1, <2>2, <2>3, <2>4, WithdrawnRecorded
<1> QED
  BY <1>2, <1>3, <1>4, <1>5, <1>6 DEF Step

AllRecorded == AllGenuine /\ \A q \in Instance : Recorded(q)

LEMMA AllRecordedInit == Init => AllRecorded
<1> SUFFICES ASSUME Init PROVE AllRecorded
  OBVIOUS
<1>1. ASSUME NEW q \in Instance PROVE Recorded(q)
  <2>1. DOMAIN known[q] = {} /\ registry[q] = {}
    BY NothingKnown DEF Init
  <2> QED
    BY <2>1 DEF Recorded
<1> QED
  BY <1>1, AllGenuineInit DEF AllRecorded

LEMMA AllRecordedStep ==
  ASSUME OneUidPerTopic
  PROVE  AllRecorded /\ [Next]_vars => AllRecorded'
<1> SUFFICES ASSUME AllRecorded, [Next]_vars PROVE AllRecorded'
  OBVIOUS
<1>1. AllGenuine /\ AllGenuine' /\ Typed
  BY AllGenuineStep DEF AllRecorded, AllGenuine
<1>2. ASSUME NEW q \in Instance PROVE Recorded(q)'
  <2>1. Step(q) /\ GenuineInbox(q) /\ Recorded(q)
    BY <1>1, Steps DEF AllRecorded, AllGenuine
  <2> QED
    BY <1>1, <2>1, RecordedStep
<1> QED
  BY <1>1, <1>2 DEF AllRecorded

\* If a discovery topic never carries two unique ids, the type invariant holds:
\* above all, what an instance shows is in its registry, which is what lets
\* depublish_bridge find it.
THEOREM TypeOKHolds ==
  ASSUME OneUidPerTopic
  PROVE  Spec => []TypeOK
<1>1. AllRecorded => TypeOK
  <2> SUFFICES ASSUME AllRecorded PROVE TypeOK
    OBVIOUS
  <2>1. Typed /\ Shape /\ StoreTyped
    BY DEF AllRecorded, AllGenuine, Typed
  <2>2. ASSUME NEW p \in Instance, entry[p] # None
        PROVE  /\ entry[p].prefix[Len(entry[p].prefix)] = ""
               /\ entry[p].entities \in SUBSET Entity[p] /\ entry[p].entities # {}
               /\ sending[p] \subseteq entry[p].entities
    <3>1. entry[p] \in Acceptable(p) /\ sending[p] \subseteq entry[p].entities
      BY <2>1, <2>2 DEF Typed, InstanceTyped
    <3>2. /\ entry[p].prefix \in SharedPrefix
          /\ entry[p].entities \subseteq Entity[p] /\ entry[p].entities # {}
      BY <3>1, Entries
    <3> QED
      BY <3>1, <3>2, PrefixesAreNormal DEF Normal
  <2>3. up \subseteq {p \in Instance : entry[p] # None}
    BY <2>1 DEF Typed, InstanceTyped, Shape
  <2>4. ASSUME NEW p \in Instance
        PROVE  /\ DOMAIN known[p] \subseteq registry[p]
               /\ diag[p] \subseteq BridgesOf(DOMAIN known[p], p)
               /\ p \notin up => inbox[p] = <<>> /\ known[p] = Nothing
    BY <2>1 DEF AllRecorded, Recorded, Typed, InstanceTyped
  <2>5. \A r, s \in retained : r.payload # None /\ (r.topic = s.topic => r = s)
    BY <2>1 DEF StoreTyped
  <2> QED
    BY <2>2, <2>3, <2>4, <2>5 DEF TypeOK
<1> QED
  BY <1>1, AllRecordedInit, AllRecordedStep, PTL DEF Spec

(***************************************************************************)
(* What was depublished                                                    *)
(***************************************************************************)
\* What q depublished is not retained.
Buried(q) ==
  /\ buried[q] \subseteq SharedPrefix \X (Uid \cap Announced)
  /\ \A w \in buried[q] : \A r \in retained : r.topic # TopicIn(w[1], w[2])

\* Withdrawing brings nothing back.
LEMMA WithdrawnBuried ==
  ASSUME NEW q, Buried(q), buried'[q] \subseteq buried[q], NEW S,
         \A m \in S : m.payload = None, retained' = Store(S) \/ retained' = retained
  PROVE  Buried(q)'
<1>1. retained' \subseteq retained
  BY DEF Store
<1> QED
  BY <1>1 DEF Buried

LEMMA PublishDiscoveryBuried ==
  ASSUME OneUidPerTopic, Typed, NEW p \in Instance, NEW e \in Entity[p],
         PublishDiscovery(p, e), NEW q \in Instance, Buried(q)
  PROVE  Buried(q)'
<1> DEFINE m == Announcing(p, e)
           x == entry[p].prefix
<1>1. /\ entry[p] # None /\ InstanceTyped(p) /\ retained' = Store({m})
      /\ buried' = [r \in Instance |-> buried[r] \ {<<x, UidOf(m)>>}]
  <2>1. p \in up /\ InstanceTyped(p)
    BY DEF PublishDiscovery, Typed
  <2>2. entry[p] # None
    BY <2>1 DEF InstanceTyped
  <2> QED
    BY <2>1, <2>2 DEF PublishDiscovery, Announcing, UidOf
<1>2. /\ m \in Msg /\ m.payload \in Announcement /\ Announces(m) /\ Produced(m.payload)
      /\ m.topic = DiscoveryTopic(x, e) /\ UidOf(m) = <<Slug(p), "::", e>>
  BY <1>1, AnnouncingMessage
<1>3. UidOf(m) \in Uid \cap Announced
  <2>1. Genuine(m)
    BY <1>2 DEF Genuine
  <2>2. UidOf(m) \in Uid
    BY <1>2, Payloads DEF UidOf
  <2> QED
    BY <1>2, <2>1, <2>2, GenuineIsAnnounced
<1>4. x \in SharedPrefix /\ m.topic = TopicIn(x, UidOf(m))
  <2>1. UidOf(m)[3] = e
    BY <1>2
  <2> QED
    BY <1>1, <1>2, <2>1, Entries DEF TopicIn, InstanceTyped
<1> HIDE DEF m, x
<1>5. buried'[q] = buried[q] \ {<<x, UidOf(m)>>}
  BY <1>1
<1>6. ASSUME NEW w \in buried'[q], NEW r \in retained' PROVE r.topic # TopicIn(w[1], w[2])
  <2>1. w \in buried[q] /\ w \in SharedPrefix \X (Uid \cap Announced)
    BY <1>5 DEF Buried
  <2>2. CASE r \in retained
    BY <2>1, <2>2 DEF Buried
  <2>3. CASE r = m
    <3> SUFFICES ASSUME m.topic = TopicIn(w[1], w[2]) PROVE FALSE
      BY <2>3
    <3>1. w[1] \in SharedPrefix /\ w[2] \in Uid \cap Announced /\ w = <<w[1], w[2]>>
      BY <2>1
    <3>2. x = w[1] /\ UidOf(m) = w[2]
      <4> DEFINE u == UidOf(m)
                 v == w[2]
                 y == w[1]
      <4>1. /\ u \in Uid \cap Announced /\ v \in Uid \cap Announced
            /\ x \in SharedPrefix /\ y \in SharedPrefix /\ TopicIn(x, u) = TopicIn(y, v)
        BY <1>3, <1>4, <3>1
      <4> HIDE DEF u, v, y
      <4>2. x = y /\ u = v
        BY <4>1, OneUid
      <4> QED
        BY <4>2 DEF u, v, y
    <3> QED
      BY <1>5, <3>1, <3>2
  <2> QED
    BY <1>1, <2>2, <2>3 DEF Store
<1> QED
  BY <1>5, <1>6 DEF Buried

LEMMA PublishMetadataBuried ==
  ASSUME Typed, NEW p \in Instance, PublishMetadata(p), NEW q \in Instance, Buried(q)
  PROVE  Buried(q)'
<1> DEFINE x == entry[p].prefix
           b == Slug(p)
           d == build_metadata_payload(b, Cardinality(entry[p].entities))
           m == Message(MetadataTopic(x, b), d)
<1>1. /\ p \in up /\ InstanceTyped(p) /\ retained' = Store({m}) /\ buried' = buried
      /\ m.topic = MetadataTopic(x, b)
  BY DEF PublishMetadata, Typed, Message
<1>2. x \in SharedPrefix /\ b \in Bridge
  <2>1. entry[p] \in Acceptable(p)
    BY <1>1 DEF InstanceTyped
  <2> QED
    BY <2>1, Entries, BridgeOfInstance DEF Slug
<1> HIDE DEF x, b, d, m
<1>3. ASSUME NEW w \in buried[q], NEW r \in retained' PROVE r.topic # TopicIn(w[1], w[2])
  <2>1. CASE r \in retained
    BY <2>1 DEF Buried
  <2>2. CASE r = m
    <3> SUFFICES ASSUME MetadataTopic(x, b) = DiscoveryTopic(w[1], w[2][3]) PROVE FALSE
      BY <1>1, <2>2 DEF TopicIn
    <3>1. w[1] \in SharedPrefix /\ w[2][3] \in EntityId
      BY UidParts DEF Buried
    <3>2. topics_to_subscribe(MetadataTopic(x, b), w[1])
      BY <3>1, DiscoveryRoute
    <3>3. w[1] = x
      BY <1>2, <3>1, <3>2, MetadataRoute
    <3>4. parse_metadata_topic(MetadataTopic(x, b), x) = None
      BY <1>2, <3>1, <3>3, DiscoveryRoute
    <3>5. parse_metadata_topic(MetadataTopic(x, b), x) = b
      BY <1>2, MetadataRoute
    <3> QED
      BY <1>2, <3>4, <3>5, Words, Sorts
  <2> QED
    BY <1>1, <2>1, <2>2 DEF Store
<1> QED
  BY <1>1, <1>3 DEF Buried

LEMMA DepublishBuried ==
  ASSUME Typed, NEW p \in Instance, Recorded(p), NEW b, Depublish(p, b),
         NEW q \in Instance, Buried(q)
  PROVE  Buried(q)'
<1> DEFINE S == Erasers(p, b)
           x == entry[p].prefix
           new == {<<x, u>> : u \in Obsolete(p, b)}
<1>1. Shape /\ InstanceTyped(p)
  BY DEF Typed
<1>2. /\ x \in SharedPrefix /\ retained' = Store(S)
      /\ buried' = [buried EXCEPT ![p] = @ \cup new]
  BY <1>1, DepublishEffect, Entries
<1>3. \A m \in S : m.payload = None
  BY <1>1, DepublishSpreads
<1>4. CASE q # p
  <2>1. buried'[q] \subseteq buried[q]
    BY <1>1, <1>2, <1>4 DEF Shape
  <2> HIDE DEF S
  <2> QED
    BY <1>2, <1>3, <2>1, WithdrawnBuried
<1>5. CASE q = p
  <2>1. buried'[q] = buried[q] \cup new
    BY <1>1, <1>2, <1>5 DEF Shape
  <2>2. Obsolete(p, b) \subseteq Uid \cap Announced
    BY <1>1 DEF Obsolete, InstanceTyped, Recorded
  <2>3. new \subseteq SharedPrefix \X (Uid \cap Announced)
    BY <1>2, <2>2
  <2>4. retained' \subseteq retained
    BY <1>2, <1>3 DEF Store
  <2>5. ASSUME NEW u \in Obsolete(p, b), NEW r \in retained' PROVE r.topic # TopicIn(x, u)
    <3>1. Message(TopicIn(x, u), None) \in S
      BY DEF Erasers
    <3>2. Message(TopicIn(x, u), None).topic = TopicIn(x, u)
      BY DEF Message
    <3> HIDE DEF S, x
    <3>3. \/ r \in retained /\ \A m \in S : r.topic # m.topic
          \/ r \in S /\ r.payload # None
      <4>1. r \in Store(S)
        BY <1>2
      <4> QED
        BY <4>1 DEF Store
    <3> QED
      BY <1>3, <3>1, <3>2, <3>3
  <2>6. \A w \in new : \A r \in retained' : r.topic # TopicIn(w[1], w[2])
    BY <2>5
  <2> HIDE DEF new
  <2> QED
    BY <2>1, <2>3, <2>4, <2>6 DEF Buried
<1> QED
  BY <1>4, <1>5

LEMMA BuriedStep ==
  ASSUME OneUidPerTopic, AllRecorded, [Next]_vars, NEW q \in Instance, Buried(q)
  PROVE  Buried(q)'
<1>1. Typed /\ Shape
  BY DEF AllRecorded, AllGenuine, Typed
<1>2. CASE UNCHANGED vars
  BY <1>2 DEF vars, Buried
<1>3. ASSUME NEW p \in Instance,
             \/ \E e \in Acceptable(p) : AddEntry(p, e) \/ Reconfigure(p, e)
             \/ Start(p) \/ Stop(p) \/ Reconnect(p) \/ RemoveEntry(p)
             \/ \E e \in Entity[p] : \E v \in ValuesOf[e] : PublishState(p, e, v)
             \/ Receive(p)
      PROVE  Buried(q)'
  <2>1. /\ buried' = buried
        /\ \/ retained' = retained
           \/ \E x, E : retained' = Store(Withdrawal(x, E))
    <3>1. CASE \E e \in Acceptable(p) : AddEntry(p, e)
      BY <3>1 DEF AddEntry
    <3>2. CASE \E e \in Acceptable(p) : Reconfigure(p, e)
      BY <3>2 DEF Reconfigure
    <3>3. CASE Start(p) \/ Stop(p) \/ Reconnect(p)
      BY <3>3 DEF Start, Stop, Reconnect
    <3>4. CASE RemoveEntry(p)
      BY <3>4 DEF RemoveEntry
    <3>5. CASE \E e \in Entity[p] : \E v \in ValuesOf[e] : PublishState(p, e, v)
      BY <3>5 DEF PublishState
    <3>6. CASE Receive(p)
      BY <3>6, ReceiveOwn
    <3> QED
      BY <1>3, <3>1, <3>2, <3>3, <3>4, <3>5, <3>6
  <2>2. CASE retained' = retained
    BY <2>1, <2>2 DEF Buried
  <2>3. ASSUME NEW x, NEW E, retained' = Store(Withdrawal(x, E)) PROVE Buried(q)'
    <3>1. \A m \in Withdrawal(x, E) : m.payload = None
      BY DEF Withdrawal, Message
    <3> QED
      BY <2>1, <2>3, <3>1, WithdrawnBuried
  <2> QED
    BY <2>1, <2>2, <2>3
<1>4. ASSUME NEW p \in Instance,
             \/ \E e \in Entity[p] : PublishDiscovery(p, e)
             \/ PublishMetadata(p)
             \/ \E u \in registry[p] : Depublish(p, u[1])
      PROVE  Buried(q)'
  BY <1>1, <1>4, PublishDiscoveryBuried, PublishMetadataBuried, DepublishBuried DEF AllRecorded
<1> QED
  BY <1>2, <1>3, <1>4, Zenon DEF Next

DeadInv == AllInSync /\ AllRecorded /\ \A q \in Instance : Buried(q)

LEMMA DeadInit == Init => DeadInv
<1>1. Init => \A q \in Instance : Buried(q)
  BY DEF Init, Buried
<1> QED
  BY <1>1, AllInSyncInit, AllRecordedInit DEF DeadInv

LEMMA DeadStep ==
  ASSUME OneUidPerTopic
  PROVE  DeadInv /\ [Next]_vars => DeadInv'
<1> SUFFICES ASSUME DeadInv, [Next]_vars PROVE DeadInv'
  OBVIOUS
<1>1. AllInSync' /\ AllRecorded'
  BY AllInSyncStep, AllRecordedStep DEF DeadInv
<1>2. \A q \in Instance : Buried(q)'
  BY BuriedStep DEF DeadInv
<1> QED
  BY <1>1, <1>2 DEF DeadInv

\* If a discovery topic never carries two unique ids, a settled instance that
\* lost no removal shows nothing it has depublished under its prefix: whatever it
\* shows is retained (InSync), and what it depublished is not (Buried).
THEOREM DeadStaysDeadHolds ==
  ASSUME OneUidPerTopic
  PROVE  Spec => []DeadStaysDead
<1>1. DeadInv => DeadStaysDead
  <2> SUFFICES ASSUME DeadInv, NEW p \in Instance \ missed, Settled(p), NEW u \in DOMAIN known[p],
                      <<entry[p].prefix, u>> \in buried[p]
               PROVE  FALSE
    BY DEF DeadStaysDead
  <2> DEFINE t == TopicIn(entry[p].prefix, u)
  <2>1. /\ p \in up /\ p \in Instance /\ inbox[p] = <<>> /\ InSync(p) /\ Recorded(p) /\ Buried(p)
    BY DEF DeadInv, AllInSync, AllRecorded, Settled
  <2>2. Len(inbox[p]) = 0
    BY <2>1, LenProperties
  <2>3. t \in DOMAIN topicUid[p]
    BY <2>1 DEF Recorded
  <2>4. Accounted(inbox[p], retained, t)
    BY <2>1, <2>3 DEF InSync
  <2>5. \E r \in retained : r.topic = t
    BY <2>2, <2>4 DEF Accounted
  <2>6. \A r \in retained : r.topic # t
    BY <2>1 DEF Buried
  <2> QED
    BY <2>5, <2>6
<1> QED
  BY <1>1, DeadInit, DeadStep, PTL DEF Spec

(***************************************************************************)
(* Classes and values                                                      *)
(***************************************************************************)
\* An entity reads what its source can read, or nothing yet; it has a class
\* only if its source measures.
Sober(k, u) ==
  /\ k.value \in {set_native_value(v) : v \in ValuesOf[u[3]] \cup {"", "unknown"}}
  /\ k.device_class # None => Measures(u[3])

AllSober(q) == \A u \in DOMAIN known[q] : Sober(known[q][u], u)

LEMMA GenuineIsHonest ==
  ASSUME TrueClasses, NEW m, Genuine(m), Announces(m)
  PROVE  Honest(m.payload)
<1>1. CASE Produced(m.payload)
  <2>1. PICK p \in Instance : \E s \in Slugs(p), e \in Entity[p] :
          m.payload = build_discovery_payload(e, ClassOf[e], s, ValuePrefix)
    BY <1>1 DEF Produced
  <2>2. PICK s \in Slugs(p), e \in Entity[p] :
          m.payload = build_discovery_payload(e, ClassOf[e], s, ValuePrefix)
    BY <2>1
  <2> QED
    BY <2>2 DEF TrueClasses
<1>2. CASE \E r \in Heritage : m.payload = r.payload
  <2>1. PICK r \in Heritage : m.payload = r.payload
    BY <1>2
  <2>2. Announces(r)
    BY <2>1 DEF Announces
  <2> QED
    BY <2>1, <2>2 DEF TrueClasses
<1> QED
  BY <1>1, <1>2 DEF Genuine

\* Only readings of an entity arrive on its state topic.
LEMMA StateReading ==
  ASSUME Apart, DistinctObjects, NEW m \in Msg, NEW e \in EntityId,
         m.topic = StateTopic(ValuePrefix, e)
  PROVE  m.payload.state \in ValuesOf[e] \cup {""}
<1>1. ~AboutEntity(m)
  <2> SUFFICES ASSUME NEW y \in SharedPrefix, NEW f \in EntityId, m.topic = DiscoveryTopic(y, f)
               PROVE  FALSE
    BY DEF AboutEntity
  <2>1. topics_to_subscribe(DiscoveryTopic(y, f), y)
    BY DiscoveryRoute
  <2> QED
    BY <2>1 DEF Apart
<1>2. ~AboutBridge(m)
  <2> SUFFICES ASSUME NEW y \in SharedPrefix, NEW b \in Bridge, m.topic = MetadataTopic(y, b)
               PROVE  FALSE
    BY DEF AboutBridge
  <2>1. topics_to_subscribe(MetadataTopic(y, b), y)
    BY MetadataRoute
  <2> QED
    BY <2>1 DEF Apart
<1>3. AboutState(m)
  BY <1>1, <1>2, Messages
<1>4. PICK f \in EntityId : /\ m.topic = StateTopic(ValuePrefix, f)
                            /\ m.payload.state \in ValuesOf[f] \cup {""}
  BY <1>3 DEF AboutState
<1>5. e[2] = f[2]
  BY <1>4, StateRoute
<1>6. e = f
  BY <1>5 DEF DistinctObjects
<1> QED
  BY <1>4, <1>6

LEMMA ReceiveSober ==
  ASSUME Apart, DistinctObjects, TrueClasses, Shape, NEW q \in Instance, InstanceTyped(q),
         Receive(q), GenuineInbox(q), AllSober(q)
  PROVE  AllSober(q)'
<1> DEFINE m == Head(inbox[q])
           t == m.topic
<1>1. m \in Msg /\ Genuine(m)
  <2>1. inbox[q] \in Seq(Msg) /\ inbox[q] # <<>>
    BY ReceiveOwn DEF InstanceTyped
  <2> QED
    BY <2>1, FirstMessage DEF GenuineInbox
<1>2. CASE ReceiveRemoval(q, t)
  <2>1. \E K : known'[q] = Drop(known[q], K)
    BY <1>2, RemovalEffect
  <2> QED
    BY <2>1 DEF AllSober, Drop
<1>3. CASE ReceiveDiscovery(q, t)
  <2> DEFINE u == UidOf(m)
             k == known'[q][u]
  <2>1. /\ Announces(m) /\ m.payload.unique_id = u
        /\ known'[q] = Put(known[q], u, k)
        /\ k.device_class =
             IF domain_from_unique_id(u) = "sensor" THEN m.payload.device_class ELSE None
        /\ k.value = IF u \in DOMAIN known[q] THEN known[q][u].value
                       ELSE set_native_value("unknown")
    BY <1>3, DiscoveryEffect DEF UidOf
  <2>2. Honest(m.payload)
    BY <1>1, <2>1, GenuineIsHonest
  <2>3. k.device_class # None => Measures(u[3])
    <3>1. domain_from_unique_id(u) = "sensor"
            => u[2] = "::" /\ domain_from_entity_id(u[3]) = "sensor"
      BY Words, Sorts DEF domain_from_unique_id
    <3> QED
      BY <2>1, <2>2, <3>1 DEF Honest
  <2>4. k.value \in {set_native_value(v) : v \in ValuesOf[u[3]] \cup {"", "unknown"}}
    BY <2>1 DEF AllSober, Sober
  <2>5. Sober(k, u)
    BY <2>3, <2>4 DEF Sober
  <2> HIDE DEF k, u
  <2>6. /\ DOMAIN known'[q] = DOMAIN known[q] \cup {u} /\ known'[q][u] = k
        /\ \A w \in DOMAIN known[q] : w # u => known'[q][w] = known[q][w]
    BY <2>1 DEF Put
  <2> QED
    BY <2>5, <2>6 DEF AllSober
<1>4. CASE ReceiveState(q, t)
  <2> DEFINE v == m.payload.state
  <2>1. /\ DOMAIN known'[q] = DOMAIN known[q]
        /\ \A u \in DOMAIN known[q] :
             known'[q][u] = IF known[q][u].state_topic # t THEN known[q][u]
                            ELSE [known[q][u] EXCEPT !.value = set_native_value(v)]
    BY <1>4, StateEffect
  <2>2. ASSUME NEW u \in DOMAIN known[q] PROVE Sober(known'[q][u], u)
    <3>1. /\ u \in Uid /\ known[q][u].state_topic = StateTopic(ValuePrefix, u[3])
          /\ DOMAIN known[q][u] = {"device_class", "state_topic", "device", "value"}
          /\ u[3] \in EntityId /\ Sober(known[q][u], u)
      BY UidParts DEF InstanceTyped, KnownTyped, AllSober
    <3>2. CASE known[q][u].state_topic # t
      BY <2>1, <3>1, <3>2
    <3>3. CASE known[q][u].state_topic = t
      <4>1. v \in ValuesOf[u[3]] \cup {""}
        BY <1>1, <3>1, <3>3, StateReading
      <4> HIDE DEF v, m, t
      <4>2. known'[q][u] = [known[q][u] EXCEPT !.value = set_native_value(v)]
        BY <2>1, <3>3
      <4>3. /\ known'[q][u].value = set_native_value(v)
            /\ known'[q][u].device_class = known[q][u].device_class
        BY <3>1, <4>2
      <4> QED
        BY <3>1, <4>1, <4>3 DEF Sober
    <3> QED
      BY <3>2, <3>3
  <2> QED
    BY <2>1, <2>2 DEF AllSober
<1>5. CASE ReceiveMetadata(q, t) \/ Ignore(q, t)
  <2>1. known'[q] = known[q]
    BY <1>5 DEF ReceiveMetadata, Ignore, memory
  <2> QED
    BY <2>1 DEF AllSober
<1> QED
  BY <1>2, <1>3, <1>4, <1>5 DEF Receive

LEMMA SoberStep ==
  ASSUME Apart, DistinctObjects, TrueClasses, Typed, NEW q \in Instance, Step(q),
         GenuineInbox(q), AllSober(q)
  PROVE  AllSober(q)'
<1>1. Shape /\ InstanceTyped(q)
  BY DEF Typed
<1>2. CASE Stays(q) \/ Reconnect(q)
  <2>1. known'[q] = known[q]
    BY <1>2 DEF Stays, Reconnect, memory
  <2> QED
    BY <2>1 DEF AllSober
<1>3. CASE Renewed(q)
  <2>1. DOMAIN known'[q] = {}
    BY <1>3, NothingKnown DEF Renewed
  <2> QED
    BY <2>1 DEF AllSober
<1>4. CASE Receive(q)
  BY <1>1, <1>4, ReceiveSober
<1>5. ASSUME NEW u \in registry[q], Depublish(q, u[1]) PROVE AllSober(q)'
  <2>1. \E K : known' = [known EXCEPT ![q] = Drop(@, K)]
    BY <1>1, <1>5, DepublishEffect
  <2>2. \E K : known'[q] = Drop(known[q], K)
    BY <1>1, <2>1 DEF Shape
  <2> QED
    BY <2>2 DEF AllSober, Drop
<1> QED
  BY <1>2, <1>3, <1>4, <1>5 DEF Step

SoberInv == AllGenuine /\ \A q \in Instance : AllSober(q)

LEMMA SoberInit == Init => SoberInv
<1> SUFFICES ASSUME Init PROVE \A q \in Instance : AllSober(q)
  BY AllGenuineInit DEF SoberInv
<1>1. \A q \in Instance : DOMAIN known[q] = {}
  BY NothingKnown DEF Init
<1> QED
  BY <1>1 DEF AllSober

LEMMA SoberInvStep ==
  ASSUME Apart, DistinctObjects, TrueClasses
  PROVE  SoberInv /\ [Next]_vars => SoberInv'
<1> SUFFICES ASSUME SoberInv, [Next]_vars PROVE SoberInv'
  OBVIOUS
<1>1. AllGenuine /\ AllGenuine' /\ Typed
  BY AllGenuineStep DEF SoberInv, AllGenuine
<1>2. ASSUME NEW q \in Instance PROVE AllSober(q)'
  <2>1. Step(q) /\ GenuineInbox(q) /\ AllSober(q)
    BY <1>1, Steps DEF SoberInv, AllGenuine
  <2> QED
    BY <1>1, <2>1, SoberStep
<1> QED
  BY <1>1, <1>2 DEF SoberInv

\* If only what measures is announced with a class, and a state topic is neither
\* shared by two entities nor one of a discovery subscription, an entity with a
\* numeric class never shows a text: the class of a non-sensor is dropped on
\* arrival, a sentinel is not taken for a reading.
THEOREM NumericSafeHolds ==
  ASSUME Apart, DistinctObjects, TrueClasses
  PROVE  Spec => []NumericSafe
<1>1. SoberInv => NumericSafe
  <2> SUFFICES ASSUME SoberInv, NEW p \in up, NEW u \in DOMAIN known[p],
                      known[p][u].device_class # None
               PROVE  known[p][u].value.native \in Numbers \cup {None, ""}
    BY DEF NumericSafe
  <2>1. Sober(known[p][u], u)
    BY DEF SoberInv, AllSober, AllGenuine, Typed, Shape
  <2>2. PICK v \in ValuesOf[u[3]] \cup {"", "unknown"} : known[p][u].value = set_native_value(v)
    BY <2>1 DEF Sober
  <2>3. v \in Numbers \cup {"", "unavailable", "unknown"}
    BY <2>1, <2>2 DEF Sober, Measures
  <2>4. set_native_value(v).native = IF v \in {"unavailable", "unknown"} THEN None ELSE v
    BY DEF set_native_value
  <2> QED
    BY <2>2, <2>3, <2>4
<1> QED
  BY <1>1, SoberInit, SoberInvStep, PTL DEF Spec
=============================================================================
