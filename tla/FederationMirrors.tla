------------------------- MODULE FederationMirrors -------------------------
(***************************************************************************)
(* Proofs about Federation: an instance that has handled what it was sent  *)
(* mirrors what the broker retains.  InSync relates what is under way to   *)
(* an instance and what it shows to what is retained, Due what is retained *)
(* to what it shows or has under way.                                      *)
(***************************************************************************)
EXTENDS FederationProofs

(***************************************************************************)
(* The inbox ends with what the broker retains                             *)
(***************************************************************************)
\* A message that agrees with the retained store R.
Current(m, R) == m \in R \/ (m.payload = None /\ \A r \in R : r.topic # m.topic)

\* Whatever is under way on a discovery topic under prefix x, the last word on
\* that topic agrees with R.
UpToDate(s, x, R) ==
  \A j \in 1..Len(s) :
    s[j].payload \notin Reading /\ topics_to_subscribe(s[j].topic, x)
      => \E k \in 1..Len(s) : j <= k /\ s[k].topic = s[j].topic /\ Current(s[k], R)

\* Publishing keeps it so: the last message on a topic is what is retained next.
LEMMA SpreadUpToDate ==
  ASSUME StoreTyped, NEW S, NEW C, Shared(S, C), NEW q \in Instance, NEW w,
         inbox[q] \in Seq(Msg), Extended(w, inbox[q], Heard(q, S \cup C)),
         UpToDate(inbox[q], entry[q].prefix, retained)
  PROVE  UpToDate(w, entry[q].prefix, Store(S))
<1> DEFINE s == inbox[q]
           x == entry[q].prefix
           H == Heard(q, S \cup C)
<1>1. /\ w \in Seq(Msg) /\ Len(s) <= Len(w)
      /\ \A i \in 1..Len(s) : w[i] = s[i]
      /\ \A i \in Len(s) + 1 .. Len(w) : w[i] \in H
      /\ \A m \in H : \E i \in Len(s) + 1 .. Len(w) : w[i] = m
  BY DEF Extended
<1>2. Len(s) \in Nat /\ Len(w) \in Nat
  BY <1>1, LenProperties
<1>3. H \subseteq S \cup C /\ \A m \in S : topics_to_subscribe(m.topic, x) => m \in H
  BY DEF Heard, Subscribed
<1>4. \A j \in 1..Len(s) :
        s[j].payload \notin Reading /\ topics_to_subscribe(s[j].topic, x)
          => \E k \in 1..Len(s) : j <= k /\ s[k].topic = s[j].topic /\ Current(s[k], retained)
  BY DEF UpToDate
<1> HIDE DEF s, x, H
<1>5. SUFFICES ASSUME NEW j \in 1..Len(w), w[j].payload \notin Reading,
                      topics_to_subscribe(w[j].topic, x)
               PROVE  \E k \in 1..Len(w) :
                        j <= k /\ w[k].topic = w[j].topic /\ Current(w[k], Store(S))
  BY DEF UpToDate, x
<1>6. ASSUME NEW k \in Len(s) + 1 .. Len(w), w[k] \in S PROVE Current(w[k], Store(S))
  <2>1. CASE w[k].payload # None
    BY <1>6, <2>1 DEF Current, Store
  <2>2. CASE w[k].payload = None
    BY <1>6, <2>2 DEF Current, Store, Shared
  <2> QED
    BY <2>1, <2>2
<1>7. ASSUME j \in Len(s) + 1 .. Len(w) PROVE w[j] \in S
  BY <1>1, <1>3, <1>5, <1>7 DEF Shared
<1>8. CASE j \in Len(s) + 1 .. Len(w)
  BY <1>2, <1>6, <1>7, <1>8
<1>9. CASE j \in 1..Len(s)
  <2>1. w[j] = s[j]
    BY <1>1, <1>9
  <2>2. CASE \E m \in S : m.topic = w[j].topic
    <3>1. PICK m \in S : m.topic = w[j].topic
      BY <2>2
    <3>2. m \in H
      BY <1>3, <1>5, <3>1
    <3>3. PICK k \in Len(s) + 1 .. Len(w) : w[k] = m
      BY <1>1, <3>2
    <3>4. k \in 1..Len(w) /\ j <= k
      BY <1>2, <1>9
    <3> QED
      BY <1>6, <3>1, <3>3, <3>4
  <2>3. CASE \A m \in S : m.topic # w[j].topic
    <3>1. PICK k \in 1..Len(s) : j <= k /\ s[k].topic = s[j].topic /\ Current(s[k], retained)
      BY <1>4, <1>5, <1>9, <2>1
    <3>2. w[k] = s[k] /\ k \in 1..Len(w)
      BY <1>1, <1>2
    <3>3. Current(w[k], Store(S))
      BY <2>1, <2>3, <3>1, <3>2 DEF Current, Store
    <3> QED
      BY <2>1, <3>1, <3>2, <3>3
  <2> QED
    BY <2>2, <2>3
<1> QED
  BY <1>2, <1>8, <1>9

\* A fresh subscriber has the store itself under way.
LEMMA RedeliveredUpToDate ==
  ASSUME NEW R, IsFiniteSet(R), NEW x
  PROVE  UpToDate(Redelivered(x, R), x, R)
<1> DEFINE w == Redelivered(x, R)
<1>1. w \in Seq(R) /\ \A i \in 1..Len(w) : w[i] \in R
  BY RedeliveredMessages
<1>2. Len(w) \in Nat
  BY <1>1, LenProperties
<1> HIDE DEF w
<1>3. UpToDate(w, x, R)
  BY <1>1, <1>2 DEF UpToDate, Current
<1> QED
  BY <1>3 DEF w

\* Handling the first message does not change the last.
LEMMA TailUpToDate ==
  ASSUME NEW s \in Seq(Msg), s # <<>>, NEW x, NEW R, UpToDate(s, x, R)
  PROVE  UpToDate(Tail(s), x, R)
<1> DEFINE w == Tail(s)
<1>1. Len(s) \in Nat /\ Len(w) = Len(s) - 1 /\ \A i \in 1..Len(w) : w[i] = s[i + 1]
  BY FirstMessage, LenProperties
<1> HIDE DEF w
<1>2. SUFFICES ASSUME NEW j \in 1..Len(w), w[j].payload \notin Reading,
                      topics_to_subscribe(w[j].topic, x)
               PROVE  \E k \in 1..Len(w) : j <= k /\ w[k].topic = w[j].topic /\ Current(w[k], R)
  BY DEF UpToDate, w
<1>3. j + 1 \in 1..Len(s) /\ w[j] = s[j + 1]
  BY <1>1
<1>4. PICK k \in 1..Len(s) : j + 1 <= k /\ s[k].topic = s[j + 1].topic /\ Current(s[k], R)
  BY <1>2, <1>3 DEF UpToDate
<1>5. k - 1 \in 1..Len(w) /\ j <= k - 1 /\ (k - 1) + 1 = k
  BY <1>1, <1>4
<1>6. w[k - 1] = s[k]
  BY <1>1, <1>5
<1> QED
  BY <1>3, <1>4, <1>5, <1>6

\* The erasing message of topic t, or what is retained on it, is due.
Accounted(s, R, t) ==
  (\E r \in R : r.topic = t) \/ \E i \in 1..Len(s) : s[i] = Message(t, None)

\* What was last seen on a topic is materialized, and of that topic.
Anchored(q) ==
  \A t \in DOMAIN topicUid[q] :
    /\ topicUid[q][t] \in Uid /\ t = TopicIn(entry[q].prefix, topicUid[q][t])
    /\ topicUid[q][t] \in DOMAIN known[q]

\* What a running instance shows or has under way.
InSync(q) ==
  q \in up =>
    /\ Anchored(q)
    /\ UpToDate(inbox[q], entry[q].prefix, retained)
    /\ q \notin missed => \A t \in DOMAIN topicUid[q] : Accounted(inbox[q], retained, t)

LEMMA SpreadAccounted ==
  ASSUME StoreTyped, NEW S, NEW C, Shared(S, C), NEW q \in Instance, NEW w,
         inbox[q] \in Seq(Msg), Extended(w, inbox[q], Heard(q, S \cup C)),
         NEW t, topics_to_subscribe(t, entry[q].prefix), Accounted(inbox[q], retained, t)
  PROVE  Accounted(w, Store(S), t)
<1> DEFINE s == inbox[q]
           H == Heard(q, S \cup C)
<1>1. /\ w \in Seq(Msg) /\ Len(s) <= Len(w)
      /\ \A i \in 1..Len(s) : w[i] = s[i]
      /\ \A m \in H : \E i \in Len(s) + 1 .. Len(w) : w[i] = m
  BY DEF Extended
<1>2. Len(s) \in Nat /\ Len(w) \in Nat
  BY <1>1, LenProperties
<1>3. \A m \in S : m.topic = t => m \in H
  BY DEF Heard, Subscribed
<1>4. (\E r \in retained : r.topic = t) \/ \E i \in 1..Len(s) : s[i] = Message(t, None)
  BY DEF Accounted
<1> HIDE DEF s, H
<1>5. CASE \E m \in S : m.topic = t
  <2>1. PICK m \in S : m.topic = t
    BY <1>5
  <2>2. CASE m.payload # None
    BY <2>1, <2>2 DEF Accounted, Store
  <2>3. CASE m.payload = None
    <3>1. m = Message(t, None)
      BY <2>1, <2>3, Messages DEF Shared
    <3>2. PICK i \in Len(s) + 1 .. Len(w) : w[i] = m
      BY <1>1, <1>3, <2>1
    <3>3. i \in 1..Len(w)
      BY <1>2
    <3> QED
      BY <3>1, <3>2, <3>3 DEF Accounted
  <2> QED
    BY <2>2, <2>3
<1>6. CASE \A m \in S : m.topic # t
  <2>1. CASE \E r \in retained : r.topic = t
    BY <1>6, <2>1 DEF Accounted, Store
  <2>2. CASE \E i \in 1..Len(s) : s[i] = Message(t, None)
    BY <1>1, <1>2, <2>2 DEF Accounted
  <2> QED
    BY <1>4, <2>1, <2>2
<1> QED
  BY <1>5, <1>6

\* The topic of a unique id under the prefix in use is a discovery topic.
LEMMA TopicRoute ==
  ASSUME NEW q \in Instance, InstanceTyped(q), q \in up, NEW u \in Uid
  PROVE  LET t == TopicIn(entry[q].prefix, u) IN
         topics_to_subscribe(t, entry[q].prefix) /\ BridgeOfTopic(q, t) = None
<1>1. entry[q].prefix \in SharedPrefix
  BY EntryOf DEF InstanceTyped
<1>2. u[3] \in EntityId
  BY UidParts
<1> QED
  BY <1>1, <1>2, DiscoveryRoute DEF TopicIn, BridgeOfTopic

\* Handling a message, except for its effect on what is due.
LEMMA ReceiveAnchored ==
  ASSUME Shape, NEW q \in Instance, InstanceTyped(q), Receive(q), Anchored(q)
  PROVE  Anchored(q)'
<1> DEFINE t == Head(inbox[q]).topic
           x == entry[q].prefix
<1>1. \A z \in DOMAIN topicUid[q] :
        /\ topicUid[q][z] \in Uid /\ z = TopicIn(x, topicUid[q][z])
        /\ topicUid[q][z] \in DOMAIN known[q]
  BY DEF Anchored
<1>2. entry'[q] = entry[q]
  BY ReceiveOwn
<1>3. CASE ReceiveRemoval(q, t)
  <2> DEFINE gone == LastSeen(q, {t}) \cap DOMAIN known[q]
  <2>1. topicUid'[q] = Drop(topicUid[q], {t}) /\ known'[q] = Drop(known[q], gone)
    BY <1>3, RemovalEffect
  <2>2. ASSUME NEW z \in DOMAIN topicUid[q], z # t PROVE topicUid[q][z] \notin gone
    BY <1>1, <2>2 DEF LastSeen
  <2> HIDE DEF gone, t, x
  <2>3. /\ DOMAIN topicUid'[q] = DOMAIN topicUid[q] \ {t}
        /\ \A z \in DOMAIN topicUid'[q] : topicUid'[q][z] = topicUid[q][z]
        /\ DOMAIN known'[q] = DOMAIN known[q] \ gone
    BY <2>1 DEF Drop
  <2> QED
    BY <1>1, <1>2, <2>2, <2>3 DEF Anchored, x
<1>4. CASE ReceiveDiscovery(q, t)
  <2> DEFINE u == UidOf(Head(inbox[q]))
             k == known'[q][u]
  <2>1. /\ u \in Uid /\ t = TopicIn(x, u)
        /\ topicUid'[q] = Put(topicUid[q], t, u) /\ known'[q] = Put(known[q], u, k)
    BY <1>4, DiscoveryEffect
  <2> HIDE DEF u, k, t, x
  <2>2. /\ DOMAIN topicUid'[q] = DOMAIN topicUid[q] \cup {t}
        /\ topicUid'[q][t] = u
        /\ \A z \in DOMAIN topicUid[q] : z # t => topicUid'[q][z] = topicUid[q][z]
        /\ DOMAIN known'[q] = DOMAIN known[q] \cup {u}
    BY <2>1 DEF Put
  <2> QED
    BY <1>1, <1>2, <2>1, <2>2 DEF Anchored, x
<1>5. CASE ReceiveMetadata(q, t) \/ Ignore(q, t)
  <2>1. known' = known /\ topicUid' = topicUid
    BY <1>5 DEF ReceiveMetadata, Ignore, memory
  <2> QED
    BY <1>1, <1>2, <2>1 DEF Anchored
<1>6. CASE ReceiveState(q, t)
  <2>1. DOMAIN known'[q] = DOMAIN known[q] /\ topicUid'[q] = topicUid[q]
    BY <1>6, StateEffect
  <2> QED
    BY <1>1, <1>2, <2>1 DEF Anchored
<1> QED
  BY <1>3, <1>4, <1>5, <1>6, Zenon DEF Receive

\* What is due stays due when the first message is handled.
LEMMA ReceiveAccounted ==
  ASSUME Shape, StoreTyped, NEW q \in Instance, InstanceTyped(q), Receive(q), Anchored(q),
         UpToDate(inbox[q], entry[q].prefix, retained),
         \A t \in DOMAIN topicUid[q] : Accounted(inbox[q], retained, t),
         NEW z \in DOMAIN topicUid'[q]
  PROVE  Accounted(Tail(inbox[q]), retained, z)
<1> DEFINE s == inbox[q]
           m == Head(s)
           t == m.topic
           x == entry[q].prefix
<1>1. /\ q \in up /\ s \in Seq(Msg) /\ s # <<>>
      /\ m \in Msg /\ m = s[1] /\ 1 \in 1..Len(s)
      /\ Len(Tail(s)) = Len(s) - 1 /\ \A i \in 1..Len(Tail(s)) : Tail(s)[i] = s[i + 1]
  BY ReceiveOwn, FirstMessage DEF InstanceTyped
<1>2. Len(s) \in Nat
  BY <1>1, LenProperties
<1>3. ASSUME NEW i \in 1..Len(s), i # 1, s[i] = Message(z, None)
      PROVE  Accounted(Tail(s), retained, z)
  <2>1. i - 1 \in 1..Len(Tail(s)) /\ (i - 1) + 1 = i
    BY <1>1, <1>2, <1>3
  <2>2. Tail(s)[i - 1] = Message(z, None)
    BY <1>1, <1>3, <2>1
  <2> QED
    BY <2>1, <2>2 DEF Accounted
<1>4. ASSUME NEW d PROVE Message(z, d).topic = z /\ Message(z, d).payload = d
  BY DEF Message
<1>5. ASSUME z \in DOMAIN topicUid[q], m # Message(z, None)
      PROVE  Accounted(Tail(s), retained, z)
  <2>1. CASE \E r \in retained : r.topic = z
    BY <2>1 DEF Accounted
  <2>2. CASE \E i \in 1..Len(s) : s[i] = Message(z, None)
    BY <1>1, <1>3, <1>5, <2>2
  <2> QED
    BY <1>5, <2>1, <2>2 DEF Accounted
<1>6. ASSUME z \in DOMAIN topicUid[q], m = Message(z, None)
      PROVE  t = z /\ m.payload = None /\ topics_to_subscribe(t, x) /\ BridgeOfTopic(q, t) = None
  <2>1. z = TopicIn(x, topicUid[q][z]) /\ topicUid[q][z] \in Uid
    BY <1>6 DEF Anchored
  <2>2. topics_to_subscribe(z, x) /\ BridgeOfTopic(q, z) = None
    BY <1>1, <2>1, TopicRoute
  <2> HIDE DEF m
  <2> QED
    BY <1>4, <1>6, <2>2
<1>7. CASE ReceiveRemoval(q, t)
  <2>1. topicUid'[q] = Drop(topicUid[q], {t})
    BY <1>7, RemovalEffect
  <2> HIDE DEF t
  <2>2. z \in DOMAIN topicUid[q] /\ z # t
    BY <2>1 DEF Drop
  <2> QED
    BY <1>4, <1>5, <2>2 DEF t
<1>8. CASE ReceiveDiscovery(q, t)
  <2> DEFINE u == UidOf(m)
  <2>1. /\ m.payload \in Announcement /\ topics_to_subscribe(t, x) /\ m.payload # None
        /\ topicUid'[q] = Put(topicUid[q], t, u)
    BY <1>8, DiscoveryEffect DEF Announces
  <2>2. m # Message(z, None)
    BY <1>4, <2>1
  <2>3. m.payload \notin Reading
    BY <2>1, Payloads
  <2> HIDE DEF u
  <2>4. CASE z # t
    <3> HIDE DEF t, m
    <3>1. z \in DOMAIN topicUid[q]
      BY <2>1, <2>4 DEF Put
    <3> QED
      BY <1>5, <2>2, <3>1
  <2>5. CASE z = t
    <3>1. PICK k \in 1..Len(s) : 1 <= k /\ s[k].topic = s[1].topic /\ Current(s[k], retained)
      <4>1. s[1].payload \notin Reading /\ topics_to_subscribe(s[1].topic, x)
        BY <1>1, <2>1, <2>3
      <4> QED
        BY <1>1, <4>1 DEF UpToDate
    <3>2. s[k].topic = z
      BY <1>1, <2>5, <3>1
    <3>3. CASE s[k] \in retained
      BY <3>2, <3>3 DEF Accounted
    <3>4. CASE s[k] \notin retained
      <4>1. s[k].payload = None
        BY <3>1, <3>4 DEF Current
      <4>2. s[k] \in Msg
        BY <1>1, ElementOfSeq
      <4>3. s[k] = Message(z, None)
        BY <3>2, <4>1, <4>2, Messages
      <4>4. k # 1
        BY <1>1, <2>2, <4>3
      <4> QED
        BY <1>3, <4>3, <4>4
    <3> QED
      BY <3>3, <3>4
  <2> QED
    BY <2>4, <2>5
<1>9. CASE ReceiveMetadata(q, t)
  <2>1. topicUid' = topicUid /\ BridgeOfTopic(q, t) # None
    BY <1>9 DEF ReceiveMetadata
  <2> QED
    BY <1>5, <1>6, <2>1
<1>10. CASE ReceiveState(q, t)
  <2>1. topicUid'[q] = topicUid[q] /\ ~topics_to_subscribe(t, x)
    BY <1>10, StateEffect
  <2> QED
    BY <1>5, <1>6, <2>1
<1>11. CASE Ignore(q, t)
  <2>1. /\ topicUid' = topicUid
        /\ BridgeOfTopic(q, t) # None \/ m.payload # None
    BY <1>11 DEF Ignore, memory
  <2> QED
    BY <1>5, <1>6, <2>1
<1> QED
  BY <1>7, <1>8, <1>9, <1>10, <1>11, Zenon DEF Receive

\* depublish_bridge forgets what it erases, and nothing else.
LEMMA DepublishAnchored ==
  ASSUME Shape, NEW q \in Instance, InstanceTyped(q), NEW b, Depublish(q, b), Anchored(q)
  PROVE  /\ Anchored(q)'
         /\ DOMAIN topicUid'[q] = DOMAIN topicUid[q] \ Live(q, b)
         /\ \A t \in DOMAIN topicUid'[q] : /\ topicUid'[q][t] = topicUid[q][t]
                                           /\ topicUid'[q][t] \in DOMAIN known'[q]
<1> DEFINE gone == LastSeen(q, Live(q, b))
           x == entry[q].prefix
<1>1. /\ topicUid' = [topicUid EXCEPT ![q] = Drop(@, Live(q, b))]
      /\ known' = [known EXCEPT ![q] = Drop(@, gone)] /\ entry' = entry
  BY DepublishEffect
<1>2. \A t \in DOMAIN topicUid[q] :
        /\ topicUid[q][t] \in Uid /\ t = TopicIn(x, topicUid[q][t])
        /\ topicUid[q][t] \in DOMAIN known[q]
  BY DEF Anchored
<1>3. ASSUME NEW t \in DOMAIN topicUid[q], t \notin Live(q, b) PROVE topicUid[q][t] \notin gone
  BY <1>2, <1>3 DEF LastSeen
<1> HIDE DEF gone, x
<1>4. /\ DOMAIN topicUid'[q] = DOMAIN topicUid[q] \ Live(q, b)
      /\ \A t \in DOMAIN topicUid'[q] : topicUid'[q][t] = topicUid[q][t]
      /\ DOMAIN known'[q] = DOMAIN known[q] \ gone
  BY <1>1 DEF Drop, Shape
<1>5. \A t \in DOMAIN topicUid'[q] : topicUid'[q][t] \in DOMAIN known'[q]
  BY <1>2, <1>3, <1>4
<1> QED
  BY <1>1, <1>2, <1>4, <1>5 DEF Anchored, x

LEMMA DepublishSpreads ==
  ASSUME NEW q \in Instance, InstanceTyped(q), NEW b, Depublish(q, b)
  PROVE  LET S == Erasers(q, b) IN
         /\ Shared(S, {}) /\ retained' = Store(S) /\ \A m \in S : m.payload = None
         /\ Extended(inbox'[q], inbox[q], Heard(q, S \cup {}))
<1> DEFINE S == Erasers(q, b)
<1>1. /\ q \in up /\ entry[q] \in Acceptable(q) /\ Obsolete(q, b) # {}
      /\ retained' = Store(S) /\ inbox' = Forward(S, {})
  BY DepublishEffect
<1>2. Shared(S, {}) /\ \A m \in S : m.payload = None
  BY <1>1, ErasersShared
<1>3. inbox[q] \in Seq(Msg)
  BY DEF InstanceTyped
<1> HIDE DEF S
<1>4. Spread(q, S, {})
  BY <1>1, <1>2, <1>3, ForwardSpreads
<1> QED
  BY <1>1, <1>2, <1>4 DEF Spread, S

\* Nothing on the way, and nothing shown.
LEMMA RenewedInSync ==
  ASSUME NEW q \in Instance, StoreTyped', Renewed(q)
  PROVE  InSync(q)'
<1> SUFFICES ASSUME q \in up' PROVE InSync(q)'
  BY DEF InSync
<1>1. topicUid'[q] = Nothing /\ inbox'[q] = Redelivered(entry'[q].prefix, retained')
  BY DEF Renewed
<1>2. IsFiniteSet(retained')
  BY DEF StoreTyped
<1>3. UpToDate(inbox'[q], entry'[q].prefix, retained')
  BY <1>1, <1>2, RedeliveredUpToDate
<1>4. DOMAIN topicUid'[q] = {}
  BY <1>1, NothingKnown
<1> QED
  BY <1>3, <1>4 DEF InSync, Anchored

LEMMA InSyncStep ==
  ASSUME Typed, Typed', NEW q \in Instance, Step(q), InSync(q)
  PROVE  InSync(q)'
<1>1. Shape /\ StoreTyped /\ InstanceTyped(q) /\ inbox[q] \in Seq(Msg) /\ StoreTyped'
  BY DEF Typed, InstanceTyped
<1>2. PICK S \in SUBSET Msg, C \in SUBSET Msg :
        /\ Shared(S, C) /\ retained' = Store(S)
        /\ \/ Stays(q) /\ Spread(q, S, C)
           \/ Renewed(q) \/ Reconnect(q) \/ Receive(q)
           \/ \E u \in registry[q] : Depublish(q, u[1])
  BY DEF Step
<1>3. ASSUME q \in up
      PROVE  /\ Anchored(q)
             /\ UpToDate(inbox[q], entry[q].prefix, retained)
             /\ q \notin missed => \A t \in DOMAIN topicUid[q] : Accounted(inbox[q], retained, t)
             /\ \A t \in DOMAIN topicUid[q] : topics_to_subscribe(t, entry[q].prefix)
  BY <1>1, <1>3, TopicRoute DEF InSync, Anchored
<1>4. CASE Stays(q) /\ Spread(q, S, C)
  <2> SUFFICES ASSUME q \in up' PROVE InSync(q)'
    BY DEF InSync
  <2>1. /\ q \in up /\ entry'[q] = entry[q] /\ known'[q] = known[q] /\ topicUid'[q] = topicUid[q]
        /\ (q \in missed' <=> q \in missed)
        /\ Extended(inbox'[q], inbox[q], Heard(q, S \cup C))
    BY <1>4 DEF Stays, Spread
  <2>2. Anchored(q)'
    BY <1>3, <2>1 DEF Anchored
  <2>3. UpToDate(inbox'[q], entry[q].prefix, Store(S))
    BY <1>1, <1>2, <1>3, <2>1, SpreadUpToDate
  <2>4. ASSUME q \notin missed, NEW t \in DOMAIN topicUid[q]
        PROVE  Accounted(inbox'[q], Store(S), t)
    BY <1>1, <1>2, <1>3, <2>1, <2>4, SpreadAccounted
  <2> QED
    BY <1>2, <2>1, <2>2, <2>3, <2>4 DEF InSync
<1>5. CASE Renewed(q)
  BY <1>1, <1>5, RenewedInSync
<1>6. CASE Reconnect(q)
  <2>1. /\ q \in up /\ entry' = entry /\ known' = known /\ topicUid' = topicUid
        /\ retained' = retained
        /\ inbox'[q] = Redelivered(entry[q].prefix, retained)
        /\ q \notin missed' => q \notin missed /\ \A i \in DOMAIN inbox[q] : inbox[q][i].payload # None
    BY <1>1, <1>6 DEF Reconnect, memory, Shape
  <2>2. Anchored(q)'
    BY <1>3, <2>1 DEF Anchored
  <2>3. UpToDate(inbox'[q], entry[q].prefix, retained)
    BY <1>1, <2>1, RedeliveredUpToDate DEF StoreTyped
  <2>4. ASSUME q \notin missed', NEW t \in DOMAIN topicUid[q]
        PROVE  Accounted(inbox'[q], retained, t)
    <3>1. \A i \in 1..Len(inbox[q]) : inbox[q][i].payload # None
      BY <1>1, <2>1, <2>4, LenProperties
    <3>2. Message(t, None).payload = None
      BY DEF Message
    <3>3. Accounted(inbox[q], retained, t)
      BY <1>3, <2>1, <2>4
    <3> QED
      BY <3>1, <3>2, <3>3 DEF Accounted
  <2> QED
    BY <2>1, <2>2, <2>3, <2>4 DEF InSync
<1>7. CASE Receive(q)
  <2>1. /\ q \in up /\ inbox[q] # <<>> /\ inbox'[q] = Tail(inbox[q])
        /\ entry' = entry /\ up' = up /\ retained' = retained /\ missed' = missed
    BY <1>1, <1>7, ReceiveOwn DEF Shape
  <2>2. Anchored(q)'
    BY <1>1, <1>3, <1>7, <2>1, ReceiveAnchored
  <2>3. UpToDate(inbox'[q], entry[q].prefix, retained)
    BY <1>1, <1>3, <2>1, TailUpToDate
  <2>4. ASSUME q \notin missed, NEW t \in DOMAIN topicUid'[q]
        PROVE  Accounted(inbox'[q], retained, t)
    BY <1>1, <1>3, <1>7, <2>1, <2>4, ReceiveAccounted
  <2> QED
    BY <2>1, <2>2, <2>3, <2>4 DEF InSync
<1>8. ASSUME NEW u \in registry[q], Depublish(q, u[1]) PROVE InSync(q)'
  <2> DEFINE E == Erasers(q, u[1])
  <2>1. q \in up /\ entry' = entry /\ up' = up /\ missed' = missed
    BY <1>1, <1>8, DepublishEffect
  <2>2. /\ Shared(E, {}) /\ retained' = Store(E)
        /\ Extended(inbox'[q], inbox[q], Heard(q, E \cup {}))
    BY <1>1, <1>8, DepublishSpreads
  <2>3. Anchored(q)' /\ DOMAIN topicUid'[q] \subseteq DOMAIN topicUid[q]
    BY <1>1, <1>3, <1>8, <2>1, DepublishAnchored
  <2> HIDE DEF E
  <2>4. UpToDate(inbox'[q], entry[q].prefix, Store(E))
    BY <1>1, <1>3, <2>1, <2>2, SpreadUpToDate
  <2>5. ASSUME q \notin missed, NEW t \in DOMAIN topicUid'[q]
        PROVE  Accounted(inbox'[q], Store(E), t)
    BY <1>1, <1>3, <2>1, <2>2, <2>3, <2>5, SpreadAccounted
  <2> QED
    BY <2>1, <2>2, <2>3, <2>4, <2>5 DEF InSync
<1> QED
  BY <1>2, <1>4, <1>5, <1>6, <1>7, <1>8

AllInSync == Typed /\ \A q \in Instance : InSync(q)

LEMMA AllInSyncInit == Init => AllInSync
<1>1. Init => up = {}
  BY DEF Init
<1> QED
  BY <1>1, TypedInit DEF AllInSync, InSync

LEMMA AllInSyncStep == AllInSync /\ [Next]_vars => AllInSync'
<1> SUFFICES ASSUME AllInSync, [Next]_vars PROVE AllInSync'
  OBVIOUS
<1>1. Typed /\ Typed'
  BY TypedStep DEF AllInSync
<1>2. ASSUME NEW q \in Instance PROVE InSync(q)'
  BY <1>1, Steps, InSyncStep DEF AllInSync
<1> QED
  BY <1>1, <1>2 DEF AllInSync

\* Whatever the names and the inherited messages: an instance that has handled
\* what it was sent, and lost no removal with its connection, has nothing on a
\* topic where nothing is retained (the second half of Mirrors).
THEOREM NothingStale ==
  Spec => [](\A p \in Instance : Settled(p) /\ p \notin missed =>
               \A t \in DOMAIN topicUid[p] : \E r \in retained : r.topic = t)
<1> DEFINE Fresh == \A p \in Instance : Settled(p) /\ p \notin missed =>
                      \A t \in DOMAIN topicUid[p] : \E r \in retained : r.topic = t
<1>1. AllInSync => Fresh
  <2> SUFFICES ASSUME AllInSync, NEW p \in Instance, Settled(p), p \notin missed,
                      NEW t \in DOMAIN topicUid[p]
               PROVE  \E r \in retained : r.topic = t
    OBVIOUS
  <2>1. Accounted(inbox[p], retained, t) /\ Len(inbox[p]) = 0
    BY LenProperties DEF AllInSync, InSync, Settled
  <2> QED
    BY <2>1 DEF Accounted
<1> QED
  BY <1>1, AllInSyncInit, AllInSyncStep, PTL DEF Spec

(***************************************************************************)
(* Who has handled everything mirrors the broker                           *)
(***************************************************************************)
Handled(q, r) ==
  /\ r.topic \in DOMAIN topicUid[q] /\ topicUid[q][r.topic] = UidOf(r)
  /\ UidOf(r) \in DOMAIN known[q]

UnderWay(s, r) == \E i \in 1..Len(s) : s[i] = r

\* An announcement of another instance on q's topics.
Concerns(q, r) ==
  /\ Announces(r) /\ topics_to_subscribe(r.topic, entry[q].prefix)
  /\ ~Of(q, UidOf(r))

\* What the broker retains for q has been handled or is under way.
Due(q) ==
  q \in up => \A r \in retained : Concerns(q, r) => Handled(q, r) \/ UnderWay(inbox[q], r)

\* With names of its own, an instance takes no foreign announcement for an echo.
LEMMA ForeignAnnouncement ==
  ASSUME DistinctNames, NEW q \in Instance, InstanceTyped(q), entry[q] # None,
         NEW r \in Msg, Concerns(q, r)
  PROVE  /\ Foreign(q, r.payload) /\ r.topic = TopicIn(entry[q].prefix, UidOf(r))
         /\ BridgeOfTopic(q, r.topic) = None /\ r.payload # None /\ UidOf(r) \in Uid
<1> DEFINE d == r.payload
           u == d.unique_id
           x == entry[q].prefix
<1>1. d # None /\ "unique_id" \in DOMAIN d /\ topics_to_subscribe(r.topic, x) /\ ~Of(q, u)
  BY DEF Concerns, Announces, UidOf
<1>2. d \in Announcement /\ \E y \in SharedPrefix : r.topic = DiscoveryTopic(y, u[3])
  BY <1>1, Messages
<1>3. u \in Uid /\ \E p \in Instance : Of(p, u) /\ d.bridge_id \in Slugs(p) \cup {None}
  BY <1>2, Payloads
<1>4. u[3] \in EntityId
  BY <1>3, UidParts
<1>5. Slug(q) \in Slugs(q) /\ Slug(q) \in Bridge /\ x \in SharedPrefix
  BY EntryOf
<1>6. PICK p \in Instance : /\ u[1] \in Slugs(p) /\ d.bridge_id \in Slugs(p) \cup {None}
                            /\ Slugs(p) \cap Slugs(q) = {}
  <2>1. PICK p \in Instance : Of(p, u) /\ d.bridge_id \in Slugs(p) \cup {None}
    BY <1>3
  <2>2. p # q
    BY <1>1, <2>1
  <2> QED
    BY <2>1, <2>2 DEF DistinctNames, Of
<1>7. Slug(q) # None
  BY <1>5, Words, Sorts
<1>8. u[1] # Slug(q) /\ d.bridge_id # Slug(q)
  BY <1>5, <1>6, <1>7
<1>9. Foreign(q, d)
  BY <1>1, <1>8, Zenon DEF Foreign, is_own_message
<1>10. r.topic = DiscoveryTopic(x, u[3])
  <2>1. PICK y \in SharedPrefix : r.topic = DiscoveryTopic(y, u[3])
    BY <1>2
  <2>2. y = x
    BY <1>1, <1>4, <1>5, <2>1, DiscoveryRoute
  <2> QED
    BY <2>1, <2>2
<1>11. BridgeOfTopic(q, r.topic) = None
  BY <1>4, <1>5, <1>10, DiscoveryRoute DEF BridgeOfTopic
<1> QED
  BY <1>1, <1>3, <1>9, <1>10, <1>11 DEF TopicIn, UidOf

\* On a topic something is retained on, what is under way ends with it.
LEMMA LastWord ==
  ASSUME StoreTyped, NEW s \in Seq(Msg), NEW x, UpToDate(s, x, retained),
         NEW r \in retained, NEW j \in 1..Len(s), s[j].payload \notin Reading,
         s[j].topic = r.topic, topics_to_subscribe(r.topic, x)
  PROVE  \E k \in 1..Len(s) : j <= k /\ s[k] = r
<1>1. PICK k \in 1..Len(s) : j <= k /\ s[k].topic = s[j].topic /\ Current(s[k], retained)
  BY DEF UpToDate
<1>2. s[k] \in retained
  BY <1>1 DEF Current
<1> QED
  BY <1>1, <1>2 DEF StoreTyped

LEMMA ReceiveDue ==
  ASSUME DistinctNames, Shape, StoreTyped, NEW q \in Instance, InstanceTyped(q), Receive(q),
         Anchored(q), UpToDate(inbox[q], entry[q].prefix, retained),
         NEW r \in retained, Concerns(q, r), Handled(q, r) \/ UnderWay(inbox[q], r)
  PROVE  Handled(q, r)' \/ UnderWay(Tail(inbox[q]), r)
<1> DEFINE s == inbox[q]
           m == Head(s)
           t == m.topic
           x == entry[q].prefix
           v == UidOf(r)
<1>1. /\ q \in up /\ s \in Seq(Msg) /\ s # <<>>
      /\ m \in Msg /\ m = s[1] /\ 1 \in 1..Len(s)
      /\ Len(Tail(s)) = Len(s) - 1 /\ \A i \in 1..Len(Tail(s)) : Tail(s)[i] = s[i + 1]
  BY ReceiveOwn, FirstMessage DEF InstanceTyped
<1>2. Len(s) \in Nat
  BY <1>1, LenProperties
<1>3. r \in Msg /\ topics_to_subscribe(r.topic, x)
  BY DEF StoreTyped, Concerns
<1>4. /\ Foreign(q, r.payload) /\ r.topic = TopicIn(x, v)
      /\ BridgeOfTopic(q, r.topic) = None /\ r.payload # None
  BY <1>1, <1>3, ForeignAnnouncement DEF InstanceTyped
<1>5. ASSUME NEW i \in 1..Len(s), i # 1, s[i] = r PROVE UnderWay(Tail(s), r)
  <2>1. i - 1 \in 1..Len(Tail(s)) /\ (i - 1) + 1 = i
    BY <1>1, <1>2, <1>5
  <2>2. Tail(s)[i - 1] = r
    BY <1>1, <1>5, <2>1
  <2> QED
    BY <2>1, <2>2 DEF UnderWay
<1>6. ASSUME m.payload \notin Reading, t = r.topic, m # r PROVE UnderWay(Tail(s), r)
  <2>1. s[1].payload \notin Reading /\ s[1].topic = r.topic
    BY <1>1, <1>6
  <2>2. PICK k \in 1..Len(s) : s[k] = r
    BY <1>1, <1>3, <2>1, LastWord
  <2> QED
    BY <1>1, <1>5, <1>6, <2>2
<1>7. CASE UnderWay(Tail(s), r)
  BY <1>7
<1>8. CASE ~UnderWay(Tail(s), r) /\ m = r
  <2>1. ReceiveDiscovery(q, t)
    <3>1. ~ReceiveRemoval(q, t)
      BY <1>4, <1>8 DEF ReceiveRemoval
    <3>2. ~ReceiveMetadata(q, t)
      BY <1>4, <1>8 DEF ReceiveMetadata
    <3>3. ~ReceiveState(q, t)
      BY <1>3, <1>8 DEF ReceiveState
    <3>4. ~Ignore(q, t)
      BY <1>4, <1>8 DEF Ignore
    <3> QED
      BY <3>1, <3>2, <3>3, <3>4, Zenon DEF Receive
  <2>2. /\ topicUid'[q] = Put(topicUid[q], t, UidOf(m))
        /\ known'[q] = Put(known[q], UidOf(m), known'[q][UidOf(m)])
    BY <2>1, DiscoveryEffect
  <2> HIDE DEF m
  <2>3. /\ r.topic \in DOMAIN topicUid'[q] /\ topicUid'[q][r.topic] = UidOf(r)
        /\ UidOf(r) \in DOMAIN known'[q]
    BY <1>8, <2>2 DEF Put
  <2> QED
    BY <2>3 DEF Handled, UidOf
<1>9. CASE ~UnderWay(Tail(s), r) /\ m # r
  <2>1. Handled(q, r)
    <3>1. ~UnderWay(s, r)
      BY <1>1, <1>5, <1>9 DEF UnderWay
    <3> QED
      BY <3>1
  <2>2. r.topic \in DOMAIN topicUid[q] /\ topicUid[q][r.topic] = v /\ v \in DOMAIN known[q]
    BY <2>1 DEF Handled
  <2>3. SUFFICES /\ r.topic \in DOMAIN topicUid'[q] /\ topicUid'[q][r.topic] = v
                 /\ v \in DOMAIN known'[q]
    BY DEF Handled, UidOf
  <2>4. CASE ReceiveRemoval(q, t)
    <3> DEFINE gone == LastSeen(q, {t}) \cap DOMAIN known[q]
    <3>1. /\ topicUid'[q] = Drop(topicUid[q], {t}) /\ known'[q] = Drop(known[q], gone)
          /\ m.payload = None
      BY <2>4, RemovalEffect
    <3>2. t # r.topic
      BY <1>6, <1>9, <3>1, NoneIsNoReading
    <3>3. v \notin gone
      <4>1. SUFFICES ASSUME t \in DOMAIN topicUid[q], topicUid[q][t] = v PROVE FALSE
        BY DEF LastSeen
      <4>2. t = TopicIn(x, v)
        BY <4>1 DEF Anchored
      <4> QED
        BY <1>4, <3>2, <4>2
    <3> HIDE DEF gone, t, v
    <3> QED
      BY <2>2, <3>1, <3>2, <3>3 DEF Drop
  <2>5. CASE ReceiveDiscovery(q, t)
    <3> DEFINE u == UidOf(m)
    <3>1. /\ topicUid'[q] = Put(topicUid[q], t, u) /\ known'[q] = Put(known[q], u, known'[q][u])
          /\ m.payload \in Announcement
      BY <2>5, DiscoveryEffect
    <3>2. t # r.topic
      <4>1. m.payload \notin Reading
        BY <3>1, Payloads
      <4> QED
        BY <1>6, <1>9, <4>1
    <3> HIDE DEF u, t, v
    <3> QED
      BY <2>2, <3>1, <3>2 DEF Put
  <2>6. CASE ReceiveMetadata(q, t) \/ Ignore(q, t)
    <3>1. topicUid' = topicUid /\ known' = known
      BY <2>6 DEF ReceiveMetadata, Ignore, memory
    <3> QED
      BY <2>2, <3>1
  <2>7. CASE ReceiveState(q, t)
    <3>1. topicUid'[q] = topicUid[q] /\ DOMAIN known'[q] = DOMAIN known[q]
      BY <2>7, StateEffect
    <3> QED
      BY <2>2, <3>1
  <2> QED
    BY <2>4, <2>5, <2>6, <2>7, Zenon DEF Receive
<1> QED
  BY <1>7, <1>8, <1>9

\* What is published for q is under way to it.
LEMMA SpreadUnderWay ==
  ASSUME NEW S, NEW C, NEW q \in Instance, NEW w, inbox[q] \in Seq(Msg),
         Extended(w, inbox[q], Heard(q, S \cup C)), NEW r,
         \/ r \in S /\ topics_to_subscribe(r.topic, entry[q].prefix)
         \/ UnderWay(inbox[q], r)
  PROVE  UnderWay(w, r)
<1> DEFINE s == inbox[q]
           H == Heard(q, S \cup C)
<1>1. /\ w \in Seq(Msg) /\ Len(s) <= Len(w)
      /\ \A i \in 1..Len(s) : w[i] = s[i]
      /\ \A m \in H : \E i \in Len(s) + 1 .. Len(w) : w[i] = m
  BY DEF Extended
<1>2. Len(s) \in Nat /\ Len(w) \in Nat
  BY <1>1, LenProperties
<1>3. CASE r \in S /\ topics_to_subscribe(r.topic, entry[q].prefix)
  <2>1. r \in H
    BY <1>3 DEF Heard, Subscribed
  <2> HIDE DEF s, H
  <2>2. PICK i \in Len(s) + 1 .. Len(w) : w[i] = r
    BY <1>1, <2>1
  <2>3. i \in 1..Len(w)
    BY <1>2
  <2> QED
    BY <2>2, <2>3 DEF UnderWay
<1>4. CASE UnderWay(s, r)
  <2> HIDE DEF s, H
  <2>1. PICK i \in 1..Len(s) : s[i] = r
    BY <1>4 DEF UnderWay
  <2> QED
    BY <1>1, <1>2, <2>1 DEF UnderWay
<1> QED
  BY <1>3, <1>4

\* A fresh subscriber gets what concerns it.
LEMMA RedeliveredUnderWay ==
  ASSUME NEW R, IsFiniteSet(R), NEW x, NEW r \in R, topics_to_subscribe(r.topic, x)
  PROVE  UnderWay(Redelivered(x, R), r)
BY RedeliveredMessages DEF UnderWay

LEMMA DueStep ==
  ASSUME DistinctNames, Typed, Typed', NEW q \in Instance, Step(q), InSync(q), Due(q)
  PROVE  Due(q)'
<1>1. Shape /\ StoreTyped /\ InstanceTyped(q) /\ inbox[q] \in Seq(Msg) /\ StoreTyped'
  BY DEF Typed, InstanceTyped
<1>2. IsFiniteSet(retained) /\ IsFiniteSet(retained')
  BY <1>1 DEF StoreTyped
<1>3. PICK S \in SUBSET Msg, C \in SUBSET Msg :
        /\ Shared(S, C) /\ retained' = Store(S)
        /\ \/ Stays(q) /\ Spread(q, S, C)
           \/ Renewed(q) \/ Reconnect(q) \/ Receive(q)
           \/ \E u \in registry[q] : Depublish(q, u[1])
  BY DEF Step
<1>4. SUFFICES ASSUME q \in up', NEW r \in retained', Concerns(q, r)'
               PROVE  Handled(q, r)' \/ UnderWay(inbox'[q], r)
  BY DEF Due, UnderWay
<1>5. topics_to_subscribe(r.topic, entry'[q].prefix)
  BY <1>4 DEF Concerns
<1>6. ASSUME q \in up, entry'[q] = entry[q], r \in retained
      PROVE  Concerns(q, r) /\ (Handled(q, r) \/ UnderWay(inbox[q], r))
  BY <1>4, <1>6 DEF Concerns, Due, Announces, UidOf
<1>7. ASSUME q \in up, entry'[q] = entry[q], NEW E, NEW D, retained' = Store(E),
             Extended(inbox'[q], inbox[q], Heard(q, E \cup D)),
             \A m \in E : m.topic = r.topic => m = r, Handled(q, r) => Handled(q, r)'
      PROVE  Handled(q, r)' \/ UnderWay(inbox'[q], r)
  <2>1. CASE r \in E
    BY <1>1, <1>5, <1>7, <2>1, SpreadUnderWay
  <2>2. CASE r \notin E
    <3>1. r \in retained
      BY <1>4, <1>7, <2>2 DEF Store
    <3>2. Handled(q, r) \/ UnderWay(inbox[q], r)
      BY <1>6, <1>7, <3>1
    <3> QED
      BY <1>1, <1>7, <3>2, SpreadUnderWay
  <2> QED
    BY <2>1, <2>2
<1>8. CASE Stays(q) /\ Spread(q, S, C)
  <2>1. /\ q \in up /\ entry'[q] = entry[q] /\ known'[q] = known[q] /\ topicUid'[q] = topicUid[q]
        /\ Extended(inbox'[q], inbox[q], Heard(q, S \cup C))
    BY <1>4, <1>8 DEF Stays, Spread
  <2>2. Handled(q, r) => Handled(q, r)'
    BY <2>1 DEF Handled, UidOf
  <2>3. \A m \in S : m.topic = r.topic => m = r
    BY <1>3, <1>4 DEF Store, Shared
  <2> QED
    BY <1>3, <1>7, <2>1, <2>2, <2>3
<1>9. CASE Renewed(q)
  <2>1. inbox'[q] = Redelivered(entry'[q].prefix, retained')
    BY <1>4, <1>9 DEF Renewed
  <2> QED
    BY <1>2, <1>4, <1>5, <2>1, RedeliveredUnderWay
<1>10. CASE Reconnect(q)
  <2>1. /\ entry' = entry /\ retained' = retained
        /\ inbox'[q] = Redelivered(entry[q].prefix, retained)
    BY <1>1, <1>10 DEF Reconnect, Shape
  <2> QED
    BY <1>2, <1>4, <1>5, <2>1, RedeliveredUnderWay
<1>11. CASE Receive(q)
  <2>1. /\ q \in up /\ entry' = entry /\ retained' = retained /\ inbox'[q] = Tail(inbox[q])
    BY <1>1, <1>11, ReceiveOwn DEF Shape
  <2>2. Concerns(q, r) /\ (Handled(q, r) \/ UnderWay(inbox[q], r))
    BY <1>4, <1>6, <2>1
  <2>3. Anchored(q) /\ UpToDate(inbox[q], entry[q].prefix, retained)
    BY <2>1 DEF InSync
  <2> QED
    BY <1>1, <1>4, <1>11, <2>1, <2>2, <2>3, ReceiveDue
<1>12. ASSUME NEW u \in registry[q], Depublish(q, u[1])
       PROVE  Handled(q, r)' \/ UnderWay(inbox'[q], r)
  <2> DEFINE E == Erasers(q, u[1])
  <2>1. q \in up /\ entry' = entry
    BY <1>1, <1>12, DepublishEffect
  <2>2. /\ retained' = Store(E) /\ \A m \in E : m.payload = None
        /\ Extended(inbox'[q], inbox[q], Heard(q, E \cup {}))
    BY <1>1, <1>12, DepublishSpreads
  <2>3. r \notin E /\ \A m \in E : m.topic # r.topic
    BY <1>1, <1>4, <2>2 DEF Store, StoreTyped
  <2>4. Handled(q, r) => Handled(q, r)'
    <3>1. r.topic \notin Live(q, u[1])
      <4>1. SUFFICES ASSUME NEW w \in Obsolete(q, u[1]), r.topic = TopicIn(entry[q].prefix, w)
                     PROVE  FALSE
        BY DEF Live
      <4>2. Message(TopicIn(entry[q].prefix, w), None) \in E
        BY DEF Erasers
      <4> QED
        BY <2>3, <4>1, <4>2 DEF Message
    <3>2. Anchored(q)
      BY <2>1 DEF InSync
    <3>3. /\ DOMAIN topicUid'[q] = DOMAIN topicUid[q] \ Live(q, u[1])
          /\ \A t \in DOMAIN topicUid'[q] : /\ topicUid'[q][t] = topicUid[q][t]
                                            /\ topicUid'[q][t] \in DOMAIN known'[q]
      BY <1>1, <1>12, <3>2, DepublishAnchored
    <3> QED
      BY <3>1, <3>3 DEF Handled, UidOf
  <2> HIDE DEF E
  <2> QED
    BY <1>7, <2>1, <2>2, <2>3, <2>4
<1> QED
  BY <1>3, <1>8, <1>9, <1>10, <1>11, <1>12

MirrorInv == AllInSync /\ \A q \in Instance : Due(q)

LEMMA MirrorInit == Init => MirrorInv
<1>1. Init => up = {}
  BY DEF Init
<1> QED
  BY <1>1, AllInSyncInit DEF MirrorInv, Due

LEMMA MirrorStep ==
  ASSUME DistinctNames
  PROVE  MirrorInv /\ [Next]_vars => MirrorInv'
<1> SUFFICES ASSUME MirrorInv, [Next]_vars PROVE MirrorInv'
  OBVIOUS
<1>1. AllInSync /\ AllInSync' /\ Typed /\ Typed'
  BY AllInSyncStep DEF MirrorInv, AllInSync
<1>2. ASSUME NEW q \in Instance PROVE Due(q)'
  <2>1. Due(q) /\ InSync(q) /\ Step(q)
    BY <1>1, Steps DEF MirrorInv, AllInSync
  <2> QED
    BY <1>1, <2>1, DueStep
<1> QED
  BY <1>1, <1>2 DEF MirrorInv

\* With distinct bridge names an instance that has handled what it was sent
\* shows all that the broker retains from others, each on its topic, and nothing
\* on a topic where nothing is retained unless a removal was lost.
THEOREM MirrorsHolds ==
  ASSUME DistinctNames
  PROVE  Spec => []Mirrors
<1>1. MirrorInv => Mirrors
  <2> SUFFICES ASSUME MirrorInv, NEW p \in Instance, Settled(p)
      PROVE  /\ \A r \in retained :
                  topics_to_subscribe(r.topic, entry[p].prefix)
                    /\ BridgeOfTopic(p, r.topic) = None /\ ~Of(p, r.payload.unique_id)
                  => /\ r.topic \in DOMAIN topicUid[p]
                     /\ topicUid[p][r.topic] = r.payload.unique_id
                     /\ r.payload.unique_id \in DOMAIN known[p]
             /\ p \notin missed =>
                  \A t \in DOMAIN topicUid[p] : \E r \in retained : r.topic = t
    BY DEF Mirrors
  <2>1. /\ p \in up /\ inbox[p] = <<>> /\ InSync(p) /\ Due(p)
        /\ Typed /\ StoreTyped /\ InstanceTyped(p) /\ entry[p] # None
    BY DEF Settled, MirrorInv, AllInSync, Typed, InstanceTyped
  <2>2. Len(inbox[p]) = 0
    BY <2>1, LenProperties
  <2>3. ASSUME NEW r \in retained, topics_to_subscribe(r.topic, entry[p].prefix),
               BridgeOfTopic(p, r.topic) = None, ~Of(p, r.payload.unique_id)
        PROVE  Handled(p, r)
    <3>1. r \in Msg /\ r.payload # None /\ r.payload \notin Reading
      BY <2>1 DEF StoreTyped
    <3>2. AboutEntity(r) \/ AboutBridge(r)
      BY <3>1, Messages DEF AboutState
    <3>3. ~AboutBridge(r)
      <4>1. SUFFICES ASSUME NEW y \in SharedPrefix, NEW b \in Bridge, r.topic = MetadataTopic(y, b)
                     PROVE  FALSE
        BY Zenon DEF AboutBridge
      <4>2. entry[p].prefix \in SharedPrefix
        BY <2>1, EntryOf
      <4>3. y = entry[p].prefix
        BY <2>3, <4>1, <4>2, MetadataRoute
      <4>4. BridgeOfTopic(p, r.topic) = b
        BY <4>1, <4>2, <4>3, MetadataRoute DEF BridgeOfTopic
      <4> QED
        BY <2>3, <4>4, Words, Sorts
    <3>4. r.payload \in Announcement
      BY <3>1, <3>2, <3>3 DEF AboutEntity
    <3>5. Concerns(p, r)
      BY <2>3, <3>4, Payloads DEF Concerns, Announces, UidOf
    <3>6. ~UnderWay(inbox[p], r)
      BY <2>2 DEF UnderWay
    <3> QED
      BY <2>1, <3>5, <3>6 DEF Due
  <2>4. ASSUME p \notin missed, NEW t \in DOMAIN topicUid[p] PROVE \E r \in retained : r.topic = t
    <3>1. Accounted(inbox[p], retained, t)
      BY <2>1, <2>4 DEF InSync
    <3> QED
      BY <2>2, <3>1 DEF Accounted
  <2> QED
    BY <2>3, <2>4 DEF Handled, UidOf
<1> QED
  BY <1>1, MirrorInit, MirrorStep, PTL DEF Spec
=============================================================================
