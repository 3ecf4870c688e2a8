----------------------------- MODULE Federation -----------------------------
(***************************************************************************)
(* Several Saulach instances and the MQTT broker between them.             *)
(*                                                                         *)
(* Each instance publishes its own entities and materializes those of the  *)
(* others; the broker retains discovery and metadata and passes a message  *)
(* on to whoever is subscribed when it is published, in order.  Instances  *)
(* are configured, reconfigured, removed, stopped and started, lose their  *)
(* connection, and depublish bridges they believe dead.  The broker may    *)
(* still retain messages of earlier versions and of decommissioned peers.  *)
(*                                                                         *)
(* RemoteEntities and Publisher show what happens between the awaits of    *)
(* one instance; here a message handler, the options flow with its reload  *)
(* and a depublication are one step each, and the publish of an entity is  *)
(* two, because what a peer does in between matters.  The value prefix is  *)
(* the same for all and fixed.                                             *)
(***************************************************************************)
EXTENDS Discovery, FiniteSets

CONSTANTS
  Instance,    \* Home Assistant installations with at most one entry each
  EntityId,    \* entity ids, present and past; several instances may have one
  Entity,      \* what a user can bridge: instance to set of entity ids
  ClassOf,     \* entity id to the device class of the source, or None
  ValuesOf,    \* entity id to the states it can have; {} when it has none
  Names,       \* bridge names a user of the instance may enter
  Prefixes,    \* shared discovery prefixes a user may enter, as entered
  ValuePrefix, \* the sensor value prefix, normalised
  Configured,  \* instance to the entry it has at first, or None
  Heritage,    \* messages retained at first, one per topic
  Caretaker,   \* instances whose operator calls depublish_bridge
  Reconfigurable, \* instances whose entry changes
  Heartbeat,   \* instances that publish metadata
  Unsteady,    \* instances that stop and lose their connection
  Numbers,     \* states that are numbers
  MaxInbox     \* bound: nothing is published to a longer inbox than this, but
               \* a depublication runs however much its instance has to handle

VARIABLES
  entry,     \* per instance: entry.data, or None without an entry
  up,        \* instances that run with the entry set up
  sending,   \* per instance: entities between discovery and state publish
  inbox,     \* per instance: messages of its subscriptions, not yet handled
  known,     \* per instance: the materialized entities, by unique id
  topicUid,  \* per instance: _topic_to_unique_id
  diag,      \* per instance: bridges shown with diagnostic entities
  registry,  \* per instance: unique ids in the entity registry (persistent)
  retained,  \* the broker's retained messages
  missed,    \* history: instances a removal was lost for since their start
  buried     \* history: per instance, <<prefix, uid>> it has depublished

memory == <<known, topicUid, diag>>
vars == <<entry, up, sending, inbox, memory, registry, retained, missed, buried>>

Nothing == [x \in {} |-> None]
Put(f, k, v) == [x \in DOMAIN f \cup {k} |-> IF x = k THEN v ELSE f[x]]
Drop(f, K) == [x \in DOMAIN f \ K |-> f[x]]

Slug(p) == slugify_bridge_name(entry[p].name)
RoomBut(Q) == \A q \in Instance \ Q : Len(inbox[q]) < MaxInbox
Room == RoomBut({})

(***************************************************************************)
(* What is on the wire: announcements of entities by the present or an     *)
(* earlier version, and their withdrawal; bridge metadata; readings.       *)
(***************************************************************************)
Message(t, m) == [topic |-> t, payload |-> m]

Named(p) == {n \in Names[p] : slugify_bridge_name(n) # ""}
Slugs(p) == {slugify_bridge_name(n) : n \in Named(p)}
Bridge == UNION {Slugs(p) : p \in Instance}
Uid == Bridge \X {"::", "."} \X EntityId

\* A unique id says who announced the entity.
Of(p, u) == u[1] \in Slugs(p)

SharedPrefix == {normalize_prefix(x) : x \in Prefixes}
Segment ==
  {"", "sensor", "config", "bridge", "metadata"} \cup Bridge
    \cup {object_id_from_entity_id(e) : e \in EntityId}
    \cup UNION {{x[i] : i \in DOMAIN x} : x \in Prefixes \cup {ValuePrefix}}
Topic == Seq(Segment)

DeviceClass ==
  {None} \cup SensorDeviceClass
    \cup {DEVICE_CLASS_PATTERNS[i][2] : i \in DOMAIN DEVICE_CLASS_PATTERNS}
Announcement ==
  {d \in [unique_id : Uid, state_topic : Topic, device_class : DeviceClass,
          bridge_id : Bridge \cup {None}, device : Bridge] :
     /\ d.state_topic = StateTopic(ValuePrefix, d.unique_id[3])
     /\ \E p \in Instance : Of(p, d.unique_id) /\ d.bridge_id \in Slugs(p) \cup {None}
     /\ d.device = d.unique_id[1]}
BridgeInfo == [bridge_id : Bridge, entity_count : Nat]
Value == {""} \cup UNION {ValuesOf[e] : e \in EntityId}
Reading == [state : Value]

AboutEntity(m) ==
  \E x \in SharedPrefix, e \in EntityId :
    /\ m.topic = DiscoveryTopic(x, e)
    /\ m.payload # None => m.payload \in Announcement /\ m.payload.unique_id[3] = e
AboutBridge(m) ==
  /\ \E x \in SharedPrefix, b \in Bridge : m.topic = MetadataTopic(x, b)
  /\ m.payload \in BridgeInfo \cup {None}
AboutState(m) ==
  \E e \in EntityId :
    /\ m.topic = StateTopic(ValuePrefix, e)
    /\ m.payload \in Reading /\ m.payload.state \in ValuesOf[e] \cup {""}

Msg == {m \in [topic : Topic, payload : Announcement \cup BridgeInfo \cup Reading \cup {None}] :
          AboutEntity(m) \/ AboutBridge(m) \/ AboutState(m)}

(***************************************************************************)
(* The broker                                                              *)
(***************************************************************************)

\* The retained store after the messages of set S, all retained; an empty
\* payload (None) erases.
Store(S) ==
  {r \in retained : \A m \in S : m.topic # r.topic} \cup {m \in S : m.payload # None}

Subscribed(p, t) ==
  \/ topics_to_subscribe(t, entry[p].prefix)
  \/ \E u \in DOMAIN known[p] : known[p][u].state_topic = t

\* The sequences without repetition of a finite set of messages; a broker and a
\* loop over a set settle on one of them (bound: always the same one, and the
\* order of a loop is that of each subscriber).
Orders(S) == {s \in [1..Cardinality(S) -> S] : \A m \in S : \E i \in DOMAIN s : s[i] = m}

AnyOrder(S) == CHOOSE s \in Orders(S) : TRUE

Heard(p, S) == {m \in S : Subscribed(p, m.topic)}

\* The inboxes after the messages of one set, then of another, were published.
Forward(first, second) ==
  [p \in Instance |-> IF p \notin up THEN inbox[p]
     ELSE inbox[p] \o AnyOrder(Heard(p, first)) \o AnyOrder(Heard(p, second))]

\* A fresh subscriber receives what is retained on its topics.
Redelivered(prefix, store) == AnyOrder({r \in store : topics_to_subscribe(r.topic, prefix)})

(***************************************************************************)
(* Entries: config flow, options flow, start and stop                      *)
(***************************************************************************)
Entry(name, prefix, E) == [name |-> name, prefix |-> normalize_prefix(prefix), entities |-> E]

\* What both flows accept.
Acceptable(p) ==
  {Entry(n, x, E) : n \in Named(p), x \in Prefixes, E \in (SUBSET Entity[p]) \ {{}}}

ASSUME Sorts ==
  /\ None \notin Segment \cup (Segment \X Segment) \cup EntityId
  /\ None \notin Announcement \cup BridgeInfo \cup Reading \cup Value
  /\ \A p \in Instance : None \notin Acceptable(p)

ASSUME Given ==
  /\ \A e \in EntityId : e = <<e[1], e[2]>>
  /\ \A p \in Instance : Entity[p] \subseteq EntityId /\ IsFiniteSet(Entity[p])
  /\ Prefixes \cup {ValuePrefix} \subseteq Topic \ {<<>>}
  /\ Len(ValuePrefix) > 1 /\ ValuePrefix[Len(ValuePrefix)] = ""

ASSUME Beginning ==
  /\ DOMAIN Configured = Instance
  /\ \A p \in Instance : Configured[p] \in Acceptable(p) \cup {None}
  /\ Heritage \subseteq Msg /\ IsFiniteSet(Heritage)
  /\ \A r, s \in Heritage : r.payload \notin Reading \cup {None} /\ (r.topic = s.topic => r = s)

Init ==
  /\ entry = Configured
  /\ up = {}
  /\ sending = [p \in Instance |-> {}]
  /\ inbox = [p \in Instance |-> <<>>]
  /\ known = [p \in Instance |-> Nothing]
  /\ topicUid = [p \in Instance |-> Nothing]
  /\ diag = [p \in Instance |-> {}]
  /\ registry = [p \in Instance |-> {}]
  /\ retained = Heritage
  /\ missed = {}
  /\ buried = [p \in Instance |-> {}]

\* async_clear_retained_state of the entities at setup.
Clearing(E) == {Message(StateTopic(ValuePrefix, e), [state |-> ""]) : e \in E}

\* async_depublish_entity of the entities: the discovery topic first.
Withdrawal(prefix, E) == {Message(DiscoveryTopic(prefix, e), None) : e \in E}

\* The memory of p's managers and tasks is gone.
Forget(p) ==
  /\ known' = [known EXCEPT ![p] = Nothing]
  /\ topicUid' = [topicUid EXCEPT ![p] = Nothing]
  /\ diag' = [diag EXCEPT ![p] = {}]
  /\ sending' = [sending EXCEPT ![p] = {}]
  /\ missed' = missed \ {p}

\* async_step_user.
AddEntry(p, e) ==
  /\ p \in Reconfigurable /\ entry[p] = None
  /\ e \in Acceptable(p)
  /\ entry' = [entry EXCEPT ![p] = e]
  /\ UNCHANGED <<up, sending, inbox, memory, registry, retained, missed, buried>>

\* async_setup_entry: the state topics are cleared, then p subscribes.
Start(p) ==
  /\ entry[p] # None /\ p \notin up /\ Room
  /\ up' = up \cup {p}
  /\ inbox' = [Forward(Clearing(entry[p].entities), {})
                EXCEPT ![p] = Redelivered(entry[p].prefix, retained)]
  /\ Forget(p)
  /\ UNCHANGED <<entry, registry, retained, buried>>

\* Home Assistant stops; entry and registry are stored.
Stop(p) ==
  /\ p \in Unsteady /\ p \in up
  /\ up' = up \ {p}
  /\ inbox' = [inbox EXCEPT ![p] = <<>>]
  /\ Forget(p)
  /\ UNCHANGED <<entry, registry, retained, buried>>

\* The connection to the broker was lost and is back: what was sent meanwhile
\* is gone, the subscriptions are renewed.
Reconnect(p) ==
  /\ p \in Unsteady /\ p \in up
  /\ inbox' = [inbox EXCEPT ![p] = Redelivered(entry[p].prefix, retained)]
  /\ missed' = IF \E i \in DOMAIN inbox[p] : inbox[p][i].payload = None
                 THEN missed \cup {p} ELSE missed
  /\ UNCHANGED <<entry, up, sending, memory, registry, retained, buried>>

\* The options flow: with a live adapter the dropped entities are withdrawn
\* under the prefix in use; the entry is stored; a running one is reloaded.
Dropped(p, e) == entry[p].entities \ e.entities

Reconfigure(p, e) ==
  /\ p \in Reconfigurable /\ entry[p] # None /\ Room
  /\ e \in Acceptable(p) \ {entry[p]}
  /\ entry' = [entry EXCEPT ![p] = e]
  /\ \/ /\ p \notin up
        /\ UNCHANGED <<inbox, retained>>
     \/ /\ p \in up
        /\ LET gone == Withdrawal(entry[p].prefix, Dropped(p, e))
               cleared == Clearing(Dropped(p, e) \cup e.entities)
           IN /\ retained' = Store(gone)
              /\ inbox' = [Forward(gone, cleared)
                            EXCEPT ![p] = Redelivered(e.prefix, Store(gone))]
  /\ Forget(p)
  /\ UNCHANGED <<up, registry, buried>>

\* The entry is unloaded, then async_remove_entry withdraws what it names, if
\* there is an adapter; Home Assistant clears the registry of the entry.
RemoveEntry(p) ==
  /\ p \in Reconfigurable /\ entry[p] # None /\ Room
  /\ entry' = [entry EXCEPT ![p] = None]
  /\ up' = up \ {p}
  /\ \/ /\ p \notin up
        /\ UNCHANGED <<inbox, retained>>
     \/ /\ p \in up
        /\ LET E == entry[p].entities
               gone == Withdrawal(entry[p].prefix, E)
           IN /\ retained' = Store(gone)
              /\ inbox' = [Forward(gone, Clearing(E)) EXCEPT ![p] = <<>>]
  /\ registry' = [registry EXCEPT ![p] = {}]
  /\ Forget(p)
  /\ UNCHANGED buried

(***************************************************************************)
(* Publishing                                                              *)
(***************************************************************************)
\* publish_own_entity, first await: the discovery payload, retained.
PublishDiscovery(p, e) ==
  /\ p \in up /\ Room
  /\ e \in entry[p].entities \ sending[p] /\ ValuesOf[e] # {}
  /\ LET m == Message(DiscoveryTopic(entry[p].prefix, e),
                      build_discovery_payload(e, ClassOf[e], Slug(p), ValuePrefix))
     IN /\ retained' = Store({m})
        /\ inbox' = Forward({m}, {})
        /\ buried' = [q \in Instance |->
                        buried[q] \ {<<entry[p].prefix, m.payload.unique_id>>}]
  /\ sending' = [sending EXCEPT ![p] = @ \cup {e}]
  /\ UNCHANGED <<entry, up, memory, registry, missed>>

\* ... second await: the state, not retained.
PublishState(p, e, v) ==
  /\ p \in up /\ Room
  /\ e \in sending[p] /\ v \in ValuesOf[e]
  /\ inbox' = Forward({Message(StateTopic(ValuePrefix, e), [state |-> v])}, {})
  /\ sending' = [sending EXCEPT ![p] = @ \ {e}]
  /\ UNCHANGED <<entry, up, memory, registry, retained, missed, buried>>

\* async_publish_metadata.
PublishMetadata(p) ==
  /\ p \in Heartbeat /\ p \in up /\ Room
  /\ LET m == Message(MetadataTopic(entry[p].prefix, Slug(p)),
                      build_metadata_payload(Slug(p), Cardinality(entry[p].entities)))
     IN retained' = Store({m}) /\ inbox' = Forward({m}, {})
  /\ UNCHANGED <<entry, up, sending, memory, registry, missed, buried>>

(***************************************************************************)
(* Receiving: handle_incoming_message                                      *)
(***************************************************************************)
\* p handles the first message of its inbox, on topic t: that of a discovery
\* subscription in handle_incoming_message, that of a state topic in the entities.
Receives(p, t) ==
  /\ p \in up /\ inbox[p] # <<>>
  /\ t = Head(inbox[p]).topic
  /\ inbox' = [inbox EXCEPT ![p] = Tail(@)]
  /\ UNCHANGED <<entry, up, sending, retained, missed, buried>>

BridgeOfTopic(p, t) == parse_metadata_topic(t, entry[p].prefix)

\* Bridges with a materialized entity; the diagnostics of others go.
BridgesOf(U, p) == {known[p][u].device : u \in U}

\* async_handle_removal for topics T: the uids last seen on them.
Removal(p, T) ==
  LET gone == {topicUid[p][t] : t \in T \cap DOMAIN topicUid[p]} \cap DOMAIN known[p] IN
  /\ topicUid' = [topicUid EXCEPT ![p] = Drop(@, T)]
  /\ known' = [known EXCEPT ![p] = Drop(@, gone)]
  /\ diag' = [diag EXCEPT ![p] = @ \cap BridgesOf(DOMAIN known[p] \ gone, p)]
  /\ registry' = [registry EXCEPT ![p] = @ \ gone]

ReceiveRemoval(p, t) ==
  /\ Receives(p, t) /\ topics_to_subscribe(t, entry[p].prefix)
  /\ BridgeOfTopic(p, t) = None /\ parse_federation_topic(t, entry[p].prefix) # None
  /\ Head(inbox[p]).payload = None
  /\ Removal(p, {t})

Materialized(m) ==
  [device_class |-> IF domain_from_unique_id(m.unique_id) = "sensor"
                      THEN m.device_class ELSE None,
   state_topic  |-> m.state_topic,
   device       |-> m.device,
   value        |-> set_native_value("unknown")]

\* A payload async_handle_discovery gets to see and does not drop: not an echo,
\* and not without a unique id.
Foreign(p, m) == m # None /\ "unique_id" \in DOMAIN m /\ ~is_own_message(m, Slug(p))

\* A redelivery refreshes the entity in place: feed and value stay.
Recreated(old, new) == new                             \* mutant
Refreshed(old, new) == [new EXCEPT !.state_topic = old.state_topic, !.value = old.value]

\* async_handle_discovery: a new entity, or the class of a known one.
ReceiveDiscovery(p, t) ==
  /\ Receives(p, t) /\ topics_to_subscribe(t, entry[p].prefix)
  /\ BridgeOfTopic(p, t) = None /\ parse_federation_topic(t, entry[p].prefix) # None
  /\ Foreign(p, Head(inbox[p]).payload)
  /\ LET m == Head(inbox[p]).payload
         u == m.unique_id
     IN /\ known' = [known EXCEPT ![p] = Put(@, u,
             IF u \in DOMAIN @ THEN Refreshed(@[u], Materialized(m)) ELSE Materialized(m))]
        /\ topicUid' = [topicUid EXCEPT ![p] = Put(@, t, u)]
        /\ registry' = [registry EXCEPT ![p] = @ \cup {u}]
  /\ UNCHANGED diag

\* async_handle_remote_metadata: only for a bridge with a materialized entity.
ReceiveMetadata(p, t) ==
  /\ Receives(p, t)
  /\ BridgeOfTopic(p, t) \notin {None, Slug(p)}
  /\ Head(inbox[p]).payload # None
  /\ BridgeOfTopic(p, t) \in BridgesOf(DOMAIN known[p], p)
  /\ diag' = [diag EXCEPT ![p] = @ \cup {BridgeOfTopic(p, t)}]
  /\ UNCHANGED <<known, topicUid, registry>>

\* The state handlers of the entities subscribed to the topic.
ReceiveState(p, t) ==
  /\ Receives(p, t)
  /\ ~topics_to_subscribe(t, entry[p].prefix)
  /\ known' = [known EXCEPT ![p] = [u \in DOMAIN @ |->
       IF @[u].state_topic # t THEN @[u]
       ELSE [@[u] EXCEPT !.value = set_native_value(Head(inbox[p]).payload.state)]]]
  /\ UNCHANGED <<topicUid, diag, registry>>

\* Own messages echoed by the broker, metadata of bridges without an entity,
\* emptied metadata.
Ignore(p, t) ==
  /\ Receives(p, t)
  /\ LET bridge == BridgeOfTopic(p, t)
         m == Head(inbox[p]).payload
     IN \/ /\ bridge # None
           /\ bridge = Slug(p) \/ m = None \/ bridge \notin BridgesOf(DOMAIN known[p], p)
        \/ /\ bridge = None /\ topics_to_subscribe(t, entry[p].prefix)
           /\ m # None /\ ~Foreign(p, m)
  /\ UNCHANGED <<memory, registry>>

Receive(p) ==
  LET t == Head(inbox[p]).topic IN
  \/ ReceiveRemoval(p, t) \/ ReceiveDiscovery(p, t) \/ ReceiveMetadata(p, t)
  \/ ReceiveState(p, t) \/ Ignore(p, t)

(***************************************************************************)
(* The depublish_bridge service                                            *)
(***************************************************************************)
\* async_depublish_bridge for bridge b: driven by the entity registry, topics
\* rebuilt from the unique ids, metadata topic cleared as well.
Depublish(p, b) ==
  /\ p \in Caretaker /\ p \in up /\ RoomBut({p})
  /\ LET device == {u \in registry[p] : u[1] = b}
         ours == {u \in device : entity_id_from_unique_id(u, b) # None}
         topic(u) == DiscoveryTopic(entry[p].prefix, entity_id_from_unique_id(u, b))
         live == {topic(u) : u \in ours \cap DOMAIN known[p]}
         cleared == {Message(topic(u), None) : u \in ours}
                      \cup {Message(MetadataTopic(entry[p].prefix, b), None)}
         gone == {topicUid[p][t] : t \in live \cap DOMAIN topicUid[p]}
     IN /\ device # {}
        /\ retained' = Store(cleared)
        /\ inbox' = Forward(cleared, {})
        /\ topicUid' = [topicUid EXCEPT ![p] = Drop(@, live)]
        /\ known' = [known EXCEPT ![p] = Drop(@, gone)]
        /\ diag' = [diag EXCEPT ![p] = (@ \cap BridgesOf(DOMAIN known[p] \ gone, p)) \ {b}]
        /\ registry' = [registry EXCEPT ![p] = @ \ (device \cup gone)]
        /\ buried' = [buried EXCEPT ![p] =
                        @ \cup {<<entry[p].prefix, u>> : u \in device}]
  /\ UNCHANGED <<entry, up, sending, missed>>

(***************************************************************************)
(* Specification                                                           *)
(***************************************************************************)
Next ==
  \E p \in Instance :
    \/ \E e \in Acceptable(p) : AddEntry(p, e) \/ Reconfigure(p, e)
    \/ Start(p) \/ Stop(p) \/ Reconnect(p) \/ RemoveEntry(p)
    \/ \E e \in Entity[p] : PublishDiscovery(p, e)
    \/ \E e \in Entity[p] : \E v \in ValuesOf[e] : PublishState(p, e, v)
    \/ PublishMetadata(p)
    \/ Receive(p)
    \/ \E u \in registry[p] : Depublish(p, u[1])

Spec == Init /\ [][Next]_vars

\* The entities of p that have a state to publish.
Bridgeable(p) == {e \in Entity[p] : ValuesOf[e] # {}}

\* Every message is handled, and the minutely republish publishes every entity
\* again and again; strong, because MaxInbox, which the code does not know,
\* now and then disables a publish.
Fairness ==
  \A p \in Instance :
    /\ WF_vars(Receive(p))
    /\ \A e \in Bridgeable(p) :
         /\ SF_vars(PublishDiscovery(p, e))
         /\ SF_vars(\E v \in ValuesOf[e] : PublishState(p, e, v))

FairSpec == Spec /\ Fairness

(***************************************************************************)
(* What is presupposed of the users' choices, each by the properties that  *)
(* name it.                                                                *)
(***************************************************************************)
\* A user who renames a bridge keeps its slug.
KeepsName == \A p \in Instance : \A s, n \in Slugs(p) : s = n

\* No two instances are given the same slug.
DistinctNames == \A p, q \in Instance : p # q => Slugs(p) \cap Slugs(q) = {}

\* Different entity ids differ in their object ids, not in the domain only.
DistinctObjects == \A e, f \in EntityId : e[2] = f[2] => e = f

\* No state topic is one of a discovery subscription.
Apart ==
  \A x \in SharedPrefix, e \in EntityId : ~topics_to_subscribe(StateTopic(ValuePrefix, e), x)

Announces(m) == m.payload # None /\ "unique_id" \in DOMAIN m.payload
UidOf(m) == m.payload.unique_id

\* The unique ids that were or may be announced, one to an object id.
Announced ==
  {UidOf(r) : r \in {m \in Heritage : Announces(m)}}
    \cup UNION {Slugs(p) \X {"::"} \X Entity[p] : p \in Instance}
OneUidPerTopic == \A u, v \in Announced : u[3][2] = v[3][2] => u = v

\* A sensor is announced with a class only if its states are numbers.
Measures(e) == ValuesOf[e] \subseteq Numbers \cup {"unavailable", "unknown"}
Honest(d) ==
  d.unique_id[2] = "::" /\ domain_from_entity_id(d.unique_id[3]) = "sensor"
      /\ d.device_class # None
    => Measures(d.unique_id[3])
TrueClasses ==
  /\ \A r \in Heritage : Announces(r) => Honest(r.payload)
  /\ \A p \in Instance : \A s \in Slugs(p), e \in Entity[p] :
       Honest(build_discovery_payload(e, ClassOf[e], s, ValuePrefix))

(***************************************************************************)
(* Properties                                                              *)
(***************************************************************************)
\* Entries are stored with a terminated prefix; only an instance with an entry
\* runs; what an instance shows is in its registry, and diagnostics belong to
\* a bridge it shows an entity of.
TypeOK ==
  /\ \A p \in Instance : entry[p] # None =>
       /\ entry[p].prefix[Len(entry[p].prefix)] = ""
       /\ entry[p].entities \in SUBSET Entity[p] /\ entry[p].entities # {}
       /\ sending[p] \subseteq entry[p].entities
  /\ up \subseteq {p \in Instance : entry[p] # None}
  /\ \A p \in Instance : /\ DOMAIN known[p] \subseteq registry[p]
                         /\ diag[p] \subseteq BridgesOf(DOMAIN known[p], p)
                         /\ p \notin up => inbox[p] = <<>> /\ known[p] = Nothing
  /\ \A r, s \in retained : r.payload # None /\ (r.topic = s.topic => r = s)

Settled(p) == p \in up /\ inbox[p] = <<>>

\* No instance materializes its own entities from the broker's echoes, nor from
\* what an earlier version of it left retained (is_own_message), nor shows its
\* own diagnostics, as long as it keeps its name.
NoSelf ==
  \A p \in up : /\ \A u \in DOMAIN known[p] : ~Of(p, u)
                /\ Slug(p) \notin diag[p]

\* Once an instance has handled what it was sent, it shows what the broker
\* retains from others, on the topic it is retained on; and it shows nothing
\* else on any topic unless a removal was lost with its connection.
Mirrors ==
  \A p \in Instance : Settled(p) =>
    /\ \A r \in retained :
         topics_to_subscribe(r.topic, entry[p].prefix)
           /\ BridgeOfTopic(p, r.topic) = None /\ ~Of(p, r.payload.unique_id)
         => /\ r.topic \in DOMAIN topicUid[p]
            /\ topicUid[p][r.topic] = r.payload.unique_id
            /\ r.payload.unique_id \in DOMAIN known[p]
    /\ p \notin missed =>
         \A t \in DOMAIN topicUid[p] : \E r \in retained : r.topic = t

\* What depublish_bridge has removed does not come back, not by messages that
\* were under way and not after a restart, unless it is published anew; or the
\* entity was announced once more while it ran, and the echo of the clearing
\* message, which alone removes it again, was lost with the connection.
DeadStaysDead ==
  \A p \in Instance \ missed : Settled(p) =>
    \A u \in DOMAIN known[p] : <<entry[p].prefix, u>> \notin buried[p]

\* A text state never meets a numeric device class: neither the class the
\* sender's patterns find in the object id of a non-sensor, nor a sentinel
\* taken for a reading, makes an entity whose value cannot be converted (the
\* emptied state is ReadsSourceStates' concern).
NumericSafe ==
  \A p \in up : \A u \in DOMAIN known[p] :
    known[p][u].device_class # None
      => known[p][u].value.native \in Numbers \cup {None, ""}

\* "never what it reads once one arrives": an entity shows no value its source
\* never had.
ReadsSourceStates ==
  \A p \in up : \A u \in DOMAIN known[p] :
    known[p][u].value.native \in ValuesOf[u[3]] \cup {None}

\* The value of q's entity for e of p, once a state of it has arrived.
Follows(q, p, e) ==
  /\ entry[p] # None
  /\ LET u == <<Slug(p), "::", e>> IN
     /\ u \in DOMAIN known[q]
     /\ known[q][u].value # set_native_value("unknown")

Bridging(q, p, e) ==
  /\ {p, q} \subseteq up
  /\ entry[p].prefix = entry[q].prefix /\ Slug(p) # Slug(q)
  /\ e \in entry[p].entities

\* The first state of an entity is usually published before a peer that has just
\* learned of it is subscribed, and is not retained; the republish makes up for
\* it: as long as an entity is bridged every peer comes to show it with a state.
PeersFollow ==
  <>[][\A p \in Instance : ~Reconnect(p) /\ \A u \in registry[p] : ~Depublish(p, u[1])]_vars
    => \A q, p \in Instance : \A e \in Bridgeable(p) :
         p # q /\ <>[]Bridging(q, p, e) => <>[]Follows(q, p, e)
=============================================================================
