--------------------------- MODULE RemoteEntities ---------------------------
(***************************************************************************)
(* The receiving side of Saulach: RemoteEntityManager together with the    *)
(* parts of Home Assistant it drives (state machine, entity registry,      *)
(* device registry, MQTT subscriptions) and the entry lifecycle around it. *)
(*                                                                         *)
(* Home Assistant starts one coroutine per MQTT message.  A coroutine runs *)
(* alone until it awaits; between its await and its continuation any other *)
(* coroutine may run.  Every action below is one such uninterrupted run.   *)
(* A suspended coroutine is a frame in `frame`, holding the locals its     *)
(* continuation will use.  With Interleaved = FALSE a coroutine starts     *)
(* only when no other one is suspended: the order in which the repository's*)
(* tests drive the manager.                                                *)
(*                                                                         *)
(* Abstracted: names, device classes, units and state values (the handlers *)
(* copy them and never branch on them here); the label of a bridge         *)
(* (_bridge_names); the three diagnostic entities of one bridge are one    *)
(* item, named by the bridge.                                              *)
(***************************************************************************)
EXTENDS FiniteSets, Integers

CONSTANTS
  Uid,            \* unique ids of federated entities
  Bridge,         \* ids of remote bridges
  Topic,          \* discovery topics
  StateTopic,     \* state topics a discovery payload can announce
  Handler,        \* coroutines that can be inside async_handle_* at once
  Service,        \* the frame of a removal awaited by async_depublish_bridge
  None,           \* absence of a value
  BridgeOf,       \* the first device identifier in the payload of a uid
  TopicOf,        \* the discovery topic of a uid: a function of its object id
  Depublishable,  \* bridges an operator may name in depublish_bridge
  MaxCount,       \* bound: discovery is not delivered beyond this count
  Interleaved,    \* may a coroutine start while another one is suspended?
  Failures        \* calls to the MQTT client that may raise

ASSUME Sorts ==
  /\ Uid \cap Bridge = {}
  /\ Service \notin Handler
  /\ None \notin Uid \cup Bridge \cup StateTopic
  /\ {"absent", "added"} \cap (Handler \cup {Service}) = {}
  /\ Depublishable \subseteq Bridge
  /\ Interleaved \in BOOLEAN
  /\ Failures \subseteq {"subscribe", "publish"}

ASSUME Wire == BridgeOf \in [Uid -> Bridge] /\ TopicOf \in [Uid -> Topic]

ASSUME Finite == IsFiniteSet(Uid) /\ IsFiniteSet(Handler)

ASSUME Bound == MaxCount \in Nat

VARIABLES
  stage,        \* lifecycle of the config entry
  entities,     \* _entities: absent, "added", or created by a suspended handler
  topicUid,     \* _topic_to_unique_id
  unsubs,       \* _state_unsubs: the topic whose unsubscriber is held
  entityBridge, \* _entity_bridge_id
  counts,       \* _bridge_entity_counts; 0 stands for a missing key
  metas,        \* _remote_metadata_entities: absent, added, or add failed
  frame,        \* suspended async_handle_* coroutines
  depub,        \* the running async_depublish_bridge, if any
  states,       \* items with a state in hass.states
  registry,     \* items in the entity registry (persistent)
  devices,      \* bridges in the device registry (persistent)
  leaked,       \* uids with a live subscription whose unsubscriber is lost
  announced     \* history: last state topic announced for a tracked uid

manager == <<entities, topicUid, unsubs, entityBridge, counts, metas>>
host    == <<states, registry, devices>>
vars    == <<stage, manager, frame, depub, host, leaked, announced>>

Slot == Handler \cup {Service}
Item == Uid \cup Bridge

\* The device an item hangs on; the diagnostics of b are the item b itself.
DeviceOf(i) == IF i \in Bridge THEN i ELSE BridgeOf[i]

Idle == [kind |-> "idle"]
Quiet == (\A s \in Slot : frame[s] = Idle) /\ depub.pc = "idle"
CanRun == Interleaved \/ Quiet

\* The federation subscription is up from setup until the on_unload callbacks.
Listening == stage \in {"running", "unloading"}

Tracked(u) == entities[u] # "absent"
TrackedOf(b) == {u \in Uid : Tracked(u) /\ BridgeOf[u] = b}
DeviceItems(b) == {i \in registry : DeviceOf(i) = b}

(***************************************************************************)
(* Types                                                                   *)
(***************************************************************************)
Stages == {"down", "running", "unloading", "unloaded"}

Frame ==
  [kind : {"idle"}]
    \cup [kind : {"subscribe"}, uid : Uid, st : StateTopic]
    \cup [kind : {"remove"}, uid : Uid, added : BOOLEAN]
    \cup [kind : {"removeMeta"}, bridge : Bridge, added : BOOLEAN]

NoDepub == [pc |-> "idle", bridge |-> None, todo |-> {}, doomed |-> {}]

Depub ==
  [pc : {"idle", "publishing", "clearing"}, bridge : Bridge \cup {None},
   todo : SUBSET Uid, doomed : SUBSET Item]

TypeOK ==
  /\ stage \in Stages
  /\ entities \in [Uid -> {"absent", "added"} \cup Handler]
  /\ topicUid \in [Topic -> Uid \cup {None}]
  /\ unsubs \in [Uid -> StateTopic \cup {None}]
  /\ entityBridge \in [Uid -> Bridge \cup {None}]
  /\ counts \in [Bridge -> Nat]
  /\ metas \in [Bridge -> {"absent", "added", "failed"}]
  /\ frame \in [Slot -> Frame]
  /\ depub \in Depub
  /\ states \subseteq Item
  /\ registry \subseteq Item
  /\ devices \subseteq Bridge
  /\ leaked \subseteq Uid
  /\ announced \in [Uid -> StateTopic \cup {None}]

(***************************************************************************)
(* Lifecycle of the config entry                                           *)
(***************************************************************************)
\* A manager that has just been built.
NoEntities == [u \in Uid |-> "absent"]
NoTopics   == [t \in Topic |-> None]
NoUnsubs   == [u \in Uid |-> None]
NoBridges  == [u \in Uid |-> None]
NoCounts   == [b \in Bridge |-> 0]
NoMetas    == [b \in Bridge |-> "absent"]

EmptyManager ==
  /\ entities' = NoEntities /\ topicUid' = NoTopics /\ unsubs' = NoUnsubs
  /\ entityBridge' = NoBridges /\ counts' = NoCounts /\ metas' = NoMetas
  /\ announced' = NoUnsubs

Init ==
  /\ stage = "down"
  /\ entities = NoEntities /\ topicUid = NoTopics /\ unsubs = NoUnsubs
  /\ entityBridge = NoBridges /\ counts = NoCounts /\ metas = NoMetas
  /\ announced = NoUnsubs
  /\ frame = [s \in Slot |-> Idle]
  /\ depub = NoDepub
  /\ states = {} /\ registry = {} /\ devices = {} /\ leaked = {}

\* _async_cleanup_orphaned_devices keeps a device with a registry entry.
InUseNow(b) == \E i \in states : DeviceOf(i) = b     \* mutant: with a live entity
InUse(b) == DeviceItems(b) # {}

\* async_setup_entry: devices without registry entries are cleaned up, a new
\* manager is built, and only then are the federation topics subscribed.
Setup ==
  /\ stage \in {"down", "unloaded"}
  /\ Quiet
  /\ stage' = "running"
  /\ EmptyManager
  /\ leaked' = leaked \cup {u \in Uid : unsubs[u] # None}
  /\ devices' = {b \in devices : InUse(b)}
  /\ UNCHANGED <<frame, depub, states, registry>>

\* async_unload_entry: the sensor platform is unloaded first.
UnloadPlatforms ==
  /\ stage = "running"
  /\ CanRun
  /\ stage' = "unloading"
  /\ states' = {}
  /\ UNCHANGED <<manager, frame, depub, registry, devices, leaked, announced>>

\* Mutant: the memory is dropped, the subscriptions are not.
UnloadEntryFeeding ==
  /\ stage = "unloading" /\ CanRun
  /\ stage' = "unloaded"
  /\ EmptyManager
  /\ leaked' = leaked \cup {u \in Uid : unsubs[u] # None}
  /\ UNCHANGED <<frame, depub, host>>

\* The on_unload callbacks: the federation topics are unsubscribed, and
\* RemoteEntityManager.async_unload drops its subscriptions and its memory.
UnloadEntry ==
  /\ stage = "unloading"
  /\ CanRun
  /\ stage' = "unloaded"
  /\ EmptyManager
  /\ UNCHANGED <<frame, depub, host, leaked>>

\* Home Assistant stops at any point; only the registries survive.
Crash ==
  /\ stage # "down"
  /\ stage' = "down"
  /\ EmptyManager
  /\ frame' = [s \in Slot |-> Idle]
  /\ depub' = NoDepub
  /\ states' = {} /\ leaked' = {}
  /\ UNCHANGED <<registry, devices>>

(***************************************************************************)
(* async_handle_discovery                                                  *)
(***************************************************************************)
\* A uid seen for the first time: bookkeeping, then await async_subscribe.
CreateEntity(h, u, st) ==
  /\ Listening /\ CanRun
  /\ frame[h] = Idle
  /\ ~Tracked(u)
  /\ counts[BridgeOf[u]] < MaxCount
  /\ entities' = [entities EXCEPT ![u] = h]
  /\ topicUid' = [topicUid EXCEPT ![TopicOf[u]] = u]
  /\ entityBridge' = [entityBridge EXCEPT ![u] = BridgeOf[u]]
  /\ counts' = [counts EXCEPT ![BridgeOf[u]] = @ + 1]
  /\ announced' = [announced EXCEPT ![u] = st]
  /\ frame' = [frame EXCEPT ![h] = [kind |-> "subscribe", uid |-> u, st |-> st]]
  /\ UNCHANGED <<stage, unsubs, metas, depub, host, leaked>>

\* Mutant: a redelivery is counted and subscribed like a new entity.
UpdateEntityAsNew(u, st) ==
  /\ Listening /\ CanRun
  /\ Tracked(u) /\ counts[BridgeOf[u]] < MaxCount
  /\ counts' = [counts EXCEPT ![BridgeOf[u]] = @ + 1]
  /\ leaked' = leaked \cup {u}
  /\ UNCHANGED <<stage, entities, topicUid, unsubs, entityBridge, metas, frame,
                 depub, host, announced>>

\* A known uid: its entity is refreshed in place and writes its state.
UpdateEntity(u, st) ==
  /\ Listening /\ CanRun
  /\ Tracked(u)
  /\ topicUid' = [topicUid EXCEPT ![TopicOf[u]] = u]
  /\ announced' = [announced EXCEPT ![u] = st]
  /\ states' = IF stage = "running" /\ entities[u] = "added"
                 THEN states \cup {u} ELSE states
  /\ UNCHANGED <<stage, entities, unsubs, entityBridge, counts, metas, frame,
                 depub, registry, devices, leaked>>

\* The subscription is up: remember its unsubscriber, add the entity object
\* this coroutine created.  Without a loaded platform the add raises.
FinishSubscribe(h) ==
  /\ frame[h].kind = "subscribe"
  /\ LET u == frame[h].uid IN
     /\ unsubs' = [unsubs EXCEPT ![u] = frame[h].st]
     /\ leaked' = IF unsubs[u] = None THEN leaked ELSE leaked \cup {u}
     /\ \/ /\ stage = "running"
           /\ entities' = IF entities[u] = h
                            THEN [entities EXCEPT ![u] = "added"] ELSE entities
           /\ states' = states \cup {u}
           /\ registry' = registry \cup {u}
           /\ devices' = devices \cup {BridgeOf[u]}
        \/ /\ stage # "running"
           /\ UNCHANGED <<entities, host>>
  /\ frame' = [frame EXCEPT ![h] = Idle]
  /\ UNCHANGED <<stage, topicUid, entityBridge, counts, metas, depub, announced>>

\* async_subscribe raises out of the handler: the tables keep the new entity,
\* which is never added to the platform and has no subscription.
SubscribeFails(h) ==
  /\ "subscribe" \in Failures
  /\ frame[h].kind = "subscribe"
  /\ frame' = [frame EXCEPT ![h] = Idle]
  /\ UNCHANGED <<stage, manager, depub, host, leaked, announced>>

\* A value on a subscribed state topic reaches the entity now tracked.
StateMessage(u) ==
  /\ stage = "running"
  /\ unsubs[u] # None \/ u \in leaked
  /\ entities[u] = "added"
  /\ states' = states \cup {u}
  /\ UNCHANGED <<stage, manager, frame, depub, registry, devices, leaked, announced>>

(***************************************************************************)
(* async_handle_removal                                                    *)
(***************************************************************************)
\* Up to its first await: the topic, the subscription and the entity are
\* popped; with nothing to remove the handler returns at once.
StartRemoval(s, t) ==
  /\ topicUid[t] # None
  /\ frame[s] = Idle
  /\ LET u == topicUid[t] IN
     /\ topicUid' = [topicUid EXCEPT ![t] = None]
     /\ unsubs' = [unsubs EXCEPT ![u] = None]
     /\ entities' = [entities EXCEPT ![u] = "absent"]
     /\ announced' = [announced EXCEPT ![u] = None]
     /\ frame' = IF Tracked(u)
                   THEN [frame EXCEPT ![s] = [kind |-> "remove", uid |-> u,
                                              added |-> entities[u] = "added"]]
                   ELSE frame
  /\ UNCHANGED <<stage, entityBridge, counts, metas, host, leaked>>

\* An empty retained payload arrives on a discovery topic.
RemovalMessage(h, t) ==
  /\ Listening /\ CanRun
  /\ StartRemoval(h, t)
  /\ UNCHANGED depub

\* _async_remove_entity: state and registry entry of the entity's id go,
\* unless the entity was never added and so has no id.
PurgeRegistryOnly(item, added) ==                      \* mutant
  /\ states' = states
  /\ registry' = IF added THEN registry \ {item} ELSE registry
Purge(item, added) ==
  /\ states' = IF added THEN states \ {item} ELSE states
  /\ registry' = IF added THEN registry \ {item} ELSE registry

\* The bridge a removal settles with: popped once, by the first removal of u.
PoppedBridge(u) == entityBridge[u]

LastTooSoon(b) == counts[b] - 1 <= 1                   \* mutant: off by one
LastAfterZero(b) == counts[b] - 1 < 0                  \* mutant: off by one
LastIfOne(b) == counts[b] = 1                          \* mutant: missing key
LastOf(b) == counts[b] - 1 <= 0

\* The count of the entity's bridge is settled; the last entity of a bridge
\* takes the bridge's diagnostic entities with it.
SettleBridge(s) ==
  LET u == frame[s].uid
      b == PoppedBridge(u)
  IN /\ entityBridge' = [entityBridge EXCEPT ![u] = None]
     /\ IF b = None
          THEN /\ frame' = [frame EXCEPT ![s] = Idle]
               /\ UNCHANGED <<counts, metas>>
          ELSE /\ counts' = [counts EXCEPT ![b] = IF LastOf(b) THEN 0 ELSE @ - 1]
               /\ metas' = [metas EXCEPT ![b] = IF LastOf(b) THEN "absent" ELSE @]
               /\ frame' = [frame EXCEPT ![s] =
                    IF LastOf(b) /\ metas[b] # "absent"
                      THEN [kind |-> "removeMeta", bridge |-> b,
                            added |-> metas[b] = "added"]
                      ELSE Idle]

\* Mutant: topic and unsubscriber are popped after the await.
FinishRemoveLate(s) ==
  /\ frame[s].kind = "remove"
  /\ Purge(frame[s].uid, frame[s].added)
  /\ SettleBridge(s)
  /\ topicUid' = [topicUid EXCEPT ![TopicOf[frame[s].uid]] = None]
  /\ unsubs' = [unsubs EXCEPT ![frame[s].uid] = None]
  /\ UNCHANGED <<stage, entities, depub, devices, leaked, announced>>

\* The entity object is off the platform: async_handle_removal resumes.
FinishRemove(s) ==
  /\ frame[s].kind = "remove"
  /\ Purge(frame[s].uid, frame[s].added)
  /\ SettleBridge(s)
  /\ UNCHANGED <<stage, entities, topicUid, unsubs, depub, devices, leaked, announced>>

\* The diagnostic entities of the frame's bridge have been removed.
FinishRemoveMeta(s) ==
  /\ frame[s].kind = "removeMeta"
  /\ Purge(frame[s].bridge, frame[s].added)
  /\ frame' = [frame EXCEPT ![s] = Idle]
  /\ UNCHANGED <<stage, manager, depub, devices, leaked, announced>>

(***************************************************************************)
(* async_handle_remote_metadata                                            *)
(***************************************************************************)
AnyBridge(b) == TRUE                                   \* mutant: no check
KnownBridge(b) == counts[b] > 0

\* Metadata of a bridge with a counted entity: the first one creates the
\* diagnostic entities, every one refreshes them.  Keys that update() misses in
\* the payload (not ok) raise when the entities are already on the platform.
HandleMetadata(b, ok) ==
  /\ Listening /\ CanRun
  /\ KnownBridge(b)
  /\ LET first == metas[b] = "absent"
         shown == stage = "running" /\ metas[b] # "failed"
         new   == IF shown /\ first THEN {b} ELSE {}
     IN /\ metas' = [metas EXCEPT ![b] = IF ~first THEN @
                        ELSE IF shown THEN "added" ELSE "failed"]
        /\ states' = IF shown /\ (first \/ ok) THEN states \cup {b} ELSE states
        /\ registry' = registry \cup new
        /\ devices' = devices \cup new
  /\ UNCHANGED <<stage, entities, topicUid, unsubs, entityBridge, counts, frame,
                 depub, leaked, announced>>

(***************************************************************************)
(* The depublish_bridge service                                            *)
(***************************************************************************)
\* The device resolves to a bridge of a loaded entry; the registry entries of
\* the device are snapshot, and the first clearing publish is awaited.
StartDepublish(b) ==
  /\ Listening /\ CanRun
  /\ depub.pc = "idle"
  /\ b \in devices \cap Depublishable
  /\ depub' = [pc |-> "publishing", bridge |-> b,
               todo |-> DeviceItems(b) \cap Uid, doomed |-> DeviceItems(b)]
  /\ UNCHANGED <<stage, manager, frame, host, leaked, announced>>

AllHandlersDone == \A s \in Slot : frame[s] = Idle     \* mutant: a global lock
RemovalDone == frame[Service] = Idle

\* Mutant: only published and swept, as if no entity of the bridge were live.
DepublishUnseen(u) ==
  /\ depub.pc = "publishing" /\ u \in depub.todo
  /\ depub' = [depub EXCEPT !.todo = @ \ {u}]
  /\ UNCHANGED <<stage, manager, frame, host, leaked, announced>>

\* The empty payload for u is published: if u is tracked now, await the
\* ordinary removal for the topic rebuilt from u.
DepublishEntity(u) ==
  /\ depub.pc = "publishing" /\ u \in depub.todo
  /\ RemovalDone
  /\ depub' = [depub EXCEPT !.todo = @ \ {u}]
  /\ \/ /\ Tracked(u) /\ topicUid[TopicOf[u]] # None
        /\ StartRemoval(Service, TopicOf[u])
     \/ /\ ~(Tracked(u) /\ topicUid[TopicOf[u]] # None)
        /\ UNCHANGED <<stage, manager, frame, host, leaked, announced>>

\* Whatever of the snapshot is still registered is swept from the registry;
\* the clearing publish of the metadata topic is awaited.
SweepRegistry ==
  /\ depub.pc = "publishing" /\ depub.todo = {}
  /\ RemovalDone
  /\ registry' = registry \ depub.doomed
  /\ depub' = [depub EXCEPT !.pc = "clearing", !.doomed = {}]
  /\ UNCHANGED <<stage, manager, frame, states, devices, leaked, announced>>

\* The bridge's bookkeeping is dropped and its device removed.
FinishDepublish ==
  /\ depub.pc = "clearing"
  /\ LET b == depub.bridge IN
     /\ metas' = [metas EXCEPT ![b] = "absent"]
     /\ counts' = [counts EXCEPT ![b] = 0]
     /\ devices' = devices \ {b}
  /\ depub' = NoDepub
  /\ UNCHANGED <<stage, entities, topicUid, unsubs, entityBridge, frame, states,
                 registry, leaked, announced>>

\* A clearing publish raises out of the service: what it has done so far stays
\* done, the rest of the snapshot is left as it is.
DepublishFails ==
  /\ "publish" \in Failures
  /\ \/ depub.pc = "publishing" /\ depub.todo # {} /\ RemovalDone
     \/ depub.pc = "clearing"
  /\ depub' = NoDepub
  /\ UNCHANGED <<stage, manager, frame, host, leaked, announced>>

(***************************************************************************)
(* Specification                                                           *)
(***************************************************************************)
Resume(s) == FinishSubscribe(s) \/ FinishRemove(s) \/ FinishRemoveMeta(s)
DepublishStep == (\E u \in Uid : DepublishEntity(u)) \/ SweepRegistry \/ FinishDepublish

Next ==
  \/ Setup \/ UnloadPlatforms \/ UnloadEntry \/ Crash
  \/ \E h \in Handler, u \in Uid, st \in StateTopic : CreateEntity(h, u, st)
  \/ \E u \in Uid, st \in StateTopic : UpdateEntity(u, st)
  \/ \E u \in Uid : StateMessage(u)
  \/ \E h \in Handler, t \in Topic : RemovalMessage(h, t)
  \/ \E s \in Slot : FinishSubscribe(s)
  \/ \E s \in Slot : SubscribeFails(s)
  \/ \E s \in Slot : FinishRemove(s)
  \/ \E s \in Slot : FinishRemoveMeta(s)
  \/ \E b \in Bridge, ok \in BOOLEAN : HandleMetadata(b, ok)
  \/ \E b \in Bridge : StartDepublish(b)
  \/ \E u \in Uid : DepublishEntity(u)
  \/ SweepRegistry
  \/ FinishDepublish
  \/ DepublishFails

Spec == Init /\ [][Next]_vars

\* The event loop runs every coroutine whose await has completed, and the
\* awaits here (subscribe, publish, entity removal) complete, unless they raise.
Fairness == (\A s \in Slot : WF_vars(Resume(s))) /\ WF_vars(DepublishStep)
FairSpec == Spec /\ Fairness

(***************************************************************************)
(* Safety that survives every interleaving                                 *)
(***************************************************************************)
\* An entity on the platform has a state feed whose unsubscriber is held, so
\* its removal ends the feed (async_handle_discovery, async_handle_removal).
FedWhileAdded == \A u \in Uid : entities[u] = "added" => unsubs[u] # None

\* A tracked entity can always be removed by an empty payload on its own
\* discovery topic (the only correlation async_handle_removal has), provided
\* no other uid shares that topic.
Reachable ==
  (\A u, v \in Uid : TopicOf[u] = TopicOf[v] => u = v)
    => \A u \in Uid : Tracked(u) => topicUid[TopicOf[u]] = u

\* Diagnostic entities exist only for a bridge that is still counted: the
\* last counted entity always takes them along.
DiagnosticsCounted == \A b \in Bridge : metas[b] # "absent" => counts[b] > 0

\* The count of a bridge nobody depublishes never falls below the number of
\* its tracked entities, so its diagnostics never go while entities remain,
\* however removals and rediscoveries of one uid interleave.
BridgeCounted ==
  \A b \in Bridge \ Depublishable : counts[b] >= Cardinality(TrackedOf(b))

\* Why BridgeCounted is kept: the suspended removals of a bridge's entities
\* are paid for as well, even when several of them name one uid and all but
\* the first find the bridge already popped.
RemovingOf(b) ==
  {s \in Slot : frame[s].kind = "remove" /\ BridgeOf[frame[s].uid] = b}

CountInv ==
  /\ \A u \in Uid : entityBridge[u] \in {None, BridgeOf[u]}
  /\ depub.pc # "idle" => depub.bridge \in Depublishable
  /\ IF Listening
       THEN \A b \in Bridge \ Depublishable :
              counts[b] >= Cardinality(TrackedOf(b)) + Cardinality(RemovingOf(b))
       ELSE \A u \in Uid : ~Tracked(u)

(***************************************************************************)
(* Safety when coroutines run to completion                                *)
(***************************************************************************)
Settled == Quiet /\ stage = "running"

\* What Home Assistant shows is what the manager tracks, and it is registered.
ShownIffTracked ==
  Settled => \A u \in Uid :
    /\ u \in states <=> Tracked(u)
    /\ Tracked(u) => entities[u] = "added" /\ u \in registry

\* Subscriptions are held exactly for the tracked entities; none is lost.
SubscribedIffTracked ==
  Settled => leaked = {} /\ \A u \in Uid : unsubs[u] # None <=> Tracked(u)

\* The lazily kept per-bridge counts equal the number of tracked entities,
\* after any sequence of creations, removals, depublications and restarts.
CountsExact ==
  Settled => \A b \in Bridge : counts[b] = Cardinality(TrackedOf(b))

\* Diagnostic entities are shown only next to an entity of the same bridge.
DiagnosticsAttached ==
  Settled => \A b \in Bridge \cap states : TrackedOf(b) # {}

\* Unloading the entry leaves neither a state nor a subscription behind.
UnloadClean ==
  stage = "unloaded" /\ Quiet
    => states = {} /\ leaked = {} /\ \A u \in Uid : unsubs[u] = None

\* A device is removed only when nothing registered hangs on it: "the device
\* itself is guaranteed orphaned" (depublish service handler).
RemovedDeviceOrphaned ==
  [][\A b \in devices \ devices' : DeviceItems(b)' = {}]_vars

(***************************************************************************)
(* Statements of the documentation that interleavings or shared topics break*)
(***************************************************************************)
\* "entity creation and its state feed are wired up atomically": while the
\* entry runs, outside a creation in progress, exactly the tracked entities
\* have a subscription.
WiredAtomically ==
  stage = "running" => \A u \in Uid :
    (\A s \in Slot : frame[s].kind # "subscribe" \/ frame[s].uid # u)
      => (unsubs[u] # None <=> Tracked(u))

\* "We only act on exactly the entities this instance currently has
\* materialized for it": depublishing a bridge removes no other bridge's
\* entity.
DepublishOwnOnly ==
  [][\A u \in Uid : DepublishEntity(u) =>
        \A v \in Uid : BridgeOf[v] # depub.bridge /\ Tracked(v) => Tracked(v)']_vars

\* An entity redelivered with another state topic follows it.
FeedFollowsDiscovery ==
  Settled => \A u \in Uid : Tracked(u) => unsubs[u] = announced[u]

(***************************************************************************)
(* Liveness                                                                *)
(***************************************************************************)
\* A depublication that started is carried through: it never waits for a
\* removal that waits for it.
DepublishCompletes == depub.pc # "idle" ~> depub.pc = "idle"

(***************************************************************************)
(* The receiving side implements BridgeMirror                              *)
(***************************************************************************)
Mirror == INSTANCE BridgeMirror WITH
  up         <- stage = "running",
  announced  <- IF stage = "running" THEN {u \in Uid : Tracked(u)} ELSE {},
  shown      <- states \cap Uid,
  remembered <- registry \cap Uid

\* With coroutines run to completion and a discovery topic per entity, what a
\* user sees is what was announced and not withdrawn, one step later: whatever
\* the handlers do in between, nothing flickers, reappears or stays behind.
MirrorsAnnounced == Mirror!FairSpec
=============================================================================
