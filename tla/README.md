# A TLA+ model of Saulach

Saulach federates Home Assistant instances over an MQTT broker: every instance
publishes some of its entities under a shared prefix and materializes the entities
of its peers.  This directory holds TLA+ models of its two halves, the TLC runs
that check them on small instances, and theorems about them that TLAPS checks for
every instance.  All source paths below are relative to `custom_components/saulach/`.

## 1. Inventory

| Component | State it keeps | Operations | What makes it hard | What makes it correct |
|---|---|---|---|---|
| `remote_entity_manager.py` | entities, subscriptions, topic map, per-bridge counts, diagnostic entities | discovery, removal, metadata, `depublish_bridge`, unload | one coroutine per MQTT message, each with awaits in the middle of its table updates; snapshots of the registry used after awaits | shown = tracked = subscribed; counts exact; everything tracked is removable; diagnostics only beside entities |
| `sensor.py` | the entity objects | state writes, refresh | entities written before they are on the platform or after it is unloaded | a state exists only for an entity on the platform |
| `__init__.py` | `runtime_data`, handler tables, update listener | setup, unload, reload, removal, orphan cleanup, services | order of cleanup, platform, listeners and subscriptions; removal after unload; registries survive restarts | clean unload, clean removal, devices removed only when orphaned |
| `scheduler.py` | entities of the session, pending tasks | state change, tick, republish, publish tasks, cancellation | random jitter reorders publishes; tasks outlive the event that created them | eventual convergence; silence after unload |
| `adapters/legacy_discovery.py` | prefixes, bridge identity | publish, withdraw, clear, metadata, routing of incoming messages | two awaited publishes per operation; correlation of removals by topic only | withdrawn means withdrawn; own messages ignored |
| `config_flow.py` | the stored entry | first setup, options | withdraws dropped entities while the old session still publishes | nothing retained for what is no longer bridged |
| `discovery.py`, `const.py` | none | pure functions on names, topics, payloads | two separator conventions in unique ids | round trips, loop guard |
| `mqtt_io.py`, `protocol.py`, `diagnostics.py`, `version.py` | none | delegation, an interface, a dump, a file read | - | - |

The components meet in one config entry: `async_setup_entry` builds the manager,
the adapter and the scheduler; the scheduler calls the adapter to publish and
subscribes the adapter's message handler; the adapter hands what passes the loop
guard to the manager; the manager drives entities and registries; the options
flow and the removal reach the adapter through `runtime_data`.  Across instances
the only shared state is what the broker retains.  The hazards, each at its line,
are in `PROJECT.json`.

## 2. Modules

| Module | Models |
|---|---|
| `RemoteEntities` | the receiving half: `RemoteEntityManager`, the platform and registries it drives, the entry's setup, unload and restart, `depublish_bridge` |
| `BridgeMirror` | what the receiving half promises to a user, without topics, tables or coroutines; `RemoteEntities` implements it |
| `MCRemoteEntities` | the instances of `RemoteEntities` for TLC |
| `RemoteEntitiesProofs`, `RemoteEntitiesSerial` | theorems about `RemoteEntities`: under every interleaving, and with coroutines run to completion |
| `Publisher` | the sending half: `BridgeScheduler`, the publishing side of `LegacyDiscoveryAdapter`, options flow, entry lifecycle, the broker's retained messages and what a peer last received |
| `MCPublisher` | its instances for TLC |
| `PublisherProofs` | its theorems |
| `Discovery` | the wire protocol as operators: topics and their parsing, both unique id conventions, the loop guard, payloads, device classes, sentinels |
| `Federation` | several instances around one broker, composed of the message-level behaviour of both halves, over the operators of `Discovery` |
| `MCFederation` | its instances for TLC |
| `FederationProofs` | theorems about `Federation`: the operators of the broker and of the wire protocol, type correctness, nobody shows its own |
| `FederationMirrors` | theorems: what a settled instance shows and what the broker retains |
| `FederationRecords` | theorems: registry, finality of a depublication, classes and values |

`RemoteEntities` and `Publisher` look inside one instance, await by await; `Federation` looks at what
passes between instances and takes the handlers whole.

### RemoteEntities

An action is one uninterrupted run of a coroutine, from its start or from the
completion of an await up to its next await or its end.  A suspended coroutine is a
frame holding the locals its continuation uses: `"subscribe"` (the await of
`async_handle_discovery`), `"remove"` (the await of the entity's removal in
`async_handle_removal`) and `"removeMeta"` (the removal of the diagnostics).  The
`Service` slot is the frame of a removal that `async_depublish_bridge` awaits, and
`depub` the locals of that call.

| Code | Model |
|---|---|
| `_entities` | `entities`: absent, `"added"`, or the handler whose suspended coroutine created the object and has not added it to the platform |
| `_state_unsubs`, `_topic_to_unique_id`, `_entity_bridge_id` | `unsubs`, `topicUid`, `entityBridge` |
| `_bridge_entity_counts`, `_remote_metadata_entities` | `counts` (0: no key), `metas` |
| `hass.states`, entity and device registry | `states`, `registry`, `devices` |
| subscriptions whose unsubscriber was overwritten or lost | `leaked` |
| `async_handle_discovery` | `CreateEntity`, `FinishSubscribe`, `SubscribeFails`, `UpdateEntity` |
| `async_handle_removal` | `RemovalMessage` (`StartRemoval`), `FinishRemove`, `FinishRemoveMeta` |
| `async_handle_remote_metadata` | `HandleMetadata` |
| `async_depublish_bridge` and its service handler | `StartDepublish`, `DepublishEntity`, `SweepRegistry`, `FinishDepublish`, `DepublishFails` |
| `async_setup_entry`, `async_unload_entry`, `async_unload` | `Setup`, `UnloadPlatforms`, `UnloadEntry` |

`announced` is a history variable.  What Home Assistant does (ids, registries,
platform, `async_remove`) follows the stubs the repository tests against
(`tests/ha_stubs`): a state and a registry entry belong to an entity id, which is a
function of the unique id; an add after the platform's unload raises.  A write by an
entity of an unloaded platform is dropped, as in Home Assistant itself.

Every await is taken as a point where another coroutine may run, whatever Home
Assistant's MQTT client does today, because nothing in this code relies on
anything stronger.  With `Interleaved = FALSE` coroutines run to completion, the order
the repository's tests use: the strong invariants hold there, and the ones that
survive any interleaving are checked with `Interleaved = TRUE`.

Four faults are built in.  Adding the diagnostics may raise (a payload of metadata without the keys
`update` reads, `sensor.py:190`, or an add to an unloaded platform), which leaves `metas[b] = "failed"`.
A crash may happen at any await.  The calls named in the constant `Failures` may raise: a
`"subscribe"` (`SubscribeFails`) leaves the new entity in every table, counted and registered for its topic, but
never shown and without a feed; a `"publish"` (`DepublishFails`) abandons `async_depublish_bridge` between two
entities, or after the sweep with count and diagnostics still held.  The removal of an entity object is
taken not to raise.

`BridgeMirror` has four variables: the integration runs, entities are announced, shown,
remembered by the registry.  `Mirror` in `RemoteEntities` maps tracked entities to announced ones,
`states` to shown ones and `registry` to remembered ones.  That an entity is announced before it shows and withdrawn before
it is hidden is the trace of the two awaits; that nothing else is visible of topics, counts, registry
sweeps and coroutines is the point.

### Publisher

| Code | Model |
|---|---|
| `entry.data[CONF_ENTITIES]`, `BridgeScheduler._entities`, `entry.runtime_data` | `config`, `session`, `runtime` |
| `_tasks` | `asleep` (in the jitter sleep), `announced` (between the discovery and the state publish), `metaTasks`; counted per entity and captured state |
| the options flow between submit and update, its depublish loop and that of `async_remove_entry` | `proposed`, `withdraw` |
| the task of the update listener | `reload` |
| retained discovery, retained values of an old version, last value a peer received, retained metadata | `retained`, `stale`, `last`, `metadata` |
| `_handle_state_change`, `_handle_clock_tick` and the republish service | `StateChange`, `Republish` |
| `_jittered_publish` and `publish_own_entity` | `PublishDiscovery`, `PublishState`, `PublishFails` |
| `_jittered_metadata_publish`, `_cancel_pending_tasks` | `PublishMetadata`, `MetadataFails`, `CancelTasks` |
| `async_setup_entry` and `BridgeScheduler.async_setup` | `StartSetup`, `ClearRetainedState`, `StartTracking`, `FinishSetup` |
| `async_depublish_entity` | `WithdrawDiscovery`, `WithdrawState` |
| `SaulachOptionsFlow.async_step_init` | `SubmitOptions`, `SaveOptions`, `OptionsFail` |
| `async_unload_entry` with the unload callbacks, `async_remove_entry` | `Unload`, `UnloadFails`, `RemoveEntry`, `FinishRemoval` |

A publish may raise wherever one is awaited: in a task (`PublishFails`, `MetadataFails`), in the options flow
(`OptionsFail`), in the clearing at setup (`SetupFails`, which ends the setup before any listener exists) and in
the withdrawals of a removal (`RemovalFails`, after which the entry is gone with messages still
retained: the stage `"abandoned"`, of which `RemovedIsClean` claims nothing).

The platform may refuse to unload (`UnloadFails`).  Home Assistant then calls no unload callback and neither
reloads nor unloads the entry again: the scheduler goes on with the entities it was built with, in the stage
`"stuck"`, until the next restart.

Three constants choose the environment: `CanDrop` (may options drop entities),
`Submittable` (the stages options are submitted in) and `Calm` (options are submitted
only while no publish is pending, nothing happens until their reload, and that reload does unload).  `Calm`
is the order the tests of the options flow use; without it the code does not keep
`DroppedStaysSilent` (run `publisher_dropped`).

### Discovery and Federation

Strings are kept as the parts the code takes them apart into.  A topic or prefix is the sequence of
its segments, a trailing slash an empty last one; an entity id is `<<domain, object_id>>`; a unique id
`<<slug, separator, entity id>>`, so that the present and the older convention (`::` and `.`,
PROTOCOL.md 5c) differ.  `SlugOf` and `WordsOf` say what slugs and object ids look like to the
regular expressions.  `EntityId` holds the entity ids of all instances: two installations may well have
an entity of one id, which are then taken to be alike in class and states.  Who announced an entity is in the slug of its unique id (`Of`).

| Code | Model |
|---|---|
| `entry.data`, the entry is loaded, `publish_own_entity` between its publishes | `entry`, `up`, `sending` |
| messages delivered and not yet handled | `inbox`, in the order of the broker |
| `_entities` with feed, class and value; `_topic_to_unique_id`; diagnostics | `known`, `topicUid`, `diag` |
| entity registry, the broker's retained messages | `registry`, `retained` |
| `async_step_user`, `async_step_init` with withdrawals and reload | `AddEntry`, `Reconfigure` |
| `async_setup_entry`, stop, lost connection, removal | `Start`, `Stop`, `Reconnect`, `RemoveEntry` |
| `publish_own_entity`, `async_publish_metadata` | `PublishDiscovery`, `PublishState`, `PublishMetadata` |
| `handle_incoming_message` and the handlers it calls, state subscriptions | `Receive` with `ReceiveRemoval`, `ReceiveDiscovery`, `ReceiveMetadata`, `ReceiveState`, `Ignore` |
| `async_depublish_bridge` | `Depublish` |

A message that empties a retained one is passed on to live subscribers and then forgotten, as MQTT
prescribes; so an instance that is stopped or disconnected when it passes never sees it (`missed` remembers that for
a disconnected one).  `buried` remembers what each instance has depublished and nobody has published since.
The broker starts with what an older version left there (`Heritage`).

## 3. Runs

| Run | Instance | Question |
|---|---|---|
| `remote_serial` | 3 entities, 2 bridges, coroutines run to completion, publishes may fail | do all tables and registries agree after any sequence of messages, depublications, unloads, restarts, and is `BridgeMirror` implemented, its liveness included? |
| `remote_interleaved` | 2 entities of 1 bridge, 2 interleaving handlers, subscriptions may fail | which guarantees survive interleaving? |
| `remote_depublish` | 1 entity, 2 handlers and a depublication, both calls may fail | does a depublication end, and are diagnostics always accounted for? |
| `remote_wiring` (violated) | 1 entity, 2 handlers | "wired up atomically" while the entry runs |
| `remote_recount` (violated) | 1 entity, 2 handlers | do diagnostics go with the last entity under interleaving? |
| `remote_feed` (violated) | 1 entity, 2 state topics | does an update follow a changed state topic? |
| `remote_shared_topic` (violated) | 2 bridges, 1 topic | does a depublication spare other bridges? |
| `publisher_options` | 2 entities, options may drop, calm, publishes and unloads may fail | are dropped entities withdrawn, is cleanup first, is nothing sent after an unload, is a completed removal clean? |
| `publisher_converges` | 1 entity, 2 values, options at any stage | is a superseded value repaired, is a removal clean whatever was pending? |
| `publisher_dropped` (violated) | 2 entities, options may drop | is a withdrawal final? |
| `federation` | a sender that is reconfigured and removed, a receiver that restarts, reconnects and depublishes; an older message retained | loop guard, mirroring of what is retained, finality of a depublication, classes and values, and do peers come to show every state? |
| `federation_cleared` (violated) | the same, both unsteady | does a peer only read what its source ever had? |

Deadlock is checked in the `remote` and `publisher` runs: an entry can always be set up again, stopped or,
once removed, the local entities go on changing.  The `federation` runs have `CHECK_DEADLOCK FALSE`: there the
wall clock and the local entities are not state, and a federation with nothing to publish, stop or
configure has come to rest.

The properties of `federation`, by what it takes to break them: `NoSelf` needs a loop guard that forgets a
convention; `Mirrors` one that takes foreign messages for own ones, a removal that misses its entity, or a stop in between;
`DeadStaysDead` a depublication, a discovery under way or a restart, and a redelivery; `TypeOK` a depublication that rebuilds its topics from the present convention only; `NumericSafe` a binary sensor whose name
sounds numeric; `PeersFollow` the loss of the first state, which always comes too early for a peer that
has just learned of the entity.

### Bounds

* Three entities in two bridges: a bridge with an entity left after one is
  removed, a last entity, and a bystander.  Under interleaving two entities of one
  bridge suffice for every shared count; the other bridge would share no variable.
* Two handlers: a continuation is disturbed by one other coroutine at a time, and
  longer chains arise in sequence.  `Handler` symmetry is used in a run without
  liveness only.
* `MaxCount = 3` stops *deliveries* of new discoveries at that count.  Under
  interleaving the code's counts really are unbounded: a uid that is found again while its
  removal is awaited leaves an increment behind each time (the removal pops the bridge the
  rediscovery recorded, and the next removal finds none).  3 is above the two entities tracked, so
  leaked counts occur.
* `MaxSame` is a bound of the model (`HasRoom`); the scheduler has none.  A step that would start one more
  identical task (same entity, state and progress) than that is not taken until one of them ends.  Two of a
  kind (`publisher_options`) and three (`publisher_converges`, with 2 values, hence up to 12 publish tasks) leave tasks to
  overtake one another and to survive what ends their twin.
* One `depublish_bridge` call at a time, and a new setup only when no coroutine of the
  previous one is suspended.
* `federation` has a sender with two entities (a sensor and a binary sensor whose object id
  contains a numeric word), a receiver with one entity that has no state, and one inherited message of the older
  convention.  What a third instance would do reaches the other two through the broker only.
  `MaxInbox = 1`: an instance publishes only when nobody has a message to handle; a
  start, a reconnection, a reconfiguration and a removal still put several messages in an inbox, and a
  depublication runs whatever its own instance has still to handle, so that messages under way when it
  runs do occur.  `MaxInbox = 2` was checked for the invariants (616,153 states).
* `AnyOrder` fixes one order in which a set of messages is redelivered.
* `Caretaker`, `Reconfigurable`, `Heartbeat`, `Unsteady` say who does what: the sender changes, the receiver
  fails.  One name per instance and one discovery prefix; with two prefixes and one entity per instance the
  invariants were checked as well (30,059 states), and the theorems hold for any number of them.

### Fairness

The event loop resumes every coroutine whose await ends, and the awaits here
(subscribe, publish, remove, sleep) end, by completing or, where `Failures` says so, by raising: weak fairness of `Resume(s)`,
`DepublishStep`, `PublishDiscovery`, `PublishState` and `PublishMetadata`.  The clock ticks every
minute and minute 0 acts for every interval: weak fairness of `Republish`, which `MaxSame` holds back
only until a task ends.  The task the
update listener creates runs: weak fairness of the `Unload` it performs.  Nothing is assumed of
users, peers, state changes or restarts.  In `Federation` every
delivered message is handled (weak fairness of `Receive`), and the republish publishes every entity with a state again
and again: strong fairness of the two publishes, because `MaxInbox`, which the code does not know,
now and then disables them.  `PeersFollow` is conditional on both entries staying up, the entity staying bridged,
and connections and depublications ceasing.  `MirrorsAnnounced` assumes only that suspended
coroutines resume.  `Converges` is conditional on the entry staying loaded
and the state staying put; it is checked without publish failures.

## 4. What the violations show

* `WiredAtomically` (`remote_entity_manager.py:114`), stated while the entry runs, since an unloaded platform
  refuses the add: a removal during the subscribe await leaves a subscription, and a shown entity, that no message can remove.
* `DiagnosticsAttached` under interleaving (`:144`): a rediscovery during the await of a removal
  has its bridge record popped by that removal; its count is never settled and the diagnostics stay.
  It holds when coroutines run to completion (`remote_serial`).
* `FeedFollowsDiscovery` (`:75`): a known entity keeps its first state topic.
* `DepublishOwnOnly` (`:215`): the check is by unique id, the removal by topic.
* `DroppedStaysSilent` (`config_flow.py:167`, `scheduler.py:99`): a task in its jitter sleep
  announces a dropped entity again after it was withdrawn, and nothing withdraws it later.
* `ReadsSourceStates` (`legacy_discovery.py:148`): the clearing of states at a sender's start is an ordinary
  publish; a live peer shows the empty string until the next one.

Whether the first two are met in practice depends on Home Assistant suspending inside
`async_subscribe` and `Entity.async_remove`; the others need no particular timing inside a library.

## 5. Theorems

The proof modules quantify over every value of the constants, under the
assumptions named in the models: the sorts are disjoint (`Sorts`), the topic and bridge maps are
functions (`Wire`, `Topics`), entities and handlers are finitely many (`Finite`; counting
needs it) and the bounds are naturals (`Bound`).

`RemoteEntitiesProofs`, for `Spec` with or without interleaving:

* `TypeCorrect`: `TypeOK` is inductive.
* `AddedIsFed`, `RemovalReaches`, `DiagnosticsNeedEntities`: with `TypeOK`, each of
  `FedWhileAdded`, `Reachable`, `DiagnosticsCounted` is inductive; the actions that pop an entity, a
  topic or a count pop its partner in the same uninterrupted run.
* `CountCovers`: `BridgeCounted` is not inductive, because the continuation of a removal
  decrements a count that no longer covers its own, already untracked, entity.
  `CountInv` adds the suspended removals: the count of a bridge covers its tracked entities *and*
  the suspended removals of its entities.  A creation adds one to each side, the start of a
  removal moves one from the first to the second, and a settling removal takes one
  from the second, and at most one from the count.  It also needs that an entity's recorded
  bridge is its own or none, and that only depublishable bridges are depublished.

`RemoteEntitiesSerial`, for `Interleaved = FALSE` and subscriptions that do not raise (assumption `Serial`; one that
raises leaves a tracked entity that is never shown), while publishes may raise, in layers, each an invariant that
uses the ones below:

* `Alone`: at most one coroutine is suspended, or the depublication and the removal it awaits.  This is what running to
  completion buys, and everything else rests on it.
* `Wired`: a suspended creation holds its uid and has no subscription yet, a suspended removal has let go of
  its uid; subscriptions belong to tracked uids.  Gives `SubscriptionsFollow`.
* `Visible`: what is shown is on the platform or about to leave it; only a running entry shows
  anything.  Gives `UnloadLeavesNothing`.
* `Remembered`: what is shown is registered, and the sweep of a depublication takes nothing that is
  tracked, because its loop has come past every tracked entity before.  Gives `ShowsTracked`.
* `Exact` and `Attached`: the count of a bridge is its tracked entities *plus* the suspended removals, and
  diagnostics are held or about to go.  Give `CountsAreExact` and `DiagnosticsNeverAlone`.
* `Swept`: the snapshot of a depublication covers what is registered of its bridge, and nothing is registered
  while it runs.  Gives `RemovedDevicesAreOrphans`, with shared topics too.

`ShowsTracked`, `CountsAreExact` and `DiagnosticsNeverAlone` assume that entities have topics of their own (`Distinct`), because the loop of a depublication removes by
topic: with a shared one it may leave its own entity tracked (run `remote_shared_topic`).  On the same layers rests
`ImplementsMirror`: `Spec => Mirror!Spec`, every step of `RemoteEntities` is a step of `BridgeMirror` or a
stutter; the liveness of `MirrorsAnnounced` is left to TLC.

`PublisherProofs`:

* `TypeCorrect`: `TypeOK` is inductive.
* `UnloadedIsSilent`: `TasksOfSession`, that tasks exist only while the scheduler tracks and only for
  entities of its session, is inductive; without tasks only withdrawals and cleanups publish.
* `CleanupFirst`: `StaleCleared` bounds what is stale by what setup has still to clear; a
  value is sent only by a task, so for a topic of the session, of which nothing is stale.
* `RemovalCleans`, for `CanDrop = FALSE`: `Accounted` relates what the broker retains to the stored
  entry and, during a removal, to what the withdrawal loop has still to do.  With
  `CanDrop = TRUE` it fails for the reason `DroppedStaysSilent` does, so there the calm run
  is all that is claimed.
* `DroppedAreWithdrawn`, for options submitted calmly (`Calmly`): in `AccountedFor`, while the options are
  submitted, the new entities and those still to withdraw account for everything retained, and no
  task is left that could add to it; the entities of the session are the stored ones unless
  the reload is due.

The `Federation` modules, for every set of instances, entities, names, prefixes and inherited messages and every
`MaxInbox`, under the assumptions `Sorts` (`None` is none of the values), `Given` (the shape of ids and prefixes) and
`Beginning` (acceptable entries, well-formed inherited messages); of `AnyOrder` they use only that it puts a finite set in some order.  They use the actions through
`Step(q)`: what a step is for one instance, which hears what is published, starts afresh, renews its
subscriptions, handles one message or depublishes.

| Theorem | Hypotheses | Invariant and argument |
|---|---|---|
| `TypedHolds` | none | `Typed`: entries are acceptable, every message is well-formed (`Msg`), and what an instance remembers is about entities announced to it, each on the topic its unique id names |
| `NoSelfHolds` | `KeepsName` | `Foreigners`: no shown unique id begins with the slug of the instance, and diagnostics belong to shown entities (`Typed`); the loop guard recognizes all its instance announces, in both conventions |
| `NothingStale` | none | `InSync`: the last word under way on a discovery topic agrees with the broker (`UpToDate`), and a topic in the table is retained, has a removal under way (`Accounted`), or its removal was lost |
| `MirrorsHolds` | `DistinctNames` | `Due`: what is retained from others is shown on its topic or is itself still under way; with `InSync`, a removal or another unique id under way on the topic is followed by what is retained |
| `TypeOKHolds` | `OneUidPerTopic` | `Recorded`: what is shown is registered and the last seen on its topic, so a removal or a depublication takes entity, topic and registry entry together |
| `DeadStaysDeadHolds` | `OneUidPerTopic` | `Buried`: nothing depublished is retained under that prefix; with `InSync` whatever a settled instance shows is |
| `NumericSafeHolds` | `Apart`, `DistinctObjects`, `TrueClasses` | `Sober`: an entity with a class is one whose states are numbers, and what it reads is a state of its own source, a sentinel or empty |

The hypotheses are defined in `Federation` and restrict what users choose and what earlier versions left, not what the code does; TLC evaluates
them on the instance of the run (`Presupposed` in `MCFederation`), so they can be met.  All but `Apart` are needed; TLC
finds a counterexample without each:

* `KeepsName`: after a rename the entities under the old slug come back to their own instance.
* `DistinctNames`: two instances of one slug take each other's messages for their own.
* `OneUidPerTopic`: where an older version left a retained message for an entity that is still bridged, receivers materialize
  both unique ids from one topic, and a depublication removes only the one last seen: the other stays
  shown without a registry entry (`TypeOK`), and depublished but shown (`DeadStaysDead`).
* `DistinctObjects`: a sensor and a binary sensor of one object id share a state topic; the text of one is fed to the other.
* `TrueClasses`: a sensor without a class whose object id contains a numeric word but whose states are texts is announced
  with that class.
* `Apart` says that no state topic matches a discovery subscription (a value prefix one segment below the shared one and an
  object id `config`); the model would hand such a message to the discovery handler only.

`NoSelf`, `Mirrors` and `NumericSafe` were also checked with two instances that bridge the same entity id (1,298,079
states), where `OneUidPerTopic` fails.

Only model-checked: the liveness properties (`Converges`, `DepublishCompletes`, `PeersFollow` and the fair
part of `MirrorsAnnounced`), which are out of TLAPS' reach here.  Every invariant a passing run checks is a theorem.

## 6. Not modelled

* Names, units, versions and timestamps in payloads; payloads without device identifiers (no bridge, no
  diagnostics).  Payloads that are not JSON are ignored by the code before anything changes.
* Renaming the bridge while messages are retained: `NoSelf` and the mirrors of the old name do not survive it, which the
  options flow leaves to the user on purpose (`config_flow.py:160-162`); the runs keep the names.
* In `Federation` two unique ids of one entity on one topic, and texts from a sensor whose name sounds numeric: both break what is claimed (section 5).
* Changing the value prefix and the interval, and the check against a second entry.
* Removing an entry whose unload failed: Home Assistant then removes it with its scheduler still publishing until
  the restart it asks for.  In `RemoteEntities` the unload of the platform succeeds.
* Entity objects whose removal raises.
* A subscription that raises at setup: what Home Assistant then does with the callbacks registered so far is not
  in the repository.
* Two installations with one bridge name: the code documents distinct names as a precondition.
* The three diagnostic entities of a bridge are one item, removed in one step.
* `mqtt_io.py` (delegation; its awaits are the scheduling points), `protocol.py` (an interface),
  `diagnostics.py` and `version.py` (they read and change nothing).

## 7. Plan

Done: both halves await by await, the wire protocol, the federation of instances, the refinement of
`BridgeMirror`, and the theorems of section 5.  Next, in this order:

1. Hypotheses per topic instead of for the whole federation: what `TypeOK` and `DeadStaysDead` claim of the topics
   that carry one unique id, whatever happens on the others.
2. An abstract specification of the federation (an instance shows what is retained) that `Federation` implements.
3. A value prefix that changes, and a federation of three instances.
