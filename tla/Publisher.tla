----------------------------- MODULE Publisher -----------------------------
(***************************************************************************)
(* The sending side of Saulach: BridgeScheduler, the publishing half of    *)
(* LegacyDiscoveryAdapter, the options flow and the setup, unload, reload  *)
(* and removal of the config entry, against what the MQTT broker retains   *)
(* and what a peer last received.                                          *)
(*                                                                         *)
(* Every publish is a background task that sleeps a random jitter, then    *)
(* awaits the discovery publish, then awaits the state publish; tasks of   *)
(* one entity overtake each other freely.  Identical tasks (same entity,   *)
(* same captured value, same progress) are only counted.                   *)
(*                                                                         *)
(* Abstracted: payload contents other than the state value (discovery.py   *)
(* computes them and nothing here depends on them), the bridge name and    *)
(* the prefixes, which stay the ones the entry was created with, and the   *)
(* wall clock: an acting tick comes again and again.  The code bounds its  *)
(* pending tasks by nothing; the model takes no step (HasRoom) that would  *)
(* have more than MaxSame identical ones pending.                          *)
(***************************************************************************)
EXTENDS FiniteSets, Integers

CONSTANTS
  Entity,    \* local entities a user can choose to bridge
  Value,     \* states such an entity can have
  Topic,     \* object ids, each one discovery topic and one state topic
  TopicOf,   \* the object id of an entity: its id without the domain
  None,      \* absence of a value
  MaxSame,   \* bound: the most identical tasks that are pending at once
  CanDrop,   \* may the options flow drop entities?
  Failures,  \* may an MQTT publish raise?
  Submittable, \* lifecycle stages in which options are submitted
  Calm       \* are options submitted only while no publish is pending, and
             \* left undisturbed until their reload, which does unload?

ASSUME Sorts ==
  /\ None \notin Entity \cup Value
  /\ \A E \in SUBSET Entity : E # None
ASSUME Topics == TopicOf \in [Entity -> Topic]
ASSUME Bound == MaxSame \in Nat \ {0}
ASSUME Stageable ==
  Submittable \subseteq {"off", "setup", "tracking", "loaded", "stuck", "unloaded"}
ASSUME Modes == CanDrop \in BOOLEAN /\ Failures \in BOOLEAN /\ Calm \in BOOLEAN

VARIABLES
  stage,     \* lifecycle of the config entry
  runtime,   \* is entry.runtime_data set, i.e. was it ever set up since start?
  config,    \* entry.data[CONF_ENTITIES]
  session,   \* BridgeScheduler._entities: the entities when it was built
  clearing,  \* entities whose retained state setup has still to clear
  asleep,    \* per entity and captured state: tasks in their jitter sleep
  announced, \* the same for tasks between discovery and state publish
  metaTasks, \* sleeping metadata tasks
  proposed,  \* the options flow's new entities; None when none is submitted
  withdraw,  \* progress of the depublish loops of the flow and of the removal
  reload,    \* has the update listener scheduled a reload?
  hass,      \* local state of every entity; None when it has none
  retained,  \* topics whose discovery the broker retains
  stale,     \* topics with a state value an older version left retained
  last,      \* the value a peer last received on the state topic
  metadata   \* the entity count in the retained metadata

tasks  == <<asleep, announced, metaTasks>>
broker == <<retained, stale, last, metadata>>
vars   == <<stage, runtime, config, session, clearing, tasks, proposed,
            withdraw, reload, hass, broker>>

Job == {"flow", "remove"}
Done == [todo |-> {}, half |-> None]

TopicsOf(E) == {TopicOf[e] : e \in E}

NoTasks == [e \in Entity |-> [v \in Value |-> 0]]

\* The listeners are up: also when an unload failed, which calls no on_unload.
Tracking == stage \in {"tracking", "loaded", "stuck"}

\* The options flow has been submitted and its reload has not happened yet.
Reconfiguring == proposed # None \/ reload
Undisturbed == Calm => ~Reconfiguring

Gone == {"removing", "abandoned", "removed"}
Stages == {"off", "setup", "tracking", "loaded", "stuck", "unloaded"} \cup Gone

TypeOK ==
  /\ stage \in Stages /\ runtime \in BOOLEAN
  /\ config \in (SUBSET Entity) \ {{}}
  /\ session \subseteq Entity /\ clearing \subseteq Entity
  /\ asleep \in [Entity -> [Value -> 0..MaxSame]]
  /\ announced \in [Entity -> [Value -> 0..MaxSame]]
  /\ metaTasks \in 0..MaxSame
  /\ proposed \in {None} \cup ((SUBSET Entity) \ {{}})
  /\ withdraw \in [Job -> [todo : SUBSET Entity, half : Entity \cup {None}]]
  /\ reload \in BOOLEAN
  /\ hass \in [Entity -> Value \cup {None}]
  /\ retained \subseteq Topic /\ stale \subseteq Topic
  /\ last \in [Topic -> Value \cup {None}]
  /\ metadata \in {None} \cup {Cardinality(E) : E \in SUBSET Entity}

\* A fresh install, or the first start after an upgrade from a version that
\* published states retained.
Init ==
  /\ stage = "off" /\ runtime = FALSE
  /\ config \in (SUBSET Entity) \ {{}}
  /\ session = {} /\ clearing = {}
  /\ asleep = NoTasks /\ announced = NoTasks /\ metaTasks = 0
  /\ proposed = None /\ withdraw = [j \in Job |-> Done] /\ reload = FALSE
  /\ hass \in [Entity -> Value \cup {None}]
  /\ retained = {} /\ stale \in SUBSET TopicsOf(config)
  /\ last = [t \in Topic |-> None] /\ metadata = None

(***************************************************************************)
(* Scheduling                                                              *)
(***************************************************************************)
\* Bound: there is room for the tasks a step is about to start.
HasRoom(same) == same < MaxSame

\* _schedule_publish for every entity of E that has a state: the task captures
\* the state as it is now.
Scheduled(e, v, E) == e \in E /\ hass'[e] = v

Schedule(E) ==
  /\ \A e \in Entity, v \in Value : Scheduled(e, v, E) => HasRoom(asleep[e][v])
  /\ asleep' = [e \in Entity |-> [v \in Value |->
                  IF Scheduled(e, v, E) THEN asleep[e][v] + 1 ELSE asleep[e][v]]]

\* async_republish_all: one task per entity of the session, one for metadata.
OnlyMetadata == {}                                     \* mutant: no resync
Republished == session

RepublishAll ==
  /\ Schedule(Republished)
  /\ HasRoom(metaTasks) /\ metaTasks' = metaTasks + 1

\* An acting clock tick, or the republish service.
Republish ==
  /\ Tracking /\ Undisturbed
  /\ UNCHANGED hass
  /\ RepublishAll
  /\ UNCHANGED <<stage, runtime, config, session, clearing, announced, proposed,
                 withdraw, reload, broker>>

\* A local entity changes its state, appears or goes away; _handle_state_change
\* ignores the last and everything that is not of the session.
StateChange(e, v) ==
  /\ Undisturbed
  /\ hass[e] # v
  /\ hass' = [hass EXCEPT ![e] = v]
  /\ Schedule(IF Tracking /\ e \in session THEN {e} ELSE {})
  /\ UNCHANGED <<stage, runtime, config, session, clearing, announced, metaTasks,
                 proposed, withdraw, reload, broker>>

(***************************************************************************)
(* Publish tasks                                                           *)
(***************************************************************************)
\* The jitter is over: publish_own_entity retains the discovery payload.
PublishDiscovery(e, v) ==
  /\ asleep[e][v] > 0 /\ HasRoom(announced[e][v])
  /\ asleep' = [asleep EXCEPT ![e][v] = @ - 1]
  /\ announced' = [announced EXCEPT ![e][v] = @ + 1]
  /\ retained' = retained \cup {TopicOf[e]}
  /\ UNCHANGED <<stage, runtime, config, session, clearing, metaTasks, proposed,
                 withdraw, reload, hass, stale, last, metadata>>

\* ... and then publishes the captured state, not retained.
PublishState(e, v) ==
  /\ announced[e][v] > 0
  /\ announced' = [announced EXCEPT ![e][v] = @ - 1]
  /\ last' = [last EXCEPT ![TopicOf[e]] = v]
  /\ UNCHANGED <<stage, runtime, config, session, clearing, asleep, metaTasks,
                 proposed, withdraw, reload, hass, retained, stale, metadata>>

\* async_publish_metadata, with the number of entities of the session.
PublishMetadata ==
  /\ metaTasks > 0
  /\ metaTasks' = metaTasks - 1
  /\ metadata' = Cardinality(session)
  /\ UNCHANGED <<stage, runtime, config, session, clearing, asleep, announced,
                 proposed, withdraw, reload, hass, retained, stale, last>>

\* A publish raises: _jittered_publish logs it and the task ends.
PublishFails(e, v) ==
  /\ Failures
  /\ \/ /\ asleep[e][v] > 0
        /\ asleep' = [asleep EXCEPT ![e][v] = @ - 1]
        /\ UNCHANGED announced
     \/ /\ announced[e][v] > 0
        /\ announced' = [announced EXCEPT ![e][v] = @ - 1]
        /\ UNCHANGED asleep
  /\ UNCHANGED <<stage, runtime, config, session, clearing, metaTasks, proposed,
                 withdraw, reload, hass, broker>>

\* The metadata publish raises: _jittered_metadata_publish logs it and returns.
MetadataFails ==
  /\ Failures
  /\ metaTasks > 0
  /\ metaTasks' = metaTasks - 1
  /\ UNCHANGED <<stage, runtime, config, session, clearing, asleep, announced,
                 proposed, withdraw, reload, hass, broker>>

\* _cancel_pending_tasks: a cancelled task is raised out of its await.
KeepTasks == UNCHANGED tasks                           \* mutant: not cancelled
CancelTasks == asleep' = NoTasks /\ announced' = NoTasks /\ metaTasks' = 0

(***************************************************************************)
(* Lifecycle of the config entry                                           *)
(***************************************************************************)
\* async_setup_entry builds manager, adapter and scheduler from entry.data.
StartSetup ==
  /\ stage \in {"off", "unloaded"}
  /\ stage' = "setup"
  /\ runtime' = TRUE
  /\ session' = config
  /\ clearing' = config
  /\ UNCHANGED <<config, tasks, proposed, withdraw, reload, hass, broker>>

\* async_clear_retained_state of one entity.
ClearRetainedState(e) ==
  /\ stage = "setup" /\ e \in clearing
  /\ clearing' = clearing \ {e}
  /\ stale' = stale \ {TopicOf[e]}
  /\ last' = [last EXCEPT ![TopicOf[e]] = None]
  /\ UNCHANGED <<stage, runtime, config, session, tasks, proposed, withdraw,
                 reload, hass, retained, metadata>>

\* A clearing publish raises: the setup is given up, before any listener is up;
\* a reload asked for meanwhile is the next setup.
SetupFails ==
  /\ Failures /\ stage = "setup" /\ clearing # {}
  /\ stage' = "unloaded" /\ clearing' = {} /\ reload' = FALSE
  /\ UNCHANGED <<runtime, config, session, tasks, proposed, withdraw, hass, broker>>

\* scheduler.async_setup: listeners first, then the subscriptions are awaited.
Eager == TRUE                                          \* mutant: do not wait
AllCleared == clearing = {}

StartTracking ==
  /\ stage = "setup" /\ AllCleared
  /\ stage' = "tracking"
  /\ UNCHANGED <<runtime, config, session, clearing, tasks, proposed, withdraw,
                 reload, hass, broker>>

\* Subscribed: resync at once, without waiting for a tick.
FinishSetup ==
  /\ stage = "tracking"
  /\ stage' = "loaded"
  /\ UNCHANGED hass
  /\ RepublishAll
  /\ UNCHANGED <<runtime, config, session, clearing, announced, proposed,
                 withdraw, reload, broker>>

\* Unload, by the user or by the reload the update listener asked for.
Unload ==
  /\ stage = "loaded"
  /\ Calm => proposed = None
  /\ stage' = "unloaded"
  /\ CancelTasks
  /\ reload' = FALSE
  /\ UNCHANGED <<runtime, config, session, clearing, proposed, withdraw, hass, broker>>

\* async_unload_platforms returns False: Home Assistant calls no on_unload
\* callback, so the scheduler goes on, and it neither unloads nor reloads the
\* entry again before the next start.
UnloadFails ==
  /\ stage = "loaded" /\ Undisturbed
  /\ stage' = "stuck"
  /\ reload' = FALSE
  /\ UNCHANGED <<runtime, config, session, clearing, tasks, proposed, withdraw,
                 hass, broker>>

\* Home Assistant stops; the stored entry and the broker's memory survive.
Restart ==
  /\ stage \notin {"off", "abandoned", "removed"}
  /\ stage' = IF stage = "removing" THEN "removed" ELSE "off"
  /\ runtime' = FALSE
  /\ session' = {} /\ clearing' = {}
  /\ asleep' = NoTasks /\ announced' = NoTasks /\ metaTasks' = 0
  /\ proposed' = None /\ withdraw' = [j \in Job |-> Done] /\ reload' = FALSE
  /\ UNCHANGED <<config, hass, broker>>

(***************************************************************************)
(* Depublishing                                                            *)
(***************************************************************************)
\* async_depublish_entity, first half: the discovery topic is emptied.
WithdrawDiscovery(j, e) ==
  /\ withdraw[j].half = None /\ e \in withdraw[j].todo
  /\ withdraw' = [withdraw EXCEPT ![j] = [todo |-> @.todo \ {e}, half |-> e]]
  /\ retained' = retained \ {TopicOf[e]}
  /\ UNCHANGED <<stage, runtime, config, session, clearing, tasks, proposed,
                 reload, hass, stale, last, metadata>>

\* Second half: the state topic is emptied, as a retained message.
WithdrawState(j) ==
  /\ withdraw[j].half # None
  /\ withdraw' = [withdraw EXCEPT ![j].half = None]
  /\ LET t == TopicOf[withdraw[j].half] IN
     /\ stale' = stale \ {t}
     /\ last' = [last EXCEPT ![t] = None]
  /\ UNCHANGED <<stage, runtime, config, session, clearing, tasks, proposed,
                 reload, hass, retained, metadata>>

\* The form is shown again, with an error, when no entity is chosen.
AcceptedEmpty(new) == TRUE                             \* mutant: no such check
Accepted(new) == new # {}

\* The options flow is submitted with a choice of entities: the dropped ones
\* are depublished first, through the adapter in runtime_data.
AddedBy(new) == new \ config                           \* mutant: swapped
DroppedBy(new) == config \ new

SubmitOptions(new) ==
  /\ proposed = None /\ Accepted(new)
  /\ stage \in Submittable
  /\ CanDrop \/ config \subseteq new
  /\ Calm => ~reload /\ asleep = NoTasks /\ announced = NoTasks
  /\ proposed' = new
  /\ withdraw' = [withdraw EXCEPT !["flow"] =
                    [todo |-> IF runtime THEN DroppedBy(new) ELSE {}, half |-> None]]
  /\ UNCHANGED <<stage, runtime, config, session, clearing, tasks, reload, hass, broker>>

\* async_update_entry stores the choice; a registered update listener schedules
\* a reload if anything changed.
SaveOptions ==
  /\ proposed # None
  /\ withdraw["flow"] = Done
  /\ IF stage \in Gone
       THEN UNCHANGED <<config, reload>>
       ELSE /\ config' = proposed
            /\ reload' = (reload \/ /\ proposed # config
                                    /\ stage \in {"setup", "tracking", "loaded"})
  /\ proposed' = None
  /\ UNCHANGED <<stage, runtime, session, clearing, tasks, withdraw, hass, broker>>

\* A publish of the flow raises: the step is abandoned, nothing is stored.
OptionsFail ==
  /\ Failures /\ proposed # None /\ withdraw["flow"] # Done
  /\ proposed' = None
  /\ withdraw' = [withdraw EXCEPT !["flow"] = Done]
  /\ UNCHANGED <<stage, runtime, config, session, clearing, tasks, reload, hass, broker>>

\* The entry is removed: unloaded if needed, then async_remove_entry
\* depublishes what entry.data names, if there is an adapter to do it with.
RemoveEntry ==
  /\ stage \in {"off", "loaded", "unloaded"}
  /\ stage' = "removing"
  /\ CancelTasks
  /\ reload' = FALSE
  /\ withdraw' = [withdraw EXCEPT !["remove"] =
                    [todo |-> IF runtime THEN config ELSE {}, half |-> None]]
  /\ UNCHANGED <<runtime, config, session, clearing, proposed, hass, broker>>

FinishRemoval ==
  /\ stage = "removing"
  /\ withdraw["remove"] = Done
  /\ stage' = "removed"
  /\ UNCHANGED <<runtime, config, session, clearing, tasks, proposed, withdraw,
                 reload, hass, broker>>

\* A withdrawing publish of the removal raises: the rest stays retained, and
\* the entry is removed nevertheless.
RemovalFails ==
  /\ Failures /\ stage = "removing" /\ withdraw["remove"] # Done
  /\ stage' = "abandoned"
  /\ withdraw' = [withdraw EXCEPT !["remove"] = Done]
  /\ UNCHANGED <<runtime, config, session, clearing, tasks, proposed, reload,
                 hass, broker>>

(***************************************************************************)
(* Specification                                                           *)
(***************************************************************************)
Next ==
  \/ Republish
  \/ \E e \in Entity, v \in Value \cup {None} : StateChange(e, v)
  \/ \E e \in Entity, v \in Value : PublishDiscovery(e, v)
  \/ \E e \in Entity, v \in Value : PublishState(e, v)
  \/ \E e \in Entity, v \in Value : PublishFails(e, v)
  \/ PublishMetadata \/ MetadataFails
  \/ StartSetup
  \/ \E e \in Entity : ClearRetainedState(e)
  \/ SetupFails \/ StartTracking \/ FinishSetup \/ Unload \/ UnloadFails \/ Restart
  \/ \E j \in Job, e \in Entity : WithdrawDiscovery(j, e)
  \/ \E j \in Job : WithdrawState(j)
  \/ \E new \in SUBSET Entity : SubmitOptions(new)
  \/ SaveOptions \/ OptionsFail
  \/ RemoveEntry \/ FinishRemoval \/ RemovalFails

Spec == Init /\ [][Next]_vars

\* Every sleep ends and every publish completes; the clock keeps ticking, and
\* minute 0 acts for every interval; a scheduled reload runs.
Fairness ==
  /\ WF_vars(Republish)
  /\ \A e \in Entity, v \in Value :
       WF_vars(PublishDiscovery(e, v)) /\ WF_vars(PublishState(e, v))
  /\ WF_vars(PublishMetadata)
  /\ WF_vars(reload /\ Unload)

FairSpec == Spec /\ Fairness

(***************************************************************************)
(* Properties                                                              *)
(***************************************************************************)
\* "Depublish entities dropped from the list": with the reload done, nothing
\* is retained for an entity that is no longer bridged.
DroppedWithdrawn ==
  stage = "loaded" /\ ~Reconfiguring => retained \subseteq TopicsOf(config)

\* "When an entity stops being bridged", it is depublished, and that is final:
\* discovery is never retained anew for an entity the entry no longer names.
DroppedStaysSilent == [][retained' \ retained \subseteq TopicsOf(config)]_vars

\* Removing an entry that was set up leaves none of its discovery or state
\* messages retained, whatever was pending when it was unloaded.
RemovedIsClean ==
  stage = "removed" /\ runtime
    => retained = {} /\ stale \cap TopicsOf(config) = {}

\* "cleanup always precedes the fresh, non-retained values": no value is
\* published on a state topic that still retains one of an older version.
CleanupPrecedes ==
  [][\A t \in Topic : last'[t] \notin {None, last[t]} => t \notin stale]_vars

\* Nothing is announced, and no value sent, by an entry that is not set up:
\* no task outlives the unload.
SilentWhenUnloaded ==
  [][~Tracking =>
       /\ retained' \subseteq retained
       /\ \A t \in Topic : last'[t] \in {None, last[t]}]_vars

\* Jittered tasks may deliver a superseded state last; the republish heals it:
\* a bridged entity whose state stays put is eventually, and for good, known
\* to the peers with that state, together with the number of entities.
Converges ==
  \A e \in Entity, v \in Value :
    <>[](stage = "loaded" /\ e \in session /\ hass[e] = v)
      => <>[](/\ last[TopicOf[e]] = v /\ TopicOf[e] \in retained
              /\ metadata = Cardinality(session))

(***************************************************************************)
(* Why they hold                                                           *)
(***************************************************************************)
\* Tasks are held only while the scheduler tracks, and only for entities it
\* was built with.
TasksOfSession ==
  /\ ~Tracking => asleep = NoTasks /\ announced = NoTasks /\ metaTasks = 0
  /\ \A e \in Entity \ session, v \in Value : asleep[e][v] = 0 /\ announced[e][v] = 0

\* What setup has still to clear covers what is stale.
StaleCleared ==
  /\ stage = "setup" => stale \cap TopicsOf(session) \subseteq TopicsOf(clearing)
  /\ Tracking => stale \cap TopicsOf(session) = {}

\* An entry that drops no entity always names what it ever announced, and
\* what its removal has still to withdraw covers what is left.
Accounted ==
  /\ session \subseteq config
  /\ proposed = None \/ config \subseteq proposed
  /\ withdraw["flow"] = Done
  /\ retained \subseteq TopicsOf(config)
  /\ stage # "removing" => withdraw["remove"] = Done
  /\ stage = "removing" /\ runtime =>
       LET left == withdraw["remove"] IN
       /\ retained \subseteq TopicsOf(left.todo)
       /\ stale \cap TopicsOf(config)
            \subseteq TopicsOf(left.todo) \cup {TopicOf[e] : e \in Entity \cap {left.half}}

\* An entry whose options are submitted calmly retains nothing it does not
\* name; while they are submitted, the new entities and the ones still to
\* withdraw account for what is retained, and no task can add to it.
AccountedFor ==
  /\ stage = "setup" \/ Tracking => runtime /\ (reload \/ session = config)
  /\ proposed # None => stage = "loaded" \/ stage \in Gone
  /\ reload => stage = "loaded"
  /\ stage = "loaded" /\ Reconfiguring => asleep = NoTasks
  /\ stage \notin Gone =>
       /\ retained \subseteq TopicsOf(config)
       /\ proposed # None => retained \subseteq TopicsOf(proposed \cup withdraw["flow"].todo)
=============================================================================
