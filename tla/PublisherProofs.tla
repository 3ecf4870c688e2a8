--------------------------- MODULE PublisherProofs ---------------------------
(***************************************************************************)
(* Proofs about Publisher, for every set of entities, values and topics,   *)
(* every bound and every mode.                                             *)
(***************************************************************************)
EXTENDS Publisher, TLAPS

(***************************************************************************)
(* Scheduling                                                              *)
(***************************************************************************)

\* A counter of identical tasks with room stays within its bound.
LEMMA RoomType == \A n \in 0..MaxSame : HasRoom(n) => n + 1 \in 0..MaxSame
  BY Bound DEF HasRoom

\* Schedule keeps the counters typed and touches only the entities it names.
LEMMA ScheduleEffect ==
  ASSUME TypeOK, NEW E, Schedule(E)
  PROVE  /\ asleep' \in [Entity -> [Value -> 0..MaxSame]]
         /\ \A e \in Entity \ E, v \in Value : asleep'[e][v] = asleep[e][v]
  <1>1. \A e \in Entity, v \in Value :
          (IF Scheduled(e, v, E) THEN asleep[e][v] + 1 ELSE asleep[e][v]) \in 0..MaxSame
    <2> SUFFICES ASSUME NEW e \in Entity, NEW v \in Value
                 PROVE  (IF Scheduled(e, v, E) THEN asleep[e][v] + 1 ELSE asleep[e][v])
                          \in 0..MaxSame
      OBVIOUS
    <2>1. asleep[e][v] \in 0..MaxSame
      BY DEF TypeOK
    <2>2. Scheduled(e, v, E) => HasRoom(asleep[e][v])
      BY DEF Schedule
    <2> QED BY <2>1, <2>2, RoomType
  <1>2. asleep' \in [Entity -> [Value -> 0..MaxSame]]
    BY <1>1 DEF Schedule
  <1>3. \A e \in Entity \ E, v \in Value : asleep'[e][v] = asleep[e][v]
    BY DEF Schedule, Scheduled
  <1> QED BY <1>2, <1>3

\* Scheduling for nobody changes nothing.
LEMMA ScheduleNobody ==
  ASSUME TypeOK, Schedule({})
  PROVE  asleep' = asleep
  <1>1. \A e \in Entity : asleep'[e] = asleep[e]
    <2> SUFFICES ASSUME NEW e \in Entity PROVE asleep'[e] = asleep[e]
      OBVIOUS
    <2>1. asleep'[e] \in [Value -> 0..MaxSame] /\ asleep[e] \in [Value -> 0..MaxSame]
      BY ScheduleEffect DEF TypeOK
    <2>2. \A v \in Value : asleep'[e][v] = asleep[e][v]
      BY ScheduleEffect
    <2> QED BY <2>1, <2>2
  <1>2. asleep' \in [Entity -> [Value -> 0..MaxSame]]
    BY ScheduleEffect
  <1>3. asleep \in [Entity -> [Value -> 0..MaxSame]]
    BY DEF TypeOK
  <1> QED BY <1>1, <1>2, <1>3

\* Writing one counter keeps all of them typed.
LEMMA CounterWrite ==
  ASSUME NEW f \in [Entity -> [Value -> 0..MaxSame]], NEW e \in Entity,
         NEW v \in Value, NEW n \in 0..MaxSame
  PROVE  /\ [f EXCEPT ![e][v] = n] \in [Entity -> [Value -> 0..MaxSame]]
         /\ \A d \in Entity \ {e} : [f EXCEPT ![e][v] = n][d] = f[d]
  <1>1. f[e] \in [Value -> 0..MaxSame]
    OBVIOUS
  <1>2. [f[e] EXCEPT ![v] = n] \in [Value -> 0..MaxSame]
    BY <1>1
  <1> QED BY <1>2

\* One task more or less is within the bound.
LEMMA TaskCount ==
  ASSUME NEW f \in [Entity -> [Value -> 0..MaxSame]], NEW e \in Entity, NEW v \in Value
  PROVE  /\ f[e][v] \in 0..MaxSame
         /\ HasRoom(f[e][v]) => f[e][v] + 1 \in 0..MaxSame
         /\ f[e][v] > 0 => f[e][v] - 1 \in 0..MaxSame
  <1>1. f[e][v] \in 0..MaxSame
    OBVIOUS
  <1> QED BY <1>1, RoomType, Bound

\* No tasks at all is a typed set of tasks.
LEMMA NoTasksType ==
  NoTasks \in [Entity -> [Value -> 0..MaxSame]] /\ 0 \in 0..MaxSame
  BY Bound DEF NoTasks

(***************************************************************************)
(* Types                                                                   *)
(***************************************************************************)

\* Done is a typed progress of a job.
LEMMA DoneType ==
  /\ Done \in [todo : SUBSET Entity, half : Entity \cup {None}]
  /\ [j \in Job |-> Done] \in [Job -> [todo : SUBSET Entity, half : Entity \cup {None}]]
  BY DEF Done

\* Every step preserves the type invariant.
LEMMA TypeStep == TypeOK /\ [Next]_vars => TypeOK'
  <1> SUFFICES ASSUME TypeOK, [Next]_vars PROVE TypeOK'
    OBVIOUS
  <1> USE DEF Stages, Gone
  <1>1. CASE Republish
    <2>1. asleep' \in [Entity -> [Value -> 0..MaxSame]] /\ metaTasks' \in 0..MaxSame
      BY <1>1, ScheduleEffect, RoomType DEF Republish, RepublishAll, TypeOK
    <2> QED BY <1>1, <2>1 DEF Republish, TypeOK, broker
  <1>2. ASSUME NEW e \in Entity, NEW v \in Value \cup {None}, StateChange(e, v)
        PROVE  TypeOK'
    <2>1. asleep' \in [Entity -> [Value -> 0..MaxSame]]
      BY <1>2, ScheduleEffect DEF StateChange
    <2> QED BY <1>2, <2>1 DEF StateChange, TypeOK, broker
  <1>3. ASSUME NEW e \in Entity, NEW v \in Value, PublishDiscovery(e, v)
        PROVE  TypeOK'
    <2>1. asleep' \in [Entity -> [Value -> 0..MaxSame]]
      BY <1>3, TaskCount, CounterWrite DEF PublishDiscovery, TypeOK
    <2>2. announced' \in [Entity -> [Value -> 0..MaxSame]]
      BY <1>3, TaskCount, CounterWrite DEF PublishDiscovery, TypeOK
    <2> QED BY <1>3, <2>1, <2>2, Topics DEF PublishDiscovery, TypeOK
  <1>4. ASSUME NEW e \in Entity, NEW v \in Value, PublishState(e, v)
        PROVE  TypeOK'
    <2>1. announced' \in [Entity -> [Value -> 0..MaxSame]]
      BY <1>4, TaskCount, CounterWrite DEF PublishState, TypeOK
    <2> QED BY <1>4, <2>1, Topics DEF PublishState, TypeOK
  <1>5. ASSUME NEW e \in Entity, NEW v \in Value, PublishFails(e, v)
        PROVE  TypeOK'
    <2>1. CASE asleep[e][v] > 0 /\ asleep' = [asleep EXCEPT ![e][v] = @ - 1]
                 /\ UNCHANGED announced
      <3>1. asleep' \in [Entity -> [Value -> 0..MaxSame]]
        BY <2>1, TaskCount, CounterWrite DEF TypeOK
      <3> QED BY <1>5, <2>1, <3>1 DEF PublishFails, TypeOK, broker
    <2>2. CASE announced[e][v] > 0 /\ announced' = [announced EXCEPT ![e][v] = @ - 1]
                 /\ UNCHANGED asleep
      <3>1. announced' \in [Entity -> [Value -> 0..MaxSame]]
        BY <2>2, TaskCount, CounterWrite DEF TypeOK
      <3> QED BY <1>5, <2>2, <3>1 DEF PublishFails, TypeOK, broker
    <2> QED BY <1>5, <2>1, <2>2 DEF PublishFails
  <1>6. CASE PublishMetadata
    <2>1. metaTasks' \in 0..MaxSame
      BY <1>6, Bound DEF PublishMetadata, TypeOK
    <2> QED BY <1>6, <2>1 DEF PublishMetadata, TypeOK
  <1>7. CASE StartSetup
    BY <1>7 DEF StartSetup, TypeOK, tasks, broker
  <1>8. ASSUME NEW e \in Entity, ClearRetainedState(e)
        PROVE  TypeOK'
    BY <1>8, Topics DEF ClearRetainedState, TypeOK, tasks
  <1>9. CASE StartTracking
    BY <1>9 DEF StartTracking, TypeOK, tasks, broker
  <1>10. CASE FinishSetup
    <2>1. asleep' \in [Entity -> [Value -> 0..MaxSame]] /\ metaTasks' \in 0..MaxSame
      BY <1>10, ScheduleEffect, RoomType DEF FinishSetup, RepublishAll, TypeOK
    <2> QED BY <1>10, <2>1 DEF FinishSetup, TypeOK, broker
  <1>11. CASE Unload
    <2>1. /\ asleep' \in [Entity -> [Value -> 0..MaxSame]]
          /\ announced' \in [Entity -> [Value -> 0..MaxSame]]
          /\ metaTasks' \in 0..MaxSame
      BY <1>11, NoTasksType DEF Unload, CancelTasks
    <2> QED BY <1>11, <2>1 DEF Unload, TypeOK, broker
  <1>12. CASE Restart
    <2>1. /\ asleep' \in [Entity -> [Value -> 0..MaxSame]]
          /\ announced' \in [Entity -> [Value -> 0..MaxSame]]
          /\ metaTasks' \in 0..MaxSame
      BY <1>12, NoTasksType DEF Restart
    <2>2. withdraw' \in [Job -> [todo : SUBSET Entity, half : Entity \cup {None}]]
      BY <1>12, DoneType DEF Restart
    <2> QED BY <1>12, <2>1, <2>2 DEF Restart, TypeOK, broker
  <1>13. ASSUME NEW j \in Job, NEW e \in Entity, WithdrawDiscovery(j, e)
         PROVE  TypeOK'
    BY <1>13 DEF WithdrawDiscovery, TypeOK, tasks
  <1>14. ASSUME NEW j \in Job, WithdrawState(j)
         PROVE  TypeOK'
    <2>1. withdraw[j].half \in Entity
      BY <1>14 DEF WithdrawState, TypeOK
    <2> QED BY <1>14, <2>1, Topics DEF WithdrawState, TypeOK, tasks
  <1>15. ASSUME NEW new \in SUBSET Entity, SubmitOptions(new)
         PROVE  TypeOK'
    BY <1>15 DEF SubmitOptions, Accepted, DroppedBy, TypeOK, tasks, broker
  <1>16. CASE SaveOptions
    BY <1>16 DEF SaveOptions, TypeOK, tasks, broker
  <1>17. CASE OptionsFail
    BY <1>17, DoneType DEF OptionsFail, TypeOK, tasks, broker
  <1>18. CASE RemoveEntry
    <2>1. /\ asleep' \in [Entity -> [Value -> 0..MaxSame]]
          /\ announced' \in [Entity -> [Value -> 0..MaxSame]]
          /\ metaTasks' \in 0..MaxSame
      BY <1>18, NoTasksType DEF RemoveEntry, CancelTasks
    <2> QED BY <1>18, <2>1 DEF RemoveEntry, TypeOK, broker
  <1>19. CASE FinishRemoval
    BY <1>19 DEF FinishRemoval, TypeOK, tasks, broker
  <1>20. CASE UNCHANGED vars
    BY <1>20 DEF vars, TypeOK, tasks, broker
  <1>21. CASE SetupFails
    BY <1>21 DEF SetupFails, TypeOK, tasks, broker
  <1>22. CASE RemovalFails
    BY <1>22, DoneType DEF RemovalFails, TypeOK, tasks, broker
  <1>23. CASE MetadataFails
    <2>1. metaTasks' \in 0..MaxSame
      BY <1>23, Bound DEF MetadataFails, TypeOK
    <2> QED BY <1>23, <2>1 DEF MetadataFails, TypeOK, broker
  <1>24. CASE UnloadFails
    BY <1>24 DEF UnloadFails, TypeOK, tasks, broker
  <1> QED
    BY <1>1, <1>2, <1>3, <1>4, <1>5, <1>6, <1>7, <1>8, <1>9, <1>10, <1>11, <1>12,
       <1>13, <1>14, <1>15, <1>16, <1>17, <1>18, <1>19, <1>20, <1>21,
       <1>22, <1>23, <1>24 DEF Next

\* The initial states are typed.
LEMMA TypeInit == Init => TypeOK
  <1> SUFFICES ASSUME Init PROVE TypeOK
    OBVIOUS
  <1>1. TopicsOf(config) \subseteq Topic
    BY Topics DEF Init, TopicsOf
  <1>2. /\ asleep \in [Entity -> [Value -> 0..MaxSame]]
        /\ announced \in [Entity -> [Value -> 0..MaxSame]]
        /\ metaTasks \in 0..MaxSame
    BY NoTasksType DEF Init
  <1>3. withdraw \in [Job -> [todo : SUBSET Entity, half : Entity \cup {None}]]
    BY DoneType DEF Init
  <1> QED BY <1>1, <1>2, <1>3 DEF Init, TypeOK, Stages, Gone

\* Every variable of the publisher keeps its type in every reachable state:
\* the scheduler, the flow and the lifecycle of the entry never confuse them.
THEOREM TypeCorrect == Spec => []TypeOK
  BY TypeInit, TypeStep, PTL DEF Spec

(***************************************************************************)
(* Tasks belong to the session                                             *)
(***************************************************************************)

\* Republishing schedules tasks for the session only.
LEMMA RepublishOwn ==
  ASSUME TypeOK, RepublishAll
  PROVE  \A e \in Entity \ session, v \in Value : asleep'[e][v] = asleep[e][v]
  BY ScheduleEffect DEF RepublishAll, Republished

\* No task at all is in particular no task of a stranger.
LEMMA CancelledOwn ==
  ASSUME asleep' = NoTasks, announced' = NoTasks, metaTasks' = 0
  PROVE  TasksOfSession'
  BY DEF TasksOfSession, NoTasks

\* Every step keeps the tasks with the session.
LEMMA TasksStep == TypeOK /\ TasksOfSession /\ [Next]_vars => TasksOfSession'
  <1> SUFFICES ASSUME TypeOK, TasksOfSession, [Next]_vars PROVE TasksOfSession'
    OBVIOUS
  <1> DEFINE Strangers ==
               \A e \in Entity \ session, v \in Value :
                 asleep[e][v] = 0 /\ announced[e][v] = 0
  <1>0. Strangers
    BY DEF TasksOfSession
  <1>1. CASE Republish
    BY <1>1, RepublishOwn DEF Republish, TasksOfSession, Tracking
  <1>2. ASSUME NEW e \in Entity, NEW v \in Value \cup {None}, StateChange(e, v)
        PROVE  TasksOfSession'
    <2>1. CASE Tracking /\ e \in session
      <3>1. \A d \in Entity \ session, w \in Value : asleep'[d][w] = asleep[d][w]
        BY <1>2, <2>1, ScheduleEffect DEF StateChange
      <3> QED BY <1>2, <2>1, <3>1 DEF StateChange, TasksOfSession, Tracking
    <2>2. CASE ~(Tracking /\ e \in session)
      <3>1. asleep' = asleep
        BY <1>2, <2>2, ScheduleNobody DEF StateChange
      <3> QED BY <1>2, <3>1 DEF StateChange, TasksOfSession, Tracking
    <2> QED BY <2>1, <2>2
  <1>3. ASSUME NEW e \in Entity, NEW v \in Value, PublishDiscovery(e, v)
        PROVE  TasksOfSession'
    <2>1. asleep[e][v] # 0
      BY <1>3 DEF PublishDiscovery
    <2>2. e \in session /\ Tracking
      BY <2>1 DEF TasksOfSession, NoTasks
    <2>3. \A d \in Entity \ {e} : asleep'[d] = asleep[d] /\ announced'[d] = announced[d]
      BY <1>3, TaskCount, CounterWrite DEF PublishDiscovery, TypeOK
    <2> QED BY <1>3, <2>2, <2>3 DEF PublishDiscovery, TasksOfSession, Tracking
  <1>4. ASSUME NEW e \in Entity, NEW v \in Value, PublishState(e, v)
        PROVE  TasksOfSession'
    <2>1. announced[e][v] # 0
      BY <1>4 DEF PublishState
    <2>2. e \in session /\ Tracking
      BY <2>1 DEF TasksOfSession, NoTasks
    <2>3. \A d \in Entity \ {e} : announced'[d] = announced[d]
      BY <1>4, TaskCount, CounterWrite DEF PublishState, TypeOK
    <2> QED BY <1>4, <2>2, <2>3 DEF PublishState, TasksOfSession, Tracking
  <1>5. ASSUME NEW e \in Entity, NEW v \in Value, PublishFails(e, v)
        PROVE  TasksOfSession'
    <2>1. asleep[e][v] # 0 \/ announced[e][v] # 0
      BY <1>5 DEF PublishFails
    <2>2. e \in session /\ Tracking
      BY <2>1 DEF TasksOfSession, NoTasks
    <2>3. \A d \in Entity \ {e} : asleep'[d] = asleep[d] /\ announced'[d] = announced[d]
      <3>1. CASE asleep[e][v] > 0 /\ asleep' = [asleep EXCEPT ![e][v] = @ - 1]
                   /\ UNCHANGED announced
        BY <3>1, TaskCount, CounterWrite DEF TypeOK
      <3>2. CASE announced[e][v] > 0 /\ announced' = [announced EXCEPT ![e][v] = @ - 1]
                   /\ UNCHANGED asleep
        BY <3>2, TaskCount, CounterWrite DEF TypeOK
      <3> QED BY <1>5, <3>1, <3>2 DEF PublishFails
    <2> QED BY <1>5, <2>2, <2>3 DEF PublishFails, TasksOfSession, Tracking
  <1>6. CASE PublishMetadata
    BY <1>6 DEF PublishMetadata, TasksOfSession, Tracking
  <1>7. CASE StartSetup
    <2>1. asleep = NoTasks /\ announced = NoTasks /\ metaTasks = 0
      BY <1>7 DEF StartSetup, TasksOfSession, Tracking
    <2> QED BY <1>7, <2>1, CancelledOwn DEF StartSetup, tasks
  <1>8. ASSUME NEW e \in Entity, ClearRetainedState(e)
        PROVE  TasksOfSession'
    BY <1>8 DEF ClearRetainedState, TasksOfSession, Tracking, tasks
  <1>9. CASE StartTracking
    BY <1>9 DEF StartTracking, TasksOfSession, Tracking, tasks
  <1>10. CASE FinishSetup
    BY <1>10, RepublishOwn DEF FinishSetup, TasksOfSession, Tracking
  <1>11. CASE Unload
    BY <1>11, CancelledOwn DEF Unload, CancelTasks
  <1>12. CASE Restart
    BY <1>12, CancelledOwn DEF Restart
  <1>13. ASSUME NEW j \in Job, NEW e \in Entity, WithdrawDiscovery(j, e)
         PROVE  TasksOfSession'
    BY <1>13 DEF WithdrawDiscovery, TasksOfSession, Tracking, tasks
  <1>14. ASSUME NEW j \in Job, WithdrawState(j)
         PROVE  TasksOfSession'
    BY <1>14 DEF WithdrawState, TasksOfSession, Tracking, tasks
  <1>15. ASSUME NEW new \in SUBSET Entity, SubmitOptions(new)
         PROVE  TasksOfSession'
    BY <1>15 DEF SubmitOptions, TasksOfSession, Tracking, tasks
  <1>16. CASE SaveOptions
    BY <1>16 DEF SaveOptions, TasksOfSession, Tracking, tasks
  <1>17. CASE OptionsFail
    BY <1>17 DEF OptionsFail, TasksOfSession, Tracking, tasks
  <1>18. CASE RemoveEntry
    BY <1>18, CancelledOwn DEF RemoveEntry, CancelTasks
  <1>19. CASE FinishRemoval
    BY <1>19 DEF FinishRemoval, TasksOfSession, Tracking, tasks
  <1>20. CASE UNCHANGED vars
    BY <1>20 DEF vars, TasksOfSession, Tracking, tasks
  <1>21. CASE SetupFails
    BY <1>21 DEF SetupFails, TasksOfSession, Tracking, tasks
  <1>22. CASE RemovalFails
    BY <1>22 DEF RemovalFails, TasksOfSession, Tracking, tasks
  <1>23. CASE MetadataFails
    BY <1>23 DEF MetadataFails, TasksOfSession, Tracking
  <1>24. CASE UnloadFails
    BY <1>24 DEF UnloadFails, TasksOfSession, Tracking, tasks
  <1> QED
    BY <1>1, <1>2, <1>3, <1>4, <1>5, <1>6, <1>7, <1>8, <1>9, <1>10, <1>11, <1>12,
       <1>13, <1>14, <1>15, <1>16, <1>17, <1>18, <1>19, <1>20, <1>21,
       <1>22, <1>23, <1>24 DEF Next

\* Tasks are the session's from the start.
LEMMA TasksInit == Init => TasksOfSession
  BY DEF Init, TasksOfSession, NoTasks

\* In every reachable state, tasks are the session's.
LEMMA TasksAlways == Spec => [](TypeOK /\ TasksOfSession)
  BY TypeInit, TasksInit, TypeStep, TasksStep, PTL DEF Spec

\* A step outside tracking announces nothing and sends no value.
LEMMA SilentStep ==
  ASSUME TypeOK, TasksOfSession, [Next]_vars, ~Tracking
  PROVE  /\ retained' \subseteq retained
         /\ \A t \in Topic : last'[t] \in {None, last[t]}
  <1>0. \A e \in Entity, v \in Value : asleep[e][v] = 0 /\ announced[e][v] = 0
    BY DEF TasksOfSession, NoTasks
  <1>1. CASE UNCHANGED broker
    BY <1>1 DEF broker
  <1>2. CASE \E e \in Entity : ClearRetainedState(e)
    BY <1>2 DEF ClearRetainedState, TypeOK
  <1>3. CASE \E j \in Job, e \in Entity : WithdrawDiscovery(j, e)
    BY <1>3 DEF WithdrawDiscovery, TypeOK
  <1>4. CASE \E j \in Job : WithdrawState(j)
    BY <1>4 DEF WithdrawState, TypeOK
  <1>5. CASE \E e \in Entity, v \in Value : PublishDiscovery(e, v)
    BY <1>5, <1>0 DEF PublishDiscovery
  <1>6. CASE \E e \in Entity, v \in Value : PublishState(e, v)
    BY <1>6, <1>0 DEF PublishState
  <1>7. CASE PublishMetadata
    BY <1>7 DEF PublishMetadata
  <1>8. CASE UNCHANGED vars
    BY <1>8, <1>1 DEF vars
  <1> QED
    BY <1>1, <1>2, <1>3, <1>4, <1>5, <1>6, <1>7, <1>8
       DEF Next, Republish, StateChange, PublishFails, StartSetup, StartTracking,
           FinishSetup, Unload, UnloadFails, Restart, SubmitOptions, SaveOptions,
           OptionsFail, RemoveEntry, FinishRemoval, SetupFails, RemovalFails,
           MetadataFails

\* No publish task outlives the unload of the entry (_cancel_pending_tasks),
\* and none is created before its listeners are up.
THEOREM UnloadedIsSilent == Spec => SilentWhenUnloaded
  <1>1. TypeOK /\ TasksOfSession /\ [Next]_vars =>
          [~Tracking => /\ retained' \subseteq retained
                        /\ \A t \in Topic : last'[t] \in {None, last[t]}]_vars
    BY SilentStep
  <1> QED BY <1>1, TasksAlways, PTL DEF Spec, SilentWhenUnloaded

(***************************************************************************)
(* Cleanup precedes fresh values                                           *)
(***************************************************************************)

\* A session in which nothing moves but tasks and the peers' view.
LEMMA StaleFrame ==
  ASSUME StaleCleared, UNCHANGED <<stage, session, clearing>>, stale' \subseteq stale
  PROVE  StaleCleared'
  BY DEF StaleCleared, Tracking

\* Every step keeps what is stale within what setup has still to clear.
LEMMA StaleStep == TypeOK /\ StaleCleared /\ [Next]_vars => StaleCleared'
  <1> SUFFICES ASSUME TypeOK, StaleCleared, [Next]_vars PROVE StaleCleared'
    OBVIOUS
  <1>1. CASE Republish
    BY <1>1, StaleFrame DEF Republish, broker
  <1>2. ASSUME NEW e \in Entity, NEW v \in Value \cup {None}, StateChange(e, v)
        PROVE  StaleCleared'
    BY <1>2, StaleFrame DEF StateChange, broker
  <1>3. ASSUME NEW e \in Entity, NEW v \in Value, PublishDiscovery(e, v)
        PROVE  StaleCleared'
    BY <1>3, StaleFrame DEF PublishDiscovery
  <1>4. ASSUME NEW e \in Entity, NEW v \in Value, PublishState(e, v)
        PROVE  StaleCleared'
    BY <1>4, StaleFrame DEF PublishState
  <1>5. ASSUME NEW e \in Entity, NEW v \in Value, PublishFails(e, v)
        PROVE  StaleCleared'
    BY <1>5, StaleFrame DEF PublishFails, broker
  <1>6. CASE PublishMetadata
    BY <1>6, StaleFrame DEF PublishMetadata
  <1>7. CASE StartSetup
    BY <1>7 DEF StartSetup, StaleCleared, Tracking
  <1>8. ASSUME NEW e \in Entity, ClearRetainedState(e)
        PROVE  StaleCleared'
    <2>1. TopicsOf(clearing) \ {TopicOf[e]} \subseteq TopicsOf(clearing')
      BY <1>8 DEF ClearRetainedState, TopicsOf
    <2> QED BY <1>8, <2>1 DEF ClearRetainedState, StaleCleared, Tracking
  <1>9. CASE StartTracking
    <2>1. TopicsOf(clearing) = {}
      BY <1>9 DEF StartTracking, AllCleared, TopicsOf
    <2> QED BY <1>9, <2>1 DEF StartTracking, StaleCleared, Tracking, broker
  <1>10. CASE FinishSetup
    BY <1>10 DEF FinishSetup, StaleCleared, Tracking, broker
  <1>11. CASE Unload
    BY <1>11 DEF Unload, StaleCleared, Tracking
  <1>12. CASE Restart
    BY <1>12 DEF Restart, StaleCleared, Tracking
  <1>13. ASSUME NEW j \in Job, NEW e \in Entity, WithdrawDiscovery(j, e)
         PROVE  StaleCleared'
    BY <1>13, StaleFrame DEF WithdrawDiscovery
  <1>14. ASSUME NEW j \in Job, WithdrawState(j)
         PROVE  StaleCleared'
    BY <1>14, StaleFrame DEF WithdrawState
  <1>15. ASSUME NEW new \in SUBSET Entity, SubmitOptions(new)
         PROVE  StaleCleared'
    BY <1>15, StaleFrame DEF SubmitOptions, broker
  <1>16. CASE SaveOptions
    BY <1>16, StaleFrame DEF SaveOptions, broker
  <1>17. CASE OptionsFail
    BY <1>17, StaleFrame DEF OptionsFail, broker
  <1>18. CASE RemoveEntry
    BY <1>18 DEF RemoveEntry, StaleCleared, Tracking
  <1>19. CASE FinishRemoval
    BY <1>19 DEF FinishRemoval, StaleCleared, Tracking
  <1>20. CASE UNCHANGED vars
    BY <1>20, StaleFrame DEF vars, broker
  <1>21. CASE SetupFails
    BY <1>21 DEF SetupFails, StaleCleared, Tracking
  <1>22. CASE RemovalFails
    BY <1>22 DEF RemovalFails, StaleCleared, Tracking
  <1>23. CASE MetadataFails
    BY <1>23, StaleFrame DEF MetadataFails, broker
  <1>24. CASE UnloadFails
    BY <1>24 DEF UnloadFails, StaleCleared, Tracking, broker
  <1> QED
    BY <1>1, <1>2, <1>3, <1>4, <1>5, <1>6, <1>7, <1>8, <1>9, <1>10, <1>11, <1>12,
       <1>13, <1>14, <1>15, <1>16, <1>17, <1>18, <1>19, <1>20, <1>21,
       <1>22, <1>23, <1>24 DEF Next

\* A step that sends a value sends it on a topic of the session, while the
\* scheduler tracks.
LEMMA SendStep ==
  ASSUME TypeOK, TasksOfSession, [Next]_vars, NEW t \in Topic,
         last'[t] \notin {None, last[t]}
  PROVE  Tracking /\ t \in TopicsOf(session)
  <1>0. \A e \in Entity, v \in Value : announced[e][v] # 0 => e \in session
    BY DEF TasksOfSession
  <1>1. PICK e \in Entity, v \in Value : PublishState(e, v)
    <2>1. ~UNCHANGED last
      OBVIOUS
    <2>2. ASSUME NEW e \in Entity, ClearRetainedState(e) PROVE FALSE
      BY <2>2 DEF ClearRetainedState, TypeOK
    <2>3. ASSUME NEW j \in Job, WithdrawState(j) PROVE FALSE
      BY <2>3 DEF WithdrawState, TypeOK
    <2> QED
      BY <2>1, <2>2, <2>3
         DEF Next, vars, broker, Republish, StateChange, PublishDiscovery,
             PublishFails, PublishMetadata, MetadataFails, StartSetup, StartTracking,
             FinishSetup, Unload, UnloadFails, Restart, WithdrawDiscovery, SubmitOptions,
             SaveOptions, OptionsFail, RemoveEntry, FinishRemoval, SetupFails, RemovalFails
  <1>2. announced[e][v] # 0
    BY <1>1 DEF PublishState
  <1>3. e \in session
    BY <1>0, <1>2
  <1>4. t = TopicOf[e]
    BY <1>1, Topics DEF PublishState, TypeOK
  <1>5. Tracking
    BY SilentStep
  <1> QED BY <1>3, <1>4, <1>5 DEF TopicsOf, TypeOK

\* No state value is published on a topic that still retains one: the cleanup
\* of async_setup_entry is complete before the scheduler's listeners are up.
THEOREM CleanupFirst == Spec => CleanupPrecedes
  <1> DEFINE Inv == TypeOK /\ TasksOfSession /\ StaleCleared
  <1>1. Init => Inv
    BY TypeInit, TasksInit DEF Init, StaleCleared, Tracking
  <1>2. Inv /\ [Next]_vars => Inv'
    BY TypeStep, TasksStep, StaleStep
  <1>3. Inv /\ [Next]_vars =>
          [\A t \in Topic : last'[t] \notin {None, last[t]} => t \notin stale]_vars
    <2> SUFFICES ASSUME Inv, [Next]_vars, NEW t \in Topic,
                        last'[t] \notin {None, last[t]}
                 PROVE  t \notin stale
      OBVIOUS
    <2>1. Tracking /\ t \in TopicsOf(session)
      BY SendStep
    <2> QED BY <2>1 DEF StaleCleared
  <1> QED BY <1>1, <1>2, <1>3, PTL DEF Spec, CleanupPrecedes

(***************************************************************************)
(* Removal leaves nothing behind                                           *)
(***************************************************************************)

\* Topics of a subset are among the topics of the set.
LEMMA TopicsMonotone ==
  ASSUME NEW E, NEW F, E \subseteq F
  PROVE  TopicsOf(E) \subseteq TopicsOf(F)
  BY DEF TopicsOf

\* The part of the invariant the removal ends in.
Removable == Accounted /\ RemovedIsClean

\* Nothing that the account speaks of moves, or the broker retains less.
LEMMA AccountFrame ==
  ASSUME Removable,
         UNCHANGED <<stage, runtime, config, session, proposed, withdraw>>,
         retained' \subseteq retained, stale' \subseteq stale
  PROVE  Removable'
  BY DEF Removable, Accounted, RemovedIsClean

\* The same when the stage moves without a removal starting or ending.
LEMMA AccountStage ==
  ASSUME Removable, UNCHANGED <<config, proposed, withdraw, retained, stale>>,
         session' \subseteq config, stage # "removing",
         stage' \notin {"removing", "removed"}
  PROVE  Removable'
  BY DEF Removable, Accounted, RemovedIsClean

\* Every step of an entry that drops no entity keeps the account.
LEMMA AccountStep ==
  ASSUME CanDrop = FALSE
  PROVE  TypeOK /\ TasksOfSession /\ Removable /\ [Next]_vars => Removable'
  <1> SUFFICES ASSUME TypeOK, TasksOfSession, Removable, [Next]_vars PROVE Removable'
    OBVIOUS
  <1>1. CASE Republish
    BY <1>1, AccountFrame DEF Republish, broker
  <1>2. ASSUME NEW e \in Entity, NEW v \in Value \cup {None}, StateChange(e, v)
        PROVE  Removable'
    BY <1>2, AccountFrame DEF StateChange, broker
  <1>3. ASSUME NEW e \in Entity, NEW v \in Value, PublishDiscovery(e, v)
        PROVE  Removable'
    <2>1. asleep[e][v] # 0
      BY <1>3 DEF PublishDiscovery
    <2>2. e \in session /\ Tracking
      BY <2>1 DEF TasksOfSession, NoTasks
    <2>3. TopicOf[e] \in TopicsOf(config)
      BY <2>2 DEF Removable, Accounted, TopicsOf
    <2> QED
      BY <1>3, <2>2, <2>3
         DEF PublishDiscovery, Removable, Accounted, RemovedIsClean, Tracking
  <1>4. ASSUME NEW e \in Entity, NEW v \in Value, PublishState(e, v)
        PROVE  Removable'
    BY <1>4, AccountFrame DEF PublishState
  <1>5. ASSUME NEW e \in Entity, NEW v \in Value, PublishFails(e, v)
        PROVE  Removable'
    BY <1>5, AccountFrame DEF PublishFails, broker
  <1>6. CASE PublishMetadata
    BY <1>6, AccountFrame DEF PublishMetadata
  <1>7. CASE StartSetup
    BY <1>7, AccountStage DEF StartSetup, broker
  <1>8. ASSUME NEW e \in Entity, ClearRetainedState(e)
        PROVE  Removable'
    BY <1>8, AccountFrame DEF ClearRetainedState
  <1>9. CASE StartTracking
    BY <1>9, AccountStage DEF StartTracking, broker, Removable, Accounted
  <1>10. CASE FinishSetup
    BY <1>10, AccountStage DEF FinishSetup, broker, Removable, Accounted
  <1>11. CASE Unload
    BY <1>11, AccountStage DEF Unload, broker, Removable, Accounted
  <1>12. CASE Restart
    BY <1>12, DoneType DEF Restart, broker, Removable, Accounted, RemovedIsClean, Job
  <1>13. ASSUME NEW j \in Job, NEW e \in Entity, WithdrawDiscovery(j, e)
         PROVE  Removable'
    <2>1. j = "remove" /\ stage = "removing"
      BY <1>13 DEF WithdrawDiscovery, Removable, Accounted, Done, Job
    <2> DEFINE left == withdraw["remove"]
    <2>2. /\ withdraw'["flow"] = withdraw["flow"]
          /\ withdraw'["remove"] = [todo |-> left.todo \ {e}, half |-> e]
      BY <1>13, <2>1 DEF WithdrawDiscovery, TypeOK, Job
    <2>3. TopicsOf(left.todo) \subseteq TopicsOf(left.todo \ {e}) \cup {TopicOf[e]}
      BY DEF TopicsOf
    <2>4. left.half = None
      BY <1>13, <2>1 DEF WithdrawDiscovery
    <2>5. Entity \cap {None} = {}
      BY Sorts
    <2>6. runtime => retained' \subseteq TopicsOf(left.todo \ {e})
      BY <1>13, <2>1, <2>3 DEF WithdrawDiscovery, Removable, Accounted
    <2>7. runtime => stale \cap TopicsOf(config)
                       \subseteq TopicsOf(left.todo \ {e}) \cup {TopicOf[e]}
      BY <2>1, <2>3, <2>4, <2>5 DEF Removable, Accounted
    <2>8. {TopicOf[d] : d \in Entity \cap {e}} = {TopicOf[e]}
      OBVIOUS
    <2>9. UNCHANGED <<stage, runtime, config, session, proposed, stale>>
      BY <1>13 DEF WithdrawDiscovery
    <2>10. withdraw'["remove"].todo = left.todo \ {e} /\ withdraw'["remove"].half = e
      BY <2>2
    <2>11. retained' \subseteq TopicsOf(config')
      BY <1>13, <2>9 DEF WithdrawDiscovery, Removable, Accounted
    <2> HIDE DEF left
    <2>12. Accounted'
      BY <2>1, <2>2, <2>6, <2>7, <2>8, <2>9, <2>10, <2>11 DEF Removable, Accounted
    <2> QED BY <2>1, <2>9, <2>12 DEF Removable, RemovedIsClean
  <1>14. ASSUME NEW j \in Job, WithdrawState(j)
         PROVE  Removable'
    <2>1. j = "remove" /\ stage = "removing"
      BY <1>14 DEF WithdrawState, Removable, Accounted, Done, Job
    <2> DEFINE left == withdraw["remove"]
    <2>2. left.half \in Entity
      BY <1>14, <2>1 DEF WithdrawState, TypeOK, Job
    <2>3. /\ withdraw'["flow"] = withdraw["flow"]
          /\ withdraw'["remove"].todo = left.todo
          /\ withdraw'["remove"].half = None
      BY <1>14, <2>1 DEF WithdrawState, TypeOK, Job
    <2>4. stale' = stale \ {TopicOf[left.half]}
      BY <1>14, <2>1 DEF WithdrawState
    <2>5. {TopicOf[d] : d \in Entity \cap {left.half}} = {TopicOf[left.half]}
      BY <2>2
    <2>6. runtime => stale' \cap TopicsOf(config) \subseteq TopicsOf(left.todo)
      BY <2>1, <2>4, <2>5 DEF Removable, Accounted
    <2> QED
      BY <1>14, <2>1, <2>3, <2>6
         DEF WithdrawState, Removable, Accounted, RemovedIsClean
  <1>15. ASSUME NEW new \in SUBSET Entity, SubmitOptions(new)
         PROVE  Removable'
    <2>1. config \subseteq new
      BY <1>15 DEF SubmitOptions
    <2>2. DroppedBy(new) = {}
      BY <2>1 DEF DroppedBy
    <2>3. /\ withdraw'["flow"] = Done
          /\ withdraw'["remove"] = withdraw["remove"]
      BY <1>15, <2>2 DEF SubmitOptions, Done, TypeOK, Job
    <2> QED
      BY <1>15, <2>1, <2>3 DEF SubmitOptions, broker, Removable, Accounted, RemovedIsClean
  <1>16. CASE SaveOptions
    <2>1. CASE stage \in Gone
      BY <1>16, <2>1 DEF SaveOptions, broker, Removable, Accounted, RemovedIsClean
    <2>2. CASE stage \notin Gone
      <3>1. config' = proposed /\ config \subseteq proposed
        BY <1>16, <2>2 DEF SaveOptions, Removable, Accounted
      <3>2. TopicsOf(config) \subseteq TopicsOf(config')
        BY <3>1, TopicsMonotone
      <3> QED
        BY <1>16, <2>2, <3>1, <3>2
           DEF SaveOptions, broker, Removable, Accounted, RemovedIsClean, Gone
    <2> QED BY <2>1, <2>2
  <1>17. CASE OptionsFail
    BY <1>17 DEF OptionsFail, Removable, Accounted
  <1>18. CASE RemoveEntry
    <2>1. /\ withdraw'["flow"] = withdraw["flow"]
          /\ withdraw'["remove"].todo = (IF runtime THEN config ELSE {})
      BY <1>18 DEF RemoveEntry, TypeOK, Job
    <2> QED
      BY <1>18, <2>1 DEF RemoveEntry, broker, Removable, Accounted, RemovedIsClean
  <1>19. CASE FinishRemoval
    <2>1. TopicsOf({}) = {} /\ {TopicOf[e] : e \in Entity \cap {None}} = {}
      BY Sorts DEF TopicsOf
    <2>2. withdraw["remove"].todo = {} /\ withdraw["remove"].half = None
      BY <1>19 DEF FinishRemoval, Done
    <2>3. runtime => retained = {} /\ stale \cap TopicsOf(config) = {}
      BY <1>19, <2>1, <2>2 DEF FinishRemoval, Removable, Accounted
    <2> QED
      BY <1>19, <2>3 DEF FinishRemoval, broker, Removable, Accounted, RemovedIsClean
  <1>20. CASE UNCHANGED vars
    BY <1>20, AccountFrame DEF vars, broker
  <1>21. CASE SetupFails
    BY <1>21, AccountStage DEF SetupFails, broker, Removable, Accounted
  <1>22. CASE RemovalFails
    <2>1. /\ withdraw'["flow"] = withdraw["flow"]
          /\ withdraw'["remove"] = Done
      BY <1>22 DEF RemovalFails, TypeOK, Job
    <2> QED
      BY <1>22, <2>1 DEF RemovalFails, broker, Removable, Accounted, RemovedIsClean
  <1>23. CASE MetadataFails
    BY <1>23, AccountFrame DEF MetadataFails, broker
  <1>24. CASE UnloadFails
    BY <1>24, AccountStage DEF UnloadFails, broker, Removable, Accounted
  <1> QED
    BY <1>1, <1>2, <1>3, <1>4, <1>5, <1>6, <1>7, <1>8, <1>9, <1>10, <1>11, <1>12,
       <1>13, <1>14, <1>15, <1>16, <1>17, <1>18, <1>19, <1>20, <1>21,
       <1>22, <1>23, <1>24 DEF Next

\* Removing an entry whose entities were only ever added to leaves nothing of
\* it retained, whatever failed, was pending or was half done before.
THEOREM RemovalCleans ==
  ASSUME CanDrop = FALSE
  PROVE  Spec => []RemovedIsClean
  <1> DEFINE Inv == TypeOK /\ TasksOfSession /\ Removable
  <1>1. Init => Inv
    BY TypeInit, TasksInit DEF Init, Removable, Accounted, RemovedIsClean, Job
  <1>2. Inv /\ [Next]_vars => Inv'
    BY TypeStep, TasksStep, AccountStep
  <1>3. Inv => RemovedIsClean
    BY DEF Removable
  <1> QED BY <1>1, <1>2, <1>3, PTL DEF Spec

(***************************************************************************)
(* Dropped entities are withdrawn                                          *)
(***************************************************************************)

\* Options are submitted only to a loaded entry, while nothing is pending.
Calmly == Calm = TRUE /\ Submittable \subseteq {"loaded"}

\* Topics of a union are the topics of its parts.
LEMMA TopicsOfUnion ==
  ASSUME NEW E, NEW F
  PROVE  TopicsOf(E \cup F) = TopicsOf(E) \cup TopicsOf(F)
  BY DEF TopicsOf

\* Nothing the account speaks of moves, or the broker retains less.
LEMMA AccountedFrame ==
  ASSUME AccountedFor, retained' \subseteq retained, asleep' = asleep,
         UNCHANGED <<stage, runtime, config, session, proposed, reload>>,
         withdraw'["flow"].todo = withdraw["flow"].todo
  PROVE  AccountedFor'
  BY DEF AccountedFor, Tracking, Reconfiguring

\* While the options are submitted nothing happens that could schedule a task.
LEMMA AccountedTasks ==
  ASSUME AccountedFor, ~Reconfiguring,
         UNCHANGED <<stage, runtime, config, session, proposed, reload, withdraw, retained>>
  PROVE  AccountedFor'
  BY DEF AccountedFor, Tracking, Reconfiguring

\* Every calm step keeps the account.
LEMMA AccountedStep ==
  ASSUME Calmly
  PROVE  TypeOK /\ TasksOfSession /\ AccountedFor /\ [Next]_vars => AccountedFor'
  <1> SUFFICES ASSUME TypeOK, TasksOfSession, AccountedFor, [Next]_vars
               PROVE  AccountedFor'
    OBVIOUS
  <1>1. CASE Republish
    BY <1>1, AccountedTasks DEF Republish, broker, Undisturbed, Calmly
  <1>2. ASSUME NEW e \in Entity, NEW v \in Value \cup {None}, StateChange(e, v)
        PROVE  AccountedFor'
    BY <1>2, AccountedTasks DEF StateChange, broker, Undisturbed, Calmly
  <1>3. ASSUME NEW e \in Entity, NEW v \in Value, PublishDiscovery(e, v)
        PROVE  AccountedFor'
    <2>1. asleep[e][v] # 0
      BY <1>3 DEF PublishDiscovery
    <2>2. e \in session /\ Tracking /\ asleep # NoTasks
      BY <2>1 DEF TasksOfSession, NoTasks
    <2>3. ~Reconfiguring
      BY <2>2 DEF AccountedFor, Reconfiguring, Tracking, Gone
    <2>4. TopicOf[e] \in TopicsOf(config)
      BY <2>2, <2>3 DEF AccountedFor, Reconfiguring, Tracking, TopicsOf
    <2> QED
      BY <1>3, <2>3, <2>4 DEF PublishDiscovery, AccountedFor, Tracking, Reconfiguring
  <1>4. ASSUME NEW e \in Entity, NEW v \in Value, PublishState(e, v)
        PROVE  AccountedFor'
    BY <1>4, AccountedFrame DEF PublishState
  <1>5. ASSUME NEW e \in Entity, NEW v \in Value, PublishFails(e, v)
        PROVE  AccountedFor'
    <2>1. CASE asleep' = asleep
      BY <1>5, <2>1, AccountedFrame DEF PublishFails, broker
    <2>2. CASE asleep' # asleep
      <3>1. asleep[e][v] # 0
        BY <1>5, <2>2 DEF PublishFails
      <3>2. asleep # NoTasks /\ Tracking
        BY <3>1 DEF TasksOfSession, NoTasks
      <3>3. ~Reconfiguring
        BY <3>2 DEF AccountedFor, Reconfiguring, Tracking, Gone
      <3> QED BY <1>5, <3>3, AccountedTasks DEF PublishFails, broker
    <2> QED BY <2>1, <2>2
  <1>6. CASE PublishMetadata
    BY <1>6, AccountedFrame DEF PublishMetadata
  <1>7. CASE StartSetup
    BY <1>7 DEF StartSetup, broker, AccountedFor, Tracking, Reconfiguring, Gone
  <1>8. ASSUME NEW e \in Entity, ClearRetainedState(e)
        PROVE  AccountedFor'
    BY <1>8, AccountedFrame DEF ClearRetainedState, tasks
  <1>9. CASE StartTracking \/ SetupFails
    BY <1>9 DEF StartTracking, SetupFails, broker, tasks, AccountedFor, Tracking,
                Reconfiguring, Gone
  <1>10. CASE FinishSetup
    BY <1>10 DEF FinishSetup, broker, AccountedFor, Tracking, Reconfiguring, Gone
  <1>11. CASE Unload
    BY <1>11 DEF Unload, broker, AccountedFor, Tracking, Reconfiguring, Gone, Calmly
  <1>12. CASE Restart
    BY <1>12 DEF Restart, broker, AccountedFor, Tracking, Reconfiguring, Gone
  <1>13. ASSUME NEW j \in Job, NEW e \in Entity, WithdrawDiscovery(j, e)
         PROVE  AccountedFor'
    <2>1. CASE j = "remove"
      <3>1. withdraw'["flow"] = withdraw["flow"]
        BY <1>13, <2>1 DEF WithdrawDiscovery, TypeOK, Job
      <3> QED BY <1>13, <3>1, AccountedFrame DEF WithdrawDiscovery, tasks
    <2>2. CASE j = "flow"
      <3> DEFINE todo == withdraw["flow"].todo
      <3>1. withdraw'["flow"].todo = todo \ {e} /\ retained' = retained \ {TopicOf[e]}
        BY <1>13, <2>2 DEF WithdrawDiscovery, TypeOK, Job
      <3>2. TopicsOf(proposed \cup todo)
              \subseteq TopicsOf(proposed \cup (todo \ {e})) \cup {TopicOf[e]}
        BY DEF TopicsOf
      <3>3. UNCHANGED <<stage, runtime, config, session, proposed, reload, asleep>>
        BY <1>13 DEF WithdrawDiscovery, tasks
      <3> HIDE DEF todo
      <3> QED BY <3>1, <3>2, <3>3 DEF AccountedFor, Tracking, Reconfiguring, todo
    <2> QED BY <2>1, <2>2 DEF Job
  <1>14. ASSUME NEW j \in Job, WithdrawState(j)
         PROVE  AccountedFor'
    <2>1. withdraw'["flow"].todo = withdraw["flow"].todo
      BY <1>14 DEF WithdrawState, TypeOK, Job
    <2> QED BY <1>14, <2>1, AccountedFrame DEF WithdrawState, tasks
  <1>15. ASSUME NEW new \in SUBSET Entity, SubmitOptions(new)
         PROVE  AccountedFor'
    <2>1. stage = "loaded" /\ runtime /\ asleep = NoTasks
      BY <1>15 DEF SubmitOptions, Calmly, AccountedFor, Tracking
    <2>2. withdraw'["flow"].todo = config \ new
      BY <1>15, <2>1 DEF SubmitOptions, TypeOK, Job, DroppedBy
    <2>3. TopicsOf(config) \subseteq TopicsOf(new \cup (config \ new))
      BY TopicsMonotone
    <2> QED
      BY <1>15, <2>1, <2>2, <2>3
         DEF SubmitOptions, broker, tasks, AccountedFor, Tracking, Reconfiguring
  <1>16. CASE SaveOptions
    <2>1. CASE stage \in Gone
      BY <1>16, <2>1
         DEF SaveOptions, broker, tasks, AccountedFor, Tracking, Reconfiguring, Gone
    <2>2. CASE stage \notin Gone
      <3>1. stage = "loaded" /\ asleep = NoTasks
        BY <1>16, <2>2 DEF SaveOptions, AccountedFor, Tracking, Reconfiguring
      <3>2. retained \subseteq TopicsOf(proposed)
        <4>1. proposed \cup withdraw["flow"].todo = proposed
          BY <1>16 DEF SaveOptions, Done
        <4> QED BY <1>16, <2>2, <4>1 DEF SaveOptions, AccountedFor, Tracking
      <3> QED
        BY <1>16, <2>2, <3>1, <3>2
           DEF SaveOptions, broker, tasks, AccountedFor, Tracking, Reconfiguring
    <2> QED BY <2>1, <2>2
  <1>17. CASE OptionsFail
    BY <1>17 DEF OptionsFail, broker, tasks, AccountedFor, Tracking, Reconfiguring
  <1>18. CASE RemoveEntry
    BY <1>18 DEF RemoveEntry, broker, AccountedFor, Tracking, Reconfiguring, Gone
  <1>19. CASE FinishRemoval \/ RemovalFails
    BY <1>19 DEF FinishRemoval, RemovalFails, broker, tasks, AccountedFor, Tracking,
                Reconfiguring, Gone
  <1>20. CASE UNCHANGED vars
    BY <1>20, AccountedFrame DEF vars, broker, tasks
  <1>21. CASE MetadataFails
    BY <1>21, AccountedFrame DEF MetadataFails, broker
  <1>22. CASE UnloadFails
    BY <1>22 DEF UnloadFails, broker, tasks, AccountedFor, Reconfiguring, Undisturbed,
                 Calmly, Gone, Tracking
  <1> QED
    BY <1>1, <1>2, <1>3, <1>4, <1>5, <1>6, <1>7, <1>8, <1>9, <1>10, <1>11, <1>12,
       <1>13, <1>14, <1>15, <1>16, <1>17, <1>18, <1>19, <1>20, <1>21, <1>22 DEF Next

\* With options submitted calmly, a loaded entry retains discovery only for
\* entities it names, however many publishes, setups and flows failed before.
THEOREM DroppedAreWithdrawn ==
  ASSUME Calmly
  PROVE  Spec => []DroppedWithdrawn
  <1> DEFINE Inv == TypeOK /\ TasksOfSession /\ AccountedFor
  <1>1. Init => Inv
    BY TypeInit, TasksInit DEF Init, AccountedFor, Tracking, Reconfiguring
  <1>2. Inv /\ [Next]_vars => Inv'
    BY TypeStep, TasksStep, AccountedStep
  <1>3. Inv => DroppedWithdrawn
    BY DEF AccountedFor, Tracking, DroppedWithdrawn, Gone
  <1> QED BY <1>1, <1>2, <1>3, PTL DEF Spec
=============================================================================
