-------------------------- MODULE PortLifecycleProofs --------------------------
(***************************************************************************)
(* Every behaviour of PortLifecycle is one of FreeRtosPort: the port that  *)
(* starts after any number of failed attempts is the one the theorems of   *)
(* FreeRtosPortProofs speak of.                                            *)
(***************************************************************************)
EXTENDS PortLifecycle, FreeRtosPortProofs

\* Until the scheduler runs, the tasks are where they begin and nothing of
\* theirs has changed; the tasks that exist are the first rows of the table.
Rows(n) == {TaskTable[i] : i \in 1..n}

Unstarted ==
    /\ pc = [t \in Task |-> CASE t = "sensor_acquire" -> "poll"
                              [] t = "env_process"    -> "drain"
                              [] t = "communication"  -> "ingress"
                              [] t = "alarm_output"   -> "receive"]
    /\ \E n \in 0..4 : /\ task_handles = Rows(n)
                       /\ ready = ReadyAfter(n)
                       /\ creating \in 0..(n + 1) /\ creating <= 4

LifecycleInv ==
    /\ scheduler \in BOOLEAN
    /\ ~ scheduler => Unstarted
    /\ scheduler => task_handles = Rows(4) /\ creating \in 0..4

-------------------------------------------------------------------------------
\* Each row adds its task to the lists of the rows before it.
LEMMA NextRowReady ==
    ASSUME NEW n \in 0..3
    PROVE  /\ ReadyAfter(n + 1) = AddToReady(ReadyAfter(n), TaskTable[n + 1])
           /\ Rows(n + 1) = Rows(n) \cup {TaskTable[n + 1]}
           /\ TaskTable[n + 1] \notin Rows(n)
<1>1. /\ ReadyAfter(0 + 1) = AddToReady(ReadyAfter(0), TaskTable[1])
      /\ ReadyAfter(1 + 1) = AddToReady(ReadyAfter(1), TaskTable[2])
      /\ ReadyAfter(2 + 1) = AddToReady(ReadyAfter(2), TaskTable[3])
      /\ ReadyAfter(3 + 1) = AddToReady(ReadyAfter(3), TaskTable[4])
    BY DEF ReadyAfter
<1>2. Rows(n + 1) = Rows(n) \cup {TaskTable[n + 1]}
    BY DEF Rows
<1>3. TaskTable[n + 1] \notin Rows(n)
    BY DEF Rows, TaskTable
<1>4. n = 0 \/ n = 1 \/ n = 2 \/ n = 3
    OBVIOUS
<1> QED
    BY <1>1, <1>2, <1>3, <1>4

\* The rows of the table are the tasks, and a task before row n + 1 exists.
LEMMA RowsOfTable ==
    /\ Rows(0) = {}
    /\ Task = Rows(4)
    /\ \A n \in 0..4 : \A i \in 1..4 : TaskTable[i] \in Rows(n) <=> i <= n
<1>1. Rows(0) = {}
    BY DEF Rows
<1>2. Task = Rows(4)
    <2>1. 1..4 = {1, 2, 3, 4}
        OBVIOUS
    <2> QED BY <2>1 DEF Rows, Task, TaskTable
<1>3. \A i, j \in 1..4 : TaskTable[i] = TaskTable[j] => i = j
    BY DEF TaskTable
<1>4. \A n \in 0..4 : \A i \in 1..4 : TaskTable[i] \in Rows(n) <=> i <= n
    BY <1>3 DEF Rows
<1> QED
    BY <1>1, <1>2, <1>4

-------------------------------------------------------------------------------
LEMMA LifecycleInvInit == LifecycleInit => LifecycleInv
<1> SUFFICES ASSUME LifecycleInit PROVE LifecycleInv
    OBVIOUS
<1>1. ready = ReadyAfter(0) /\ task_handles = Rows(0) /\ creating = 0
    BY RowsOfTable DEF LifecycleInit, ReadyAfter
<1>2. Unstarted
    BY <1>1 DEF LifecycleInit, DataInit, Unstarted
<1> QED
    BY <1>2 DEF LifecycleInit, LifecycleInv

\* A row is created where the table says, or the attempt ends.
LEMMA CreatingKeepsInv == LifecycleInv /\ create_task_from_model => LifecycleInv'
<1> SUFFICES ASSUME LifecycleInv, create_task_from_model PROVE LifecycleInv'
    OBVIOUS
<1>1. Len(TaskTable) = 4
    BY DEF TaskTable
<1>2. creating \in 1..4
    BY DEF LifecycleInv, Unstarted, create_task_from_model
<1>3. CASE scheduler
    <2>1. TaskTable[creating] \in task_handles
        BY <1>2, <1>3, RowsOfTable DEF LifecycleInv
    <2>2. task_handles' = task_handles /\ creating' \in 0..4 /\ scheduler' = scheduler
        BY <1>1, <1>2, <2>1 DEF create_task_from_model, NextRow
    <2> QED
        BY <1>3, <2>2 DEF LifecycleInv
<1>4. CASE ~ scheduler
    <2>1. PICK n \in 0..4 : /\ task_handles = Rows(n) /\ ready = ReadyAfter(n)
                            /\ creating \in 0..(n + 1) /\ creating <= 4
        BY <1>4 DEF LifecycleInv, Unstarted
    <2>2. pc' = pc /\ scheduler' = scheduler
        BY DEF create_task_from_model
    <2>3. TaskTable[creating] \in task_handles <=> creating <= n
        BY <1>2, <2>1, RowsOfTable
    <2>4. CASE task_handles' = task_handles /\ ready' = ready
        <3>1. creating' \in 0..(n + 1) /\ creating' <= 4
            BY <1>1, <1>2, <2>1, <2>3, <2>4 DEF create_task_from_model, NextRow
        <3> QED
            BY <1>4, <2>1, <2>2, <2>4, <3>1 DEF LifecycleInv, Unstarted
    <2>5. CASE /\ TaskTable[creating] \notin task_handles
               /\ task_handles' = task_handles \cup {TaskTable[creating]}
               /\ ready' = AddToReady(ready, TaskTable[creating])
               /\ creating' = NextRow
        <3>1. creating = n + 1 /\ n \in 0..3
            BY <1>2, <2>1, <2>3, <2>5
        <3>2. task_handles' = Rows(n + 1) /\ ready' = ReadyAfter(n + 1)
            BY <2>1, <2>5, <3>1, NextRowReady
        <3>3. creating' \in 0..((n + 1) + 1) /\ creating' <= 4
            BY <1>1, <2>5, <3>1 DEF NextRow
        <3>4. \E k \in 0..4 : /\ task_handles' = Rows(k) /\ ready' = ReadyAfter(k)
                              /\ creating' \in 0..(k + 1) /\ creating' <= 4
            <4>1. n + 1 \in 0..4
                BY <3>1
            <4> QED
                BY <3>2, <3>3, <4>1
        <3> QED
            BY <1>4, <2>2, <3>4 DEF LifecycleInv, Unstarted
    <2> QED
        BY <2>4, <2>5 DEF create_task_from_model
<1> QED
    BY <1>3, <1>4

\* The callers' operations before the start leave the tasks alone.
LEMMA UsingKeepsInv ==
    LifecycleInv /\ UseBeforeStart => LifecycleInv' /\ ready' = ready /\ pc' = pc
<1> SUFFICES ASSUME LifecycleInv, UseBeforeStart
             PROVE  LifecycleInv' /\ ready' = ready /\ pc' = pc
    OBVIOUS
<1>1. UNCHANGED handles /\ ~ scheduler
    BY DEF UseBeforeStart
<1>2. pc["env_process"] = "drain" /\ pc["communication"] = "ingress"
    BY <1>1 DEF LifecycleInv, Unstarted, Task
<1>3. ready' = ready /\ pc' = pc
    BY <1>2 DEF UseBeforeStart, CallerSendsSample, CallerSendsCommand,
                CallerSendsResponse, CallerReceivesResponse, Wake
<1> QED
    BY <1>1, <1>3 DEF handles, LifecycleInv, Unstarted

\* The invariant of the refinement.
THEOREM LifecycleKeepsTable == LifecycleSpec => []LifecycleInv
<1>1. LifecycleInv /\ [LifecycleNext]_lifecycleVars => LifecycleInv'
    <2> SUFFICES ASSUME LifecycleInv, [LifecycleNext]_lifecycleVars PROVE LifecycleInv'
        OBVIOUS
    <2>1. CASE freertos_rtos_port_init
        BY <2>1 DEF freertos_rtos_port_init, vars, LifecycleInv, Unstarted
    <2>2. CASE freertos_start
        <3>1. UNCHANGED vars /\ task_handles' = task_handles /\ scheduler' = scheduler
            BY <2>2 DEF freertos_start
        <3>2. creating' = 1
            BY <2>2 DEF freertos_start
        <3>3. Unstarted => Unstarted'
            BY <3>1, <3>2 DEF Unstarted, vars
        <3> QED
            BY <3>1, <3>2, <3>3 DEF LifecycleInv
    <2>3. CASE create_task_from_model
        BY <2>3, CreatingKeepsInv
    <2>4. CASE freertos_rtos_port_start_scheduler
        <3>1. task_handles = Rows(4)
            <4>1. PICK n \in 0..4 : task_handles = Rows(n)
                BY <2>4 DEF freertos_rtos_port_start_scheduler, LifecycleInv, Unstarted
            <4>2. TaskTable[4] \in Task
                BY DEF TaskTable, Task
            <4>3. n = 4
                BY <2>4, <4>1, <4>2, RowsOfTable
                   DEF freertos_rtos_port_start_scheduler, tasks_are_created
            <4> QED BY <4>1, <4>3
        <3> QED
            BY <2>4, <3>1 DEF freertos_rtos_port_start_scheduler, LifecycleInv
    <2>5. CASE UseBeforeStart
        BY <2>5, UsingKeepsInv
    <2>6. CASE TasksRun
        BY <2>6 DEF TasksRun, handles, LifecycleInv
    <2>7. CASE UNCHANGED lifecycleVars
        BY <2>7 DEF lifecycleVars, vars, handles, LifecycleInv, Unstarted
    <2> QED
        BY <2>1, <2>2, <2>3, <2>4, <2>5, <2>6, <2>7 DEF LifecycleNext
<1> QED
    BY <1>1, LifecycleInvInit, PTL DEF LifecycleSpec

-------------------------------------------------------------------------------
\* The ready lists of the first n rows hold each of these tasks once.
ReadiedOnce(lists, tasks) ==
    \A t \in Task : /\ Among(t, lists[Priority[t]]) <=> t \in tasks
                    /\ Once(t, lists[Priority[t]])

LEMMA AddingReadiesOnce ==
    ASSUME NEW lists \in [Level -> Seq(Task)], NEW tasks, NEW u \in Task, u \notin tasks,
           ReadiedOnce(lists, tasks)
    PROVE  /\ AddToReady(lists, u) \in [Level -> Seq(Task)]
           /\ ReadiedOnce(AddToReady(lists, u), tasks \cup {u})
<1> DEFINE longer == AddToReady(lists, u)
<1>1. \A t \in Task : Priority[t] \in Level
    BY DEF Level
<1>2. longer \in [Level -> Seq(Task)]
    BY <1>1 DEF AddToReady
<1>3. ASSUME NEW t \in Task
      PROVE  /\ Among(t, longer[Priority[t]]) <=> t \in tasks \cup {u}
             /\ Once(t, longer[Priority[t]])
    <2>1. lists[Priority[t]] \in Seq(Task) /\ lists[Priority[u]] \in Seq(Task)
        BY <1>1
    <2>2. CASE Priority[t] = Priority[u]
        <3>1. longer[Priority[t]] = Append(lists[Priority[t]], u)
            BY <1>1, <2>2 DEF AddToReady
        <3>2. t = u => ~ Among(t, lists[Priority[t]])
            BY DEF ReadiedOnce
        <3>3. /\ Among(t, lists[Priority[t]]) <=> t \in tasks
              /\ Once(t, lists[Priority[t]])
            BY DEF ReadiedOnce
        <3> HIDE DEF longer
        <3> QED BY <2>1, <3>1, <3>2, <3>3, ListAppended
    <2>3. CASE Priority[t] # Priority[u]
        <3>1. longer[Priority[t]] = lists[Priority[t]]
            BY <1>1, <2>3 DEF AddToReady
        <3>2. /\ Among(t, lists[Priority[t]]) <=> t \in tasks
              /\ Once(t, lists[Priority[t]])
            BY DEF ReadiedOnce
        <3> HIDE DEF longer
        <3> QED BY <2>3, <3>1, <3>2
    <2> QED BY <2>2, <2>3
<1> QED BY <1>2, <1>3 DEF ReadiedOnce

LEMMA RowsAreReadiedOnce ==
    ASSUME NEW n \in 0..4
    PROVE  ReadyAfter(n) \in [Level -> Seq(Task)] /\ ReadiedOnce(ReadyAfter(n), Rows(n))
<1> DEFINE Holds(k) == ReadyAfter(k) \in [Level -> Seq(Task)] /\ ReadiedOnce(ReadyAfter(k), Rows(k))
<1>1. Holds(0)
    <2>1. ReadyAfter(0) = NoTasks /\ Rows(0) = {}
        BY RowsOfTable DEF ReadyAfter
    <2>2. \A t \in Task : NoTasks[Priority[t]] = <<>>
        BY DEF NoTasks, Level
    <2>3. NoTasks \in [Level -> Seq(Task)]
        BY DEF NoTasks
    <2>4. \A t \in Task : ~ Among(t, <<>>) /\ Once(t, <<>>)
        BY DEF Among, Once
    <2> QED BY <2>1, <2>2, <2>3, <2>4 DEF ReadiedOnce
<1>2. ASSUME NEW k \in 0..3, Holds(k) PROVE Holds(k + 1)
    <2>1. TaskTable[k + 1] \in Task
        BY DEF TaskTable, Task
    <2> DEFINE u == TaskTable[k + 1]
    <2>2. /\ ReadyAfter(k + 1) = AddToReady(ReadyAfter(k), u)
          /\ Rows(k + 1) = Rows(k) \cup {u} /\ u \notin Rows(k)
        BY NextRowReady
    <2>3. ReadyAfter(k) \in [Level -> Seq(Task)] /\ ReadiedOnce(ReadyAfter(k), Rows(k))
        BY <1>2
    <2> HIDE DEF u
    <2>4. /\ AddToReady(ReadyAfter(k), u) \in [Level -> Seq(Task)]
          /\ ReadiedOnce(AddToReady(ReadyAfter(k), u), Rows(k) \cup {u})
        BY <2>1, <2>2, <2>3, AddingReadiesOnce DEF u
    <2> QED BY <2>2, <2>4
<1>3. Holds(1) /\ Holds(2) /\ Holds(3) /\ Holds(4)
    <2>1. Holds(0 + 1)
        BY <1>1, <1>2
    <2>2. Holds(1 + 1)
        BY <2>1, <1>2
    <2>3. Holds(2 + 1)
        BY <2>2, <1>2
    <2>4. Holds(3 + 1)
        BY <2>3, <1>2
    <2> QED BY <2>1, <2>2, <2>3, <2>4
<1>4. n = 0 \/ n = 1 \/ n = 2 \/ n = 3 \/ n = 4
    OBVIOUS
<1> QED BY <1>1, <1>3, <1>4

\* However often start fails half way and is called again, no task is created twice and
\* none is left out: until the scheduler runs, the ready lists hold each task with a
\* handle once and no other (rtos_port_freertos.c:363-397).
THEOREM LifecycleReadiesEachTaskOnce ==
    LifecycleSpec => [](~ scheduler => ReadiedOnce(ready, task_handles))
<1>1. LifecycleInv => (~ scheduler => ReadiedOnce(ready, task_handles))
    BY RowsAreReadiedOnce DEF LifecycleInv, Unstarted
<1> QED BY <1>1, LifecycleKeepsTable, PTL

\* So the order of creation is one that PathFits asks for.
LEMMA CreationReadiesOnce ==
    \A t \in Task : Among(t, CreationOrder[Priority[t]]) /\ Once(t, CreationOrder[Priority[t]])
<1>1. ReadiedOnce(CreationOrder, Task)
    BY RowsAreReadiedOnce, RowsOfTable, LifecycleAssumption
<1> QED BY <1>1 DEF ReadiedOnce

-------------------------------------------------------------------------------
(* The refinement.                                                         *)

\* While the scheduler runs, the two modules have the same ready lists.
LEMMA SameScheduling ==
    ASSUME scheduler, scheduler'
    PROVE  /\ \A t \in Task : Port!IsReady(t) <=> IsReady(t)
           /\ \A t \in Task : Port!Wake(t) <=> Wake(t)
           /\ \A t \in Task, from, to \in Places : Port!Goto(t, from, to) <=> Goto(t, from, to)
           /\ \A t \in Task, from, to \in Places :
                 Port!BlockAt(t, from, to) <=> BlockAt(t, from, to)
<1>1. \A t \in Task : Port!IsReady(t) <=> IsReady(t)
    BY DEF Port!IsReady, IsReady
<1>2. \A t \in Task : Port!Wake(t) <=> Wake(t)
    BY <1>1 DEF Port!Wake, Wake
<1>3. \A t \in Task : Port!Running(t) <=> Running(t)
    BY DEF Port!Running, Running, Port!Level, Level, Port!Task, Task
<1>4. \A t \in Task, from, to \in Places : Port!Goto(t, from, to) <=> Goto(t, from, to)
    BY <1>3 DEF Port!Goto, Goto
<1>5. \A t \in Task, from, to \in Places : Port!BlockAt(t, from, to) <=> BlockAt(t, from, to)
    BY <1>4 DEF Port!BlockAt, BlockAt
<1> QED
    BY <1>1, <1>2, <1>4, <1>5

\* What does not depend on the ready lists is the same in both modules.
LEMMA SameQueues ==
    /\ \A q, length : Port!HasRoom(q, length) <=> HasRoom(q, length)
    /\ \A q, length, item : Port!Sent(q, length, item) = Sent(q, length, item)
    /\ \A t : Port!TimeoutIsFinite(t) <=> TimeoutIsFinite(t)
    /\ Port!PublishSucceeds <=> PublishSucceeds
<1>1. \A q, length : Port!HasRoom(q, length) <=> HasRoom(q, length)
    BY DEF Port!HasRoom, HasRoom
<1>2. \A q, length, item : Port!Sent(q, length, item) = Sent(q, length, item)
    BY <1>1 DEF Port!Sent, Sent
<1>3. \A t : Port!TimeoutIsFinite(t) <=> TimeoutIsFinite(t)
    BY DEF Port!TimeoutIsFinite, TimeoutIsFinite
<1>4. Port!PublishSucceeds <=> PublishSucceeds
    BY <1>1 DEF Port!PublishSucceeds, PublishSucceeds
<1> QED
    BY <1>1, <1>2, <1>3, <1>4

LEMMA SameDecisions ==
    /\ \A x : Port!sensor_sample_is_valid(x) <=> sensor_sample_is_valid(x)
    /\ \A c : Port!alarm_config_is_valid(c) <=> alarm_config_is_valid(c)
    /\ \A s, c, x : Port!alarm_state_update(s, c, x) = alarm_state_update(s, c, x)
    /\ \A r : Port!responder_is_ready(r) <=> responder_is_ready(r)
    /\ \A m, c, x : Port!command_handler_handle(m, c, x) = command_handler_handle(m, c, x)
    /\ \A r, h : Port!responder_after(r, h) = responder_after(r, h)
<1> USE DEF Port!Channel, Channel
<1>1. \A x : Port!sensor_sample_is_valid(x) <=> sensor_sample_is_valid(x)
    BY DEF Port!sensor_sample_is_valid, sensor_sample_is_valid
<1>2. \A c, x, y : Port!Reaches(c, x, y) <=> Reaches(c, x, y)
    BY DEF Port!Reaches, Reaches
<1>3. \A c : Port!alarm_config_is_valid(c) <=> alarm_config_is_valid(c)
    BY <1>2 DEF Port!alarm_config_is_valid, alarm_config_is_valid
<1>4. /\ \A c, x : Port!is_alarm_sample(c, x) <=> is_alarm_sample(c, x)
      /\ \A c, x : Port!is_warning_sample(c, x) <=> is_warning_sample(c, x)
      /\ \A c, x : Port!is_recovered_sample(c, x) <=> is_recovered_sample(c, x)
    BY <1>2 DEF Port!is_alarm_sample, is_alarm_sample, Port!is_warning_sample,
                is_warning_sample, Port!is_recovered_sample, is_recovered_sample
<1>5. \A u, s, c, x :
          Port!held_until_recovered(u, s, c, x) <=> held_until_recovered(u, s, c, x)
    BY <1>4 DEF Port!held_until_recovered, held_until_recovered
<1>6. \A s, c, x : Port!alarm_state_update(s, c, x) = alarm_state_update(s, c, x)
    BY <1>1, <1>3, <1>4, <1>5 DEF Port!alarm_state_update, alarm_state_update
<1>7. \A r : Port!responder_is_ready(r) <=> responder_is_ready(r)
    BY <1>1, <1>3 DEF Port!responder_is_ready, responder_is_ready
<1>8. /\ \A c, m : Port!WithThreshold(c, m) = WithThreshold(c, m)
      /\ \A r, e, c, x : Port!HandlerResult(r, e, c, x) = HandlerResult(r, e, c, x)
      /\ \A c, v : Port!InFieldType(c, v) <=> InFieldType(c, v)
    BY DEF Port!WithThreshold, WithThreshold, Port!HandlerResult, HandlerResult,
           Port!InFieldType, InFieldType
<1>9. /\ \A c, m : Port!threshold_accepted(c, m) <=> threshold_accepted(c, m)
      /\ \A m : Port!sample_accepted(m) <=> sample_accepted(m)
    BY <1>1, <1>3, <1>8 DEF Port!threshold_accepted, threshold_accepted,
                            Port!sample_accepted, sample_accepted
<1>10. \A m, c, x : Port!command_handler_handle(m, c, x) = command_handler_handle(m, c, x)
    BY <1>3, <1>8, <1>9 DEF Port!command_handler_handle, command_handler_handle
<1>11. \A r, h : Port!responder_after(r, h) = responder_after(r, h)
    BY <1>6 DEF Port!responder_after, responder_after
<1> QED
    BY <1>1, <1>3, <1>6, <1>7, <1>10, <1>11

\* The steps of sensor_acquire.
LEMMA SameSensor ==
    ASSUME scheduler, scheduler',
           \/ SensorPoll
           \/ SensorDelay
    PROVE  \/ Port!SensorPoll
           \/ Port!SensorDelay
<1> USE SameScheduling, SameQueues, SameDecisions DEF Task, Places
<1>1. CASE SensorPoll
    BY <1>1 DEF Port!SensorPoll, SensorPoll, Port!queues, queues, Port!envVars, envVars,
           Port!commVars, commVars
<1>2. CASE SensorDelay
    BY <1>2 DEF Port!SensorDelay, SensorDelay, Port!queues, queues, Port!envVars, envVars,
           Port!commVars, commVars
<1> QED
    BY <1>1, <1>2

\* The steps of env_process.
LEMMA SameEnv ==
    ASSUME scheduler, scheduler',
           \/ EnvDrainConfig
           \/ EnvTakeSample("receive")
           \/ EnvTakeSample("waiting")
           \/ EnvWait
           \/ EnvTimeout
           \/ EnvPublish
           \/ EnvCommit
    PROVE  \/ Port!EnvDrainConfig
           \/ Port!EnvTakeSample("receive")
           \/ Port!EnvTakeSample("waiting")
           \/ Port!EnvWait
           \/ Port!EnvTimeout
           \/ Port!EnvPublish
           \/ Port!EnvCommit
<1> USE SameScheduling, SameQueues, SameDecisions DEF Task, Places
<1>1. CASE EnvDrainConfig
    BY <1>1 DEF Port!EnvDrainConfig, EnvDrainConfig, Port!queues, queues, Port!envVars, envVars,
           Port!commVars, commVars
<1>2. CASE EnvTakeSample("receive")
    BY <1>2 DEF Port!EnvTakeSample, EnvTakeSample, Port!queues, queues, Port!envVars, envVars,
           Port!commVars, commVars
<1>3. CASE EnvTakeSample("waiting")
    BY <1>3 DEF Port!EnvTakeSample, EnvTakeSample, Port!queues, queues, Port!envVars, envVars,
           Port!commVars, commVars
<1>4. CASE EnvWait
    BY <1>4 DEF Port!EnvWait, EnvWait, Port!queues, queues, Port!envVars, envVars,
           Port!commVars, commVars
<1>5. CASE EnvTimeout
    BY <1>5 DEF Port!EnvTimeout, EnvTimeout, Port!queues, queues, Port!envVars, envVars,
           Port!commVars, commVars
<1>6. CASE EnvPublish
    BY <1>6 DEF Port!EnvPublish, EnvPublish, Port!queues, queues, Port!envVars, envVars,
           Port!commVars, commVars
<1>7. CASE EnvCommit
    BY <1>7 DEF Port!EnvCommit, EnvCommit, Port!queues, queues, Port!envVars, envVars,
           Port!commVars, commVars
<1> QED
    BY <1>1, <1>2, <1>3, <1>4, <1>5, <1>6, <1>7

\* The steps of communication.
LEMMA SameComm ==
    ASSUME scheduler, scheduler',
           \/ CommPollIngress
           \/ CommHandle("receive")
           \/ CommHandle("waiting")
           \/ CommWait
           \/ CommTimeout
           \/ CommForwardConfig
           \/ CommForwardSample
           \/ CommRespond
           \/ CommWriteHead
           \/ CommDrainEnds
           \/ CommRemoveHead
    PROVE  \/ Port!CommPollIngress
           \/ Port!CommHandle("receive")
           \/ Port!CommHandle("waiting")
           \/ Port!CommWait
           \/ Port!CommTimeout
           \/ Port!CommForwardConfig
           \/ Port!CommForwardSample
           \/ Port!CommRespond
           \/ Port!CommWriteHead
           \/ Port!CommDrainEnds
           \/ Port!CommRemoveHead
<1> USE SameScheduling, SameQueues, SameDecisions DEF Task, Places
<1>1. CASE CommPollIngress
    BY <1>1 DEF Port!CommPollIngress, CommPollIngress, Port!queues, queues, Port!envVars, envVars,
           Port!commVars, commVars
<1>2. CASE CommHandle("receive")
    BY <1>2 DEF Port!CommHandle, CommHandle, Port!queues, queues, Port!envVars, envVars,
           Port!commVars, commVars
<1>3. CASE CommHandle("waiting")
    BY <1>3 DEF Port!CommHandle, CommHandle, Port!queues, queues, Port!envVars, envVars,
           Port!commVars, commVars
<1>4. CASE CommWait
    BY <1>4 DEF Port!CommWait, CommWait, Port!queues, queues, Port!envVars, envVars,
           Port!commVars, commVars
<1>5. CASE CommTimeout
    BY <1>5 DEF Port!CommTimeout, CommTimeout, Port!queues, queues, Port!envVars, envVars,
           Port!commVars, commVars
<1>6. CASE CommForwardConfig
    BY <1>6 DEF Port!CommForwardConfig, CommForwardConfig, Port!queues, queues, Port!envVars, envVars,
           Port!commVars, commVars
<1>7. CASE CommForwardSample
    BY <1>7 DEF Port!CommForwardSample, CommForwardSample, Port!queues, queues, Port!envVars, envVars,
           Port!commVars, commVars
<1>8. CASE CommRespond
    BY <1>8 DEF Port!CommRespond, CommRespond, Port!queues, queues, Port!envVars, envVars,
           Port!commVars, commVars
<1>9. CASE CommWriteHead
    BY <1>9 DEF Port!CommWriteHead, CommWriteHead, Port!queues, queues, Port!envVars, envVars,
           Port!commVars, commVars
<1>10. CASE CommDrainEnds
    BY <1>10 DEF Port!CommDrainEnds, CommDrainEnds, Port!queues, queues, Port!envVars, envVars,
           Port!commVars, commVars
<1>11. CASE CommRemoveHead
    BY <1>11 DEF Port!CommRemoveHead, CommRemoveHead, Port!queues, queues, Port!envVars, envVars,
           Port!commVars, commVars
<1> QED
    BY <1>1, <1>2, <1>3, <1>4, <1>5, <1>6, <1>7, <1>8, <1>9, <1>10, <1>11

\* The steps of alarm_output.
LEMMA SameAlarm ==
    ASSUME scheduler, scheduler',
           \/ AlarmShowEvent("receive")
           \/ AlarmShowEvent("waiting")
           \/ AlarmWait
           \/ AlarmRefresh
    PROVE  \/ Port!AlarmShowEvent("receive")
           \/ Port!AlarmShowEvent("waiting")
           \/ Port!AlarmWait
           \/ Port!AlarmRefresh
<1> USE SameScheduling, SameQueues, SameDecisions DEF Task, Places
<1>1. CASE AlarmShowEvent("receive")
    BY <1>1 DEF Port!AlarmShowEvent, AlarmShowEvent, Port!queues, queues, Port!envVars, envVars,
           Port!commVars, commVars
<1>2. CASE AlarmShowEvent("waiting")
    BY <1>2 DEF Port!AlarmShowEvent, AlarmShowEvent, Port!queues, queues, Port!envVars, envVars,
           Port!commVars, commVars
<1>3. CASE AlarmWait
    BY <1>3 DEF Port!AlarmWait, AlarmWait, Port!queues, queues, Port!envVars, envVars,
           Port!commVars, commVars
<1>4. CASE AlarmRefresh
    BY <1>4 DEF Port!AlarmRefresh, AlarmRefresh, Port!queues, queues, Port!envVars, envVars,
           Port!commVars, commVars
<1> QED
    BY <1>1, <1>2, <1>3, <1>4

\* The steps of the callers and the writer.
LEMMA SameCallers ==
    ASSUME scheduler, scheduler',
           \/ CallerSendsSample
           \/ CallerSendsCommand
           \/ CallerSendsResponse
           \/ CallerReceivesResponse
           \/ WriterChanges
    PROVE  \/ Port!CallerSendsSample
           \/ Port!CallerSendsCommand
           \/ Port!CallerSendsResponse
           \/ Port!CallerReceivesResponse
           \/ Port!WriterChanges
<1> USE SameScheduling, SameQueues, SameDecisions DEF Task, Places
<1>1. CASE CallerSendsSample
    BY <1>1 DEF Port!CallerSendsSample, CallerSendsSample, Port!queues, queues, Port!envVars, envVars,
           Port!commVars, commVars
<1>2. CASE CallerSendsCommand
    BY <1>2 DEF Port!CallerSendsCommand, CallerSendsCommand, Port!queues, queues, Port!envVars, envVars,
           Port!commVars, commVars
<1>3. CASE CallerSendsResponse
    BY <1>3 DEF Port!CallerSendsResponse, CallerSendsResponse, Port!queues, queues, Port!envVars, envVars,
           Port!commVars, commVars
<1>4. CASE CallerReceivesResponse
    BY <1>4 DEF Port!CallerReceivesResponse, CallerReceivesResponse, Port!queues, queues, Port!envVars, envVars,
           Port!commVars, commVars
<1>5. CASE WriterChanges
    BY <1>5 DEF Port!WriterChanges, WriterChanges, Port!queues, queues, Port!envVars, envVars,
           Port!commVars, commVars
<1> QED
    BY <1>1, <1>2, <1>3, <1>4, <1>5

LEMMA SameTicks ==
    ASSUME scheduler, scheduler', TimeSlice \/ \E t \in Task : DelayElapses(t)
    PROVE  Port!TimeSlice \/ \E t \in Port!Task : Port!DelayElapses(t)
<1> USE DEF Port!queues, queues, Port!envVars, envVars, Port!commVars, commVars
<1>1. CASE TimeSlice
    <2>1. \A t \in Task : Port!Running(t) <=> Running(t)
        BY DEF Port!Running, Running, Port!Level, Level, Port!Task, Task
    <2> QED
        BY <1>1, <2>1 DEF Port!TimeSlice, TimeSlice, Port!Task, Task
<1>2. ASSUME NEW t \in Task, DelayElapses(t)
      PROVE  Port!DelayElapses(t)
    BY <1>2, SameScheduling, SameQueues
       DEF Port!DelayElapses, DelayElapses, Port!Level, Level, Port!Task, Task
<1> QED
    BY <1>1, <1>2 DEF Port!Task, Task

LEMMA RunningSteps ==
    ASSUME scheduler, scheduler', [Next]_vars
    PROVE  [Port!Next]_(Port!vars)
<1>1. CASE SensorPoll \/ SensorDelay
    BY <1>1, SameSensor DEF Port!Next, Port!TasksNext
<1>2. CASE EnvStep
    BY <1>2, SameEnv DEF EnvStep, Port!EnvStep, Port!Next, Port!TasksNext
<1>3. CASE CommStep
    BY <1>3, SameComm DEF CommStep, Port!CommStep, Port!Next, Port!TasksNext
<1>4. CASE AlarmStep
    BY <1>4, SameAlarm DEF AlarmStep, Port!AlarmStep, Port!Next, Port!TasksNext
<1>5. CASE TimeSlice \/ \E t \in Task : DelayElapses(t)
    BY <1>5, SameTicks DEF Port!Next, Port!TasksNext
<1>6. CASE \/ CallerSendsSample \/ CallerSendsCommand
           \/ CallerSendsResponse \/ CallerReceivesResponse \/ WriterChanges
    BY <1>6, SameCallers DEF Port!Next, Port!TasksNext, Port!CallersNext
<1>7. CASE UNCHANGED vars
    BY <1>7 DEF vars, Port!vars, Port!queues, queues, Port!envVars, envVars,
                Port!commVars, commVars
<1> QED
    BY <1>1, <1>2, <1>3, <1>4, <1>5, <1>6, <1>7 DEF Next, TasksNext, CallersNext

\* What callers do before the start they could as well do after it.
LEMMA EarlyUseIsAPortStep ==
    ASSUME LifecycleInv, UseBeforeStart
    PROVE  [Port!Next]_(Port!vars)
<1>1. ~ scheduler /\ ~ scheduler' /\ ready' = ready /\ pc' = pc
    BY UsingKeepsInv DEF UseBeforeStart, handles
<1>2. Port!Wake("env_process") /\ Port!Wake("communication")
    BY <1>1 DEF LifecycleInv, Unstarted, Task, Port!Wake
<1> USE <1>1, <1>2, SameQueues, SameDecisions
        DEF Port!queues, queues, Port!envVars, envVars, Port!commVars, commVars
<1>3. CASE CallerSendsSample
    BY <1>3
        DEF CallerSendsSample, Port!CallerSendsSample, Port!Next, Port!CallersNext
<1>4. CASE CallerSendsCommand
    BY <1>4
        DEF CallerSendsCommand, Port!CallerSendsCommand, Port!Next, Port!CallersNext
<1>5. CASE CallerSendsResponse
    BY <1>5
        DEF CallerSendsResponse, Port!CallerSendsResponse, Port!Next, Port!CallersNext
<1>6. CASE CallerReceivesResponse
    BY <1>6
        DEF CallerReceivesResponse, Port!CallerReceivesResponse, Port!Next, Port!CallersNext
<1> QED
    BY <1>3, <1>4, <1>5, <1>6 DEF UseBeforeStart

\* The scheduler finds the ready lists the port begins with.
LEMMA StartIsAStutter ==
    ASSUME LifecycleInv, freertos_rtos_port_start_scheduler
    PROVE  UNCHANGED Port!vars
<1>1. PICK n \in 0..4 : task_handles = Rows(n) /\ ready = ReadyAfter(n)
    BY DEF freertos_rtos_port_start_scheduler, LifecycleInv, Unstarted
<1>2. TaskTable[4] \in task_handles
    BY DEF TaskTable, Task, freertos_rtos_port_start_scheduler, tasks_are_created
<1>3. n = 4
    BY <1>1, <1>2, RowsOfTable
<1>4. ready = CreationOrder
    BY <1>1, <1>3, LifecycleAssumption
<1> QED
    BY <1>4 DEF freertos_rtos_port_start_scheduler, vars, Port!vars, Port!queues, queues,
                Port!envVars, envVars, Port!commVars, commVars

\* Whatever fails and is retried before the start, the port that runs is the one
\* of FreeRtosPort.
THEOREM LifecycleImplementsPort == LifecycleSpec => ImplementsPort
<1> USE DEF Port!queues, queues, Port!envVars, envVars, Port!commVars, commVars
<1>1. LifecycleInit => Port!Init
    <2> SUFFICES ASSUME LifecycleInit PROVE Port!Init
        OBVIOUS
    <2> QED
        BY DEF LifecycleInit, DataInit, Port!Init, Port!DataInit, Port!Task, Task
<1>2. LifecycleInv /\ [LifecycleNext]_lifecycleVars => [Port!Next]_(Port!vars)
    <2> SUFFICES ASSUME LifecycleInv, [LifecycleNext]_lifecycleVars
                 PROVE  [Port!Next]_(Port!vars)
        OBVIOUS
    <2>1. CASE freertos_rtos_port_init
        BY <2>1 DEF freertos_rtos_port_init, vars, Port!vars
    <2>2. CASE freertos_start
        BY <2>2 DEF freertos_start, vars, Port!vars
    <2>3. CASE create_task_from_model
        <3>1. scheduler => ready' = ready
            <4>1. scheduler => creating \in 1..4
                BY <2>3 DEF create_task_from_model, LifecycleInv
            <4> QED
                BY <2>3, <4>1, RowsOfTable DEF create_task_from_model, LifecycleInv
        <3> QED
            BY <2>3, <3>1 DEF create_task_from_model, Port!vars
    <2>4. CASE freertos_rtos_port_start_scheduler
        BY <2>4, StartIsAStutter
    <2>5. CASE UseBeforeStart
        BY <2>5, EarlyUseIsAPortStep
    <2>6. CASE TasksRun
        BY <2>6, RunningSteps DEF TasksRun, handles
    <2>7. CASE UNCHANGED lifecycleVars
        BY <2>7 DEF lifecycleVars, handles, vars, Port!vars
    <2> QED
        BY <2>1, <2>2, <2>3, <2>4, <2>5, <2>6, <2>7 DEF LifecycleNext
<1> QED
    BY <1>1, <1>2, LifecycleKeepsTable, PTL DEF LifecycleSpec, ImplementsPort, Port!Spec
===============================================================================
