----------------------------- MODULE PortLifecycle -----------------------------
(***************************************************************************)
(* app/src/rtos_port_freertos.c before the scheduler runs: the queues and  *)
(* the tasks are created on the heap, any creation may fail, and the       *)
(* caller may call again.  What exists is kept; what is sent through       *)
(* rtos_port meanwhile waits in the queues.  From vTaskStartScheduler on   *)
(* the tasks of FreeRtosPort run, and init and start may still be called.  *)
(***************************************************************************)
EXTENDS FreeRtosPort

QueueIds == {"sensor_sample", "command", "response", "alarm_event", "config_update"}

\* The order in which create_tasks goes through the tasks.
TaskTable == <<"sensor_acquire", "env_process", "communication", "alarm_output">>

\* prvAddNewTaskToReadyList: a new task joins the end of its ready list.
AddToReady(lists, t) == [lists EXCEPT ![Priority[t]] = Append(@, t)]

NoTasks == [p \in Level |-> <<>>]

\* The ready lists once the first n tasks of the table were created, each once.
ReadyAfter(n) ==
    LET one   == AddToReady(NoTasks, TaskTable[1])
        two   == AddToReady(one, TaskTable[2])
        three == AddToReady(two, TaskTable[3])
        four  == AddToReady(three, TaskTable[4])
    IN  CASE n = 0 -> NoTasks [] n = 1 -> one [] n = 2 -> two
          [] n = 3 -> three   [] n = 4 -> four

ASSUME LifecycleAssumption == CreationOrder = ReadyAfter(4)

VARIABLES
    queue_handles,  \* the queues of the context whose handle is not 0
    task_handles,   \* the tasks whose handle is not 0
    creating,       \* the row of TaskTable create_tasks is at, 0 outside of it
    port_ops,       \* port->ops is set
    scheduler       \* vTaskStartScheduler has taken over

handles == <<queue_handles, task_handles, creating, port_ops, scheduler>>

lifecycleVars == <<vars, handles>>

\* The context may come with queues of the caller's, and these with items.
LifecycleInit ==
    /\ DataInit
    /\ ready = NoTasks
    /\ queue_handles \in SUBSET QueueIds
    /\ BootSamples # <<>> => "sensor_sample" \in queue_handles
    /\ BootCommands # <<>> => "command" \in queue_handles
    /\ task_handles = {} /\ creating = 0
    /\ port_ops = FALSE
    /\ scheduler = FALSE

-------------------------------------------------------------------------------
context_is_ready == queue_handles = QueueIds

tasks_are_created == \A t \in Task : t \in task_handles

rtos_port_is_valid == port_ops

\* Each missing queue is created unless the heap has no room for it; the port
\* gets its operations once all of them exist.
freertos_rtos_port_init ==
    /\ creating = 0
    /\ \E created \in SUBSET (QueueIds \ queue_handles) :
          queue_handles' = queue_handles \cup created
    /\ port_ops' = (port_ops \/ context_is_ready')
    /\ UNCHANGED <<vars, task_handles, creating, scheduler>>

\* rtos_port_start up to the first task.
freertos_start ==
    /\ creating = 0
    /\ rtos_port_is_valid /\ context_is_ready
    /\ ~ tasks_are_created
    /\ creating' = 1
    /\ UNCHANGED <<vars, queue_handles, task_handles, port_ops, scheduler>>

NextRow == IF creating = Len(TaskTable) THEN 0 ELSE creating + 1

\* Faulty variant: a retry creates the tasks of the first attempt again.
CreateAgain ==
    /\ creating # 0
    /\ \/ /\ task_handles' = task_handles \cup {TaskTable[creating]}
          /\ ready' = AddToReady(ready, TaskTable[creating])
          /\ creating' = NextRow
       \/ /\ creating' = 0
          /\ UNCHANGED <<task_handles, ready>>
    /\ UNCHANGED <<queues, pc, envVars, commVars, output, writer_ready,
                   queue_handles, port_ops, scheduler>>

\* One create_task_from_model of create_tasks: a task that exists is kept, and
\* the first xTaskCreate without memory ends the attempt.
create_task_from_model ==
    /\ creating # 0
    /\ LET t == TaskTable[creating]
       IN  \/ /\ t \in task_handles
              /\ creating' = NextRow
              /\ UNCHANGED <<task_handles, ready>>
           \/ /\ t \notin task_handles
              /\ task_handles' = task_handles \cup {t}
              /\ ready' = AddToReady(ready, t)
              /\ creating' = NextRow
           \/ /\ t \notin task_handles
              /\ creating' = 0
              /\ UNCHANGED <<task_handles, ready>>
    /\ UNCHANGED <<queues, pc, envVars, commVars, output, writer_ready,
                   queue_handles, port_ops, scheduler>>

\* vTaskStartScheduler returns, changing nothing here, when it lacks the memory
\* for the idle task.
freertos_rtos_port_start_scheduler ==
    /\ ~ scheduler /\ creating = 0
    /\ tasks_are_created
    /\ scheduler' = TRUE
    /\ UNCHANGED <<vars, queue_handles, task_handles, creating, port_ops>>

\* What is sent before the tasks run waits for them.
UseBeforeStart ==
    /\ ~ scheduler /\ creating = 0
    /\ context_is_ready
    /\ \/ rtos_port_is_valid /\ CallerSendsSample
       \/ rtos_port_is_valid /\ CallerSendsCommand
       \/ rtos_port_is_valid /\ CallerReceivesResponse
       \/ CallerSendsResponse
    /\ UNCHANGED handles

TasksRun == scheduler /\ Next /\ UNCHANGED handles

LifecycleNext == \/ freertos_rtos_port_init
                 \/ freertos_start \/ create_task_from_model
                 \/ freertos_rtos_port_start_scheduler
                 \/ UseBeforeStart
                 \/ TasksRun

LifecycleSpec == LifecycleInit /\ [][LifecycleNext]_lifecycleVars

-------------------------------------------------------------------------------
(* Properties                                                              *)

\* However often creation failed half way and was tried again, what finally runs
\* is the port of FreeRtosPort: each task once, in the order of the table, none
\* of them without its queues, and nothing sent before the start is gone
\* (rtos_port_freertos.c:363, :437-496).  Up to the start, the ready lists of the
\* port are those the scheduler will find.
Port == INSTANCE FreeRtosPort WITH
            ready <- IF scheduler THEN ready ELSE CreationOrder

ImplementsPort == Port!Spec

===============================================================================
