------------------------------ MODULE FreeRtosPort ------------------------------
(***************************************************************************)
(* app/src/rtos_port_freertos.c: the four FreeRTOS tasks of the firmware,  *)
(* the five queues between them and the scheduler that interleaves them.   *)
(*                                                                         *)
(*   sensor_acquire --sample--> env_process --alarm event--> alarm_output  *)
(*                      ^           ^                                      *)
(*              SAMPLE  |           | SET: config snapshot                 *)
(*   bytes, callers --command--> communication --response--> writer        *)
(*                                                                         *)
(* A step of a task runs up to its next access of a queue or of the        *)
(* writer; every xQueueSend has timeout 0, so a full queue drops the item. *)
(* FreeRTOS itself is modelled by what the tasks rely on: the running task *)
(* is the head of the most urgent non-empty ready list, a send wakes the   *)
(* task blocked on the queue, a tick may rotate the list of the running    *)
(* task, and a finite delay may elapse at any time after it began.         *)
(***************************************************************************)
EXTENDS CommandHandler, Sequences

CONSTANTS
    Priority,           \* rtos_task_descriptor_t.priority of each task
    CreationOrder,      \* ready lists, by priority, when the scheduler starts
    QueueLength,        \* rtos_queue_descriptor_t.length of each queue
    DefaultConfig,      \* alarm_config_default()
    InitialSample,      \* communication_task's first sample
    SensorReadings,     \* what the sensor source may deliver, invalid ones included
    Commands,           \* what the serial line or a caller may ask for
    BootSamples,        \* sent through rtos_port before the scheduler starts
    BootCommands,
    HasIngress,         \* context->command_read is configured
    HasWriter,          \* context->response_write is configured
    Schedulable,        \* see DelayElapses
    None                \* no item: a local variable of a task that is not in use

Task == {"sensor_acquire", "env_process", "communication", "alarm_output"}

Level == {Priority[t] : t \in Task}

ValidReading == {x \in Reading : sensor_sample_is_valid(x)}
ValidConfig  == {c \in AlarmConfig : alarm_config_is_valid(c)}

ASSUME PortAssumption ==
    /\ Priority \in [Task -> Nat]
    /\ CreationOrder \in [Level -> Seq(Task)]
    /\ QueueLength \in [sensor_sample : Nat \ {0}, command : Nat \ {0},
                        response : Nat \ {0}, alarm_event : Nat \ {0},
                        config_update : Nat \ {0}]
    /\ DefaultConfig \in ValidConfig
    /\ InitialSample \in ValidReading
    /\ SensorReadings \subseteq Reading
    /\ Commands \subseteq Command
    /\ BootSamples \in Seq(ValidReading)
    /\ Len(BootSamples) <= QueueLength.sensor_sample
    /\ BootCommands \in Seq(Command)
    /\ Len(BootCommands) <= QueueLength.command
    /\ None \notin AlarmStates
    /\ HasIngress \in BOOLEAN /\ HasWriter \in BOOLEAN
    /\ Schedulable \in BOOLEAN

VARIABLES
    sensor_sample_queue, command_queue, response_queue,
    alarm_event_queue, config_update_queue,
    ready,          \* per priority, the tasks that are not blocked, in turn order
    pc,             \* where each task is in its loop
    processor,      \* env_process: its environment_processor_t
    env_sample,     \* env_process: the sample it works on
    env_next,       \* env_process: the state it is publishing
    responder,      \* communication: config, state and sample it answers from
    response,       \* communication: the answer it is sending
    peeked,         \* communication: the answer it has written but not yet removed
    output,         \* alarm_output: the state it drives the sink with
    writer_ready,   \* whether response_write would succeed now
    config_lost     \* history: the latest SET's snapshot found its queue full

queues  == <<sensor_sample_queue, command_queue, response_queue,
             alarm_event_queue, config_update_queue>>
envVars  == <<processor, env_sample, env_next>>
commVars == <<responder, response, peeked, config_lost>>
vars == <<queues, ready, pc, envVars, commVars, output, writer_ready>>

-------------------------------------------------------------------------------
Response == [result : Results, effect : Effects, state : AlarmStates]

Processor == [config : AlarmConfig, state : AlarmStates]

\* The queues, the locals of the tasks and where these begin.
DataInit ==
    /\ sensor_sample_queue = BootSamples
    /\ command_queue = BootCommands
    /\ response_queue = <<>> /\ alarm_event_queue = <<>> /\ config_update_queue = <<>>
    /\ pc = [t \in Task |-> CASE t = "sensor_acquire" -> "poll"
                              [] t = "env_process"    -> "drain"
                              [] t = "communication"  -> "ingress"
                              [] t = "alarm_output"   -> "receive"]
    /\ processor = [config |-> DefaultConfig, state |-> "NORMAL"]
    /\ env_sample = None /\ env_next = None
    /\ responder = [config |-> DefaultConfig, state |-> "NORMAL", sample |-> InitialSample]
    /\ response = None /\ peeked = None
    /\ output = None
    /\ writer_ready = TRUE
    /\ config_lost = FALSE

Init == DataInit /\ ready = CreationOrder

-------------------------------------------------------------------------------
(* The scheduler and the queues of FreeRTOS.                               *)

IsReady(t) == \E i \in 1..Len(ready[Priority[t]]) : ready[Priority[t]][i] = t

Running(t) ==
    /\ ready[Priority[t]] # <<>>
    /\ Head(ready[Priority[t]]) = t
    /\ \A p \in Level : p > Priority[t] => ready[p] = <<>>

\* A task at "waiting" is blocked in xQueueReceive on its own queue.
Wake(t) == ready' = IF IsReady(t) \/ pc[t] # "waiting" THEN ready
                    ELSE [ready EXCEPT ![Priority[t]] = Append(@, t)]

Goto(t, from, to) ==
    /\ pc[t] = from
    /\ Running(t)
    /\ pc' = [pc EXCEPT ![t] = to]

\* The running task leaves its ready list until a send or a tick wakes it.
BlockAt(t, from, to) ==
    /\ Goto(t, from, to)
    /\ ready' = [ready EXCEPT ![Priority[t]] = Tail(@)]

HasRoom(queue, length) == Len(queue) < length

\* xQueueSend with timeout 0, in the value of the queue after it.
Sent(queue, length, item) ==
    IF HasRoom(queue, length) THEN Append(queue, item) ELSE queue

\* configUSE_TIME_SLICING: the running task gives way to its equals.
TimeSlice ==
    /\ \E t \in Task :
          /\ Running(t)
          /\ Len(ready[Priority[t]]) > 1
          /\ ready' = [ready EXCEPT ![Priority[t]] = Append(Tail(@), t)]
    /\ UNCHANGED <<queues, pc, envVars, commVars, output, writer_ready>>

\* Faulty variant: env_process and communication wait with portMAX_DELAY.
OnlyPeriodicTasksTimeOut(t) ==
    \/ t = "sensor_acquire"
    \/ t = "alarm_output" /\ output # None

\* Whether a blocked task waits with a finite timeout (not portMAX_DELAY).
TimeoutIsFinite(t) ==
    \/ t = "sensor_acquire"
    \/ t = "env_process"
    \/ t = "communication" /\ HasIngress
    \/ t = "alarm_output" /\ output # None

\* Delays are 20 to 1000 ticks, a turn of a task takes a fraction of one.  When
\* Schedulable, a delay does not elapse before the equally and more urgent tasks
\* that are ready have had their turn; otherwise it may elapse at any time.
DelayElapses(t) ==
    /\ ~ IsReady(t)
    /\ TimeoutIsFinite(t)
    /\ Schedulable => \A p \in Level : p >= Priority[t] => ready[p] = <<>>
    /\ ready' = [ready EXCEPT ![Priority[t]] = Append(@, t)]
    /\ UNCHANGED <<queues, pc, envVars, commVars, output, writer_ready>>

-------------------------------------------------------------------------------
(* sensor_acquire_task                                                     *)

\* One sensor_acquisition_poll: a failed read or an invalid sample submits
\* nothing, a full queue drops the sample; vTaskDelay follows in any case.
SensorPoll ==
    /\ Goto("sensor_acquire", "poll", "delay")
    /\ \/ UNCHANGED <<sensor_sample_queue, ready>>
       \/ \E sample \in SensorReadings :
             /\ sensor_sample_is_valid(sample)
             /\ sensor_sample_queue' =
                   Sent(sensor_sample_queue, QueueLength.sensor_sample, sample)
             /\ Wake("env_process")
    /\ UNCHANGED <<command_queue, response_queue, alarm_event_queue, config_update_queue,
                   envVars, commVars, output, writer_ready>>

SensorDelay ==
    /\ BlockAt("sensor_acquire", "delay", "poll")
    /\ UNCHANGED <<queues, envVars, commVars, output, writer_ready>>

-------------------------------------------------------------------------------
(* env_process_task                                                        *)

\* Faulty variant: the drain takes one snapshot and discards the others.
EnvDrainFirstOnly ==
    /\ IF config_update_queue = <<>>
       THEN UNCHANGED processor
       ELSE processor' = [processor EXCEPT !.config = Head(config_update_queue)]
    /\ config_update_queue' = <<>>
    /\ Goto("env_process", "drain", "receive")
    /\ UNCHANGED <<sensor_sample_queue, command_queue, response_queue, alarm_event_queue,
                   ready, env_sample, env_next, commVars, output, writer_ready>>

\* One turn of freertos_drain_config_updates' loop; it ends on an empty queue.
EnvDrainConfig ==
    /\ IF config_update_queue = <<>>
       THEN /\ Goto("env_process", "drain", "receive")
            /\ UNCHANGED <<config_update_queue, processor>>
       ELSE /\ Goto("env_process", "drain", "drain")
            /\ config_update_queue' = Tail(config_update_queue)
            /\ processor' = IF alarm_config_is_valid(Head(config_update_queue))
                            THEN [processor EXCEPT !.config = Head(config_update_queue)]
                            ELSE processor
    /\ UNCHANGED <<sensor_sample_queue, command_queue, response_queue, alarm_event_queue,
                   ready, env_sample, env_next, commVars, output, writer_ready>>

EnvTakeSample(from) ==
    /\ sensor_sample_queue # <<>>
    /\ Goto("env_process", from, "process")
    /\ env_sample' = Head(sensor_sample_queue)
    /\ sensor_sample_queue' = Tail(sensor_sample_queue)
    /\ UNCHANGED <<command_queue, response_queue, alarm_event_queue, config_update_queue,
                   ready, processor, env_next, commVars, output, writer_ready>>

EnvWait ==
    /\ sensor_sample_queue = <<>>
    /\ BlockAt("env_process", "receive", "waiting")
    /\ UNCHANGED <<queues, envVars, commVars, output, writer_ready>>

\* Running again with an empty queue means that the 200 ticks have elapsed.
EnvTimeout ==
    /\ sensor_sample_queue = <<>>
    /\ Goto("env_process", "waiting", "drain")
    /\ UNCHANGED <<queues, ready, envVars, commVars, output, writer_ready>>

\* Faulty variant: the result of xQueueSend is ignored.
PublishAlwaysSucceeds == TRUE

\* freertos_publish_alarm_event
PublishSucceeds == HasRoom(alarm_event_queue, QueueLength.alarm_event)

\* environment_processor_process_sample up to its publish callback.
EnvPublish ==
    LET next_state == alarm_state_update(processor.state, processor.config, env_sample)
    IN  /\ pc["env_process"] = "process"
        /\ IF /\ alarm_config_is_valid(processor.config)
              /\ sensor_sample_is_valid(env_sample)
              /\ PublishSucceeds
           THEN /\ Goto("env_process", "process", "commit")
                /\ alarm_event_queue' =
                      Sent(alarm_event_queue, QueueLength.alarm_event, next_state)
                /\ env_next' = next_state
                /\ Wake("alarm_output")
           ELSE /\ Goto("env_process", "process", "drain")
                /\ UNCHANGED <<alarm_event_queue, env_next, ready>>
        /\ env_sample' = None
        /\ UNCHANGED <<sensor_sample_queue, command_queue, response_queue,
                       config_update_queue, processor, commVars, output, writer_ready>>

\* Faulty variant: the local is cleared before it is copied.
EnvCommitClearsFirst ==
    /\ Goto("env_process", "commit", "drain")
    /\ env_next' = None
    /\ processor' = [processor EXCEPT !.state = env_next']
    /\ UNCHANGED <<queues, ready, env_sample, commVars, output, writer_ready>>

\* Faulty variant: the task also sleeps its period after each sample.
EnvCommitThenDelay ==
    /\ BlockAt("env_process", "commit", "drain")
    /\ processor' = [processor EXCEPT !.state = env_next]
    /\ env_next' = None
    /\ UNCHANGED <<queues, env_sample, commVars, output, writer_ready>>

\* ... and after it: the published state becomes the current one.
EnvCommit ==
    /\ Goto("env_process", "commit", "drain")
    /\ processor' = [processor EXCEPT !.state = env_next]
    /\ env_next' = None
    /\ UNCHANGED <<queues, ready, env_sample, commVars, output, writer_ready>>

EnvStep == \/ EnvDrainConfig
           \/ EnvTakeSample("receive") \/ EnvTakeSample("waiting")
           \/ EnvWait \/ EnvTimeout
           \/ EnvPublish \/ EnvCommit

-------------------------------------------------------------------------------
(* communication_task                                                      *)

\* freertos_submit_ingress_command: at most one line completes in a poll, since
\* the pump stops at the first status that is not IDLE; a line that does not
\* parse submits INVALID; a full queue drops the command without an answer.
CommPollIngress ==
    /\ Goto("communication", "ingress", "receive")
    /\ \/ UNCHANGED command_queue
       \/ /\ HasIngress
          /\ \E command \in Commands :
                command_queue' = Sent(command_queue, QueueLength.command, command)
    /\ UNCHANGED <<sensor_sample_queue, response_queue, alarm_event_queue,
                   config_update_queue, ready, envVars, commVars, output, writer_ready>>

\* Receiving a command and answering it into the task's own response buffer,
\* whose 512 bytes hold the longest answer.  pc then follows status.
CommHandle(from) ==
    LET handled == command_handler_handle(Head(command_queue),
                                          responder.config, responder.sample)
        after == responder_after(responder, handled)
    IN  /\ command_queue # <<>>
        /\ command_queue' = Tail(command_queue)
        /\ IF responder_is_ready(responder)
           THEN /\ Goto("communication", from,
                        CASE handled.effect = "config_changed" -> "forward_config"
                          [] handled.effect = "sample_changed" -> "forward_sample"
                          [] OTHER -> "respond")
                /\ responder' = after
                /\ response' = [result |-> handled.result, effect |-> handled.effect,
                                state |-> after.state]
           ELSE /\ Goto("communication", from, "ingress")
                /\ UNCHANGED <<responder, response>>
        /\ UNCHANGED <<sensor_sample_queue, response_queue, alarm_event_queue,
                       config_update_queue, ready, envVars, peeked, config_lost,
                       output, writer_ready>>

CommWait ==
    /\ command_queue = <<>>
    /\ BlockAt("communication", "receive", "waiting")
    /\ UNCHANGED <<queues, envVars, commVars, output, writer_ready>>

CommTimeout ==
    /\ command_queue = <<>>
    /\ Goto("communication", "waiting", "ingress")
    /\ UNCHANGED <<queues, ready, envVars, commVars, output, writer_ready>>

\* freertos_submit_config_update; its result is ignored.  Nobody blocks on this
\* queue: env_process looks at it when it next comes round.
CommForwardConfig ==
    /\ Goto("communication", "forward_config", "respond")
    /\ config_update_queue' =
          Sent(config_update_queue, QueueLength.config_update, responder.config)
    /\ config_lost' = ~ HasRoom(config_update_queue, QueueLength.config_update)
    /\ UNCHANGED <<sensor_sample_queue, command_queue, response_queue, alarm_event_queue,
                   ready, envVars, responder, response, peeked, output, writer_ready>>

CommForwardSample ==
    /\ Goto("communication", "forward_sample", "respond")
    /\ sensor_sample_queue' =
          Sent(sensor_sample_queue, QueueLength.sensor_sample, responder.sample)
    /\ Wake("env_process")
    /\ UNCHANGED <<command_queue, response_queue, alarm_event_queue, config_update_queue,
                   envVars, commVars, output, writer_ready>>

\* The queue is drained to the writer only after this send succeeded.
CommRespond ==
    /\ IF HasRoom(response_queue, QueueLength.response)
       THEN /\ Goto("communication", "respond", "drain")
            /\ response_queue' = Append(response_queue, response)
       ELSE /\ Goto("communication", "respond", "ingress")
            /\ UNCHANGED response_queue
    /\ response' = None
    /\ UNCHANGED <<sensor_sample_queue, command_queue, alarm_event_queue, config_update_queue,
                   ready, envVars, responder, peeked, config_lost, output, writer_ready>>

\* Faulty variant: the answer is removed before it is written.
CommRemoveThenWrite ==
    /\ HasWriter /\ response_queue # <<>> /\ writer_ready
    /\ Goto("communication", "drain", "remove")
    /\ peeked' = Head(response_queue)
    /\ response_queue' = Tail(response_queue)
    /\ UNCHANGED <<sensor_sample_queue, command_queue, alarm_event_queue, config_update_queue,
                   ready, envVars, responder, response, config_lost, output, writer_ready>>

\* freertos_drain_responses_to_writer: peek and write; a failed write stops it.
CommWriteHead ==
    /\ HasWriter /\ response_queue # <<>> /\ writer_ready
    /\ Goto("communication", "drain", "remove")
    /\ peeked' = Head(response_queue)
    /\ UNCHANGED <<queues, ready, envVars, responder, response, config_lost,
                   output, writer_ready>>

CommDrainEnds ==
    /\ ~ HasWriter \/ response_queue = <<>> \/ ~ writer_ready
    /\ Goto("communication", "drain", "ingress")
    /\ UNCHANGED <<queues, ready, envVars, commVars, output, writer_ready>>

\* The receive that follows a successful write takes whatever is at the head.
CommRemoveHead ==
    /\ Goto("communication", "remove", "drain")
    /\ response_queue' = IF response_queue = <<>> THEN <<>> ELSE Tail(response_queue)
    /\ peeked' = None
    /\ UNCHANGED <<sensor_sample_queue, command_queue, alarm_event_queue, config_update_queue,
                   ready, envVars, responder, response, config_lost, output, writer_ready>>

CommStep == \/ CommPollIngress
            \/ CommHandle("receive") \/ CommHandle("waiting")
            \/ CommWait \/ CommTimeout
            \/ CommForwardConfig \/ CommForwardSample
            \/ CommRespond \/ CommWriteHead \/ CommDrainEnds \/ CommRemoveHead

-------------------------------------------------------------------------------
(* alarm_output_task; AlarmOutput.tla has the rendering and the sink.      *)

\* Faulty variant: the event is peeked at and left in the queue.
AlarmShowPeeked(from) ==
    /\ alarm_event_queue # <<>>
    /\ Goto("alarm_output", from, "receive")
    /\ output' = Head(alarm_event_queue)
    /\ UNCHANGED <<queues, ready, envVars, commVars, writer_ready>>

\* Faulty variant: the first event only starts the refreshing.
AlarmSkipsFirst(from) ==
    /\ alarm_event_queue # <<>>
    /\ Goto("alarm_output", from, "receive")
    /\ output' = IF output = None THEN "NORMAL" ELSE Head(alarm_event_queue)
    /\ alarm_event_queue' = Tail(alarm_event_queue)
    /\ UNCHANGED <<sensor_sample_queue, command_queue, response_queue, config_update_queue,
                   ready, envVars, commVars, writer_ready>>

\* A new event replaces the command and is rendered in the same turn.
AlarmShowEvent(from) ==
    /\ alarm_event_queue # <<>>
    /\ Goto("alarm_output", from, "receive")
    /\ output' = Head(alarm_event_queue)
    /\ alarm_event_queue' = Tail(alarm_event_queue)
    /\ UNCHANGED <<sensor_sample_queue, command_queue, response_queue, config_update_queue,
                   ready, envVars, commVars, writer_ready>>

AlarmWait ==
    /\ alarm_event_queue = <<>>
    /\ BlockAt("alarm_output", "receive", "waiting")
    /\ UNCHANGED <<queues, envVars, commVars, output, writer_ready>>

\* 50 ticks without an event: the command in force is rendered again.
AlarmRefresh ==
    /\ alarm_event_queue = <<>>
    /\ Goto("alarm_output", "waiting", "receive")
    /\ UNCHANGED <<queues, ready, envVars, commVars, output, writer_ready>>

AlarmStep == \/ AlarmShowEvent("receive") \/ AlarmShowEvent("waiting")
             \/ AlarmWait \/ AlarmRefresh

-------------------------------------------------------------------------------
(* Code outside the four tasks: users of rtos_port, and the serial writer. *)

CallerSendsSample ==
    /\ \E sample \in SensorReadings :
          /\ sensor_sample_is_valid(sample)
          /\ sensor_sample_queue' =
                Sent(sensor_sample_queue, QueueLength.sensor_sample, sample)
    /\ Wake("env_process")
    /\ UNCHANGED <<command_queue, response_queue, alarm_event_queue, config_update_queue,
                   pc, envVars, commVars, output, writer_ready>>

CallerSendsCommand ==
    /\ \E command \in Commands :
          /\ command.type # "INVALID"
          /\ command_queue' = Sent(command_queue, QueueLength.command, command)
    /\ Wake("communication")
    /\ UNCHANGED <<sensor_sample_queue, response_queue, alarm_event_queue,
                   config_update_queue, pc, envVars, commVars, output, writer_ready>>

\* freertos_rtos_port_send_response, with a text of the caller's own.
CallerSendsResponse ==
    /\ response_queue' = Sent(response_queue, QueueLength.response,
                              [result |-> "OK", effect |-> "none", state |-> "NORMAL"])
    /\ UNCHANGED <<sensor_sample_queue, command_queue, alarm_event_queue,
                   config_update_queue, ready, pc, envVars, commVars, output, writer_ready>>

CallerReceivesResponse ==
    /\ response_queue # <<>>
    /\ response_queue' = Tail(response_queue)
    /\ UNCHANGED <<sensor_sample_queue, command_queue, alarm_event_queue,
                   config_update_queue, ready, pc, envVars, commVars, output, writer_ready>>

\* The USART's TXE flag comes and goes: response_write times out or succeeds.
WriterChanges ==
    /\ HasWriter
    /\ writer_ready' = ~ writer_ready
    /\ UNCHANGED <<queues, ready, pc, envVars, commVars, output>>

-------------------------------------------------------------------------------
TasksNext == \/ SensorPoll \/ SensorDelay
             \/ EnvStep \/ CommStep \/ AlarmStep
             \/ TimeSlice \/ \E t \in Task : DelayElapses(t)
             \/ WriterChanges

CallersNext == \/ CallerSendsSample \/ CallerSendsCommand
               \/ CallerSendsResponse \/ CallerReceivesResponse

\* The port is open to any code; that of the firmware leaves it to the tasks.
Next == TasksNext \/ CallersNext

Spec       == Init /\ [][Next]_vars
ClosedSpec == Init /\ [][TasksNext]_vars

\* The tick goes on for every delay, though Schedulable disables DelayElapses
\* while other tasks are ready; and no task is starved: the work of a period is
\* short against the period, so a ready task gets the processor again and again
\* even when a more urgent one keeps preempting it.
Fairness ==
    /\ \A t \in Task : SF_vars(DelayElapses(t))
    /\ SF_vars(SensorPoll \/ SensorDelay)
    /\ SF_vars(EnvStep) /\ SF_vars(CommStep) /\ SF_vars(AlarmStep)

FairSpec == ClosedSpec /\ Fairness

-------------------------------------------------------------------------------
(* Properties                                                              *)

Levels == [Level -> Seq(Task)]

Places == {"poll", "delay", "drain", "receive", "waiting", "process", "commit",
           "ingress", "forward_config", "forward_sample", "respond", "remove"}

Answering == {"forward_config", "forward_sample", "respond"}

\* The local variables that hold an item do so exactly while it is worked on.
LocalsInUse ==
    /\ env_sample \in IF pc["env_process"] = "process" THEN Reading ELSE {None}
    /\ env_next \in IF pc["env_process"] = "commit" THEN AlarmStates ELSE {None}
    /\ response \in IF pc["communication"] \in Answering THEN Response ELSE {None}
    /\ peeked \in IF pc["communication"] = "remove" THEN Response ELSE {None}

TypeOK ==
    /\ sensor_sample_queue \in Seq(Reading)
    /\ command_queue \in Seq(Command)
    /\ response_queue \in Seq(Response)
    /\ alarm_event_queue \in Seq(AlarmStates)
    /\ config_update_queue \in Seq(AlarmConfig)
    /\ ready \in Levels
    /\ pc \in [Task -> Places]
    /\ processor \in Processor
    /\ responder \in Responder
    /\ LocalsInUse
    /\ output \in AlarmStates \cup {None}
    /\ writer_ready \in BOOLEAN
    /\ config_lost \in BOOLEAN

Last(queue) == queue[Len(queue)]

\* What the outputs show, or will show once the announced events are taken, is
\* the state the processor decides from; the two differ only between a publish
\* and the assignment after it.  A failed publish must leave no trace
\* (environment_processor.c:49-53), and no task may be in between.
LastAnnounced == IF alarm_event_queue # <<>> THEN Last(alarm_event_queue)
                 ELSE IF output = None THEN "NORMAL" ELSE output

OutputFollowsDecision ==
    LastAnnounced = IF pc["env_process"] = "commit" THEN env_next ELSE processor.state

\* Snapshots are whole configurations, so one that is dropped (a full queue of
\* two, send result ignored) is made good by the next SET that gets through:
\* unless the latest one was lost, env_process holds, or will hold after its
\* next drain, the thresholds the answers report.
LatestSnapshot == IF config_update_queue # <<>> THEN Last(config_update_queue)
                  ELSE processor.config

ConfigFollowsAnswers ==
    ~ config_lost /\ pc["communication"] # "forward_config"
        => LatestSnapshot = responder.config

\* No command sequence makes the responder refuse service or the processor
\* reject a snapshot: every configuration and sample in flight is valid.
DataStaysValid ==
    /\ responder_is_ready(responder)
    /\ processor.config \in ValidConfig
    /\ config_update_queue \in Seq(ValidConfig)
    /\ sensor_sample_queue \in Seq(ValidReading)
    /\ pc["env_process"] = "process" => env_sample \in ValidReading

\* Peek, write and receive are three calls: the answer the receive takes off
\* the queue is the one that was written (rtos_port_freertos.c:215-223).
WrittenAnswerIsRemoved ==
    pc["communication"] = "remove" =>
        response_queue # <<>> /\ Head(response_queue) = peeked

Among(t, list) == \E i \in 1 .. Len(list) : list[i] = t
Once(t, list) == \A i, j \in 1 .. Len(list) : list[i] = t /\ list[j] = t => i = j

\* What the path needs of the task table and of what main leaves in the queues: each
\* consumer at least as urgent as what feeds it, the communication task below all of
\* them, every task ready once, and room behind the boot items (rtos_task_model.c:16-31,
\* main.c:536-547).
PathFits ==
    /\ Priority["env_process"] > Priority["sensor_acquire"]
    /\ Priority["alarm_output"] >= Priority["sensor_acquire"]
    /\ Priority["sensor_acquire"] > Priority["communication"]
    /\ \A t \in Task : /\ Among(t, CreationOrder[Priority[t]])
                       /\ Once(t, CreationOrder[Priority[t]])
    /\ Len(BootSamples) < QueueLength.alarm_event
    /\ Len(BootCommands) < QueueLength.command
    /\ Schedulable

\* With the task table of rtos_task_model.c no send within the sensor path finds
\* its queue full, although every one of them would silently drop: samples,
\* announcements of env_process and commands of the ingress.
SensorPathNeverDrops ==
    /\ Running("sensor_acquire") /\ pc["sensor_acquire"] = "poll"
          => HasRoom(sensor_sample_queue, QueueLength.sensor_sample)
    /\ Running("communication") /\ pc["communication"] = "forward_sample"
          => HasRoom(sensor_sample_queue, QueueLength.sensor_sample)
    /\ Running("communication") /\ pc["communication"] = "ingress"
          => HasRoom(command_queue, QueueLength.command)
    /\ pc["env_process"] = "process"
          => HasRoom(alarm_event_queue, QueueLength.alarm_event)

\* The decisions, the event queue and the outputs together are an AlarmFeed: the
\* publish is the announcement, and the assignment after it a stuttering step.
Feed == INSTANCE AlarmFeed WITH
            States       <- AlarmStates,
            FeedLength   <- QueueLength.alarm_event,
            NothingShown <- None,
            decided      <- IF pc["env_process"] = "commit" THEN env_next
                            ELSE processor.state,
            feed         <- alarm_event_queue,
            shown        <- output

ImplementsAlarmFeed == Feed!SafeSpec

\* Every announced state reaches the outputs, whatever else is going on; the
\* first one too, for which alarm_output waits without a timeout.
AnnouncedIsShown ==
    \A s \in AlarmStates :
        (pc["env_process"] = "commit" /\ env_next = s) ~> (output = s)

\* A SET reaches env_process even when no sample arrives to wake it
\* (rtos_port_freertos.c:163-164), and even when samples keep arriving.
SnapshotIsTaken == config_update_queue # <<>> ~> config_update_queue = <<>>

\* Neither a failing writer nor a full queue keeps the communication task from
\* reading its serial line again.
LineIsPolledAgain == HasIngress => []<>(pc["communication"] = "ingress")

\* Claimed by rtos_port_freertos.c:215-216: an answer the writer could not take
\* stays in the queue and the next rounds of the task retry it.  So once the
\* writer works for good, and commands keep being answered, the queue empties.
RefusedAnswersAreRetried ==
    (<>[]writer_ready /\ []<>(pc["communication"] = "respond"))
        => []<>(response_queue = <<>>)

\* Claimed by command_parser.h:10: STATUS? asks for the current alarm state.  It
\* is asked for here only while env_process has nothing left to process.
StatusIsCurrent ==
    /\ pc["communication"] = "respond" /\ response.effect = "status_requested"
    /\ sensor_sample_queue = <<>> /\ pc["env_process"] = "waiting"
    => response.state = processor.state

===============================================================================
