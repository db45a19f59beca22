-------------------------- MODULE FreeRtosPortProofs --------------------------
(***************************************************************************)
(* What FreeRtosPort promises, for any priorities, queue lengths, boot     *)
(* items, sensor readings and commands.                                    *)
(***************************************************************************)
EXTENDS FreeRtosPort, CommandHandlerProofs, TLAPS

-------------------------------------------------------------------------------
(* Queues                                                                  *)

LEMMA TakingHead ==
    ASSUME NEW S, NEW q \in Seq(S), q # <<>>
    PROVE  /\ Head(q) \in S /\ Head(q) = q[1]
           /\ Tail(q) \in Seq(S)
           /\ Len(q) \in Nat \ {0}
           /\ Len(Tail(q)) = Len(q) - 1
           /\ \A i \in 1..Len(Tail(q)) : Tail(q)[i] = q[i + 1]
OBVIOUS

LEMMA Appending ==
    ASSUME NEW S, NEW q \in Seq(S), NEW x \in S
    PROVE  /\ Append(q, x) \in Seq(S) /\ Append(q, x) # <<>>
           /\ Len(q) \in Nat
           /\ Len(Append(q, x)) = Len(q) + 1
           /\ Append(q, x)[Len(q) + 1] = x
           /\ \A i \in 1..Len(q) : Append(q, x)[i] = q[i]
OBVIOUS

LEMMA SendingKeepsType ==
    ASSUME NEW S, NEW q \in Seq(S), NEW x \in S, NEW length
    PROVE  Sent(q, length, x) \in Seq(S)
BY Appending DEF Sent

\* The item at the end survives every removal at the front.
LEMMA LastOfTail ==
    ASSUME NEW S, NEW q \in Seq(S), Tail(q) # <<>>, q # <<>>
    PROVE  Last(Tail(q)) = Last(q)
BY DEF Last

LEMMA LastOfOne ==
    ASSUME NEW S, NEW q \in Seq(S), q # <<>>, Tail(q) = <<>>
    PROVE  Head(q) = Last(q)
<1>1. Len(Tail(q)) = 0
    <2>1. Len(<<>>) = 0
        OBVIOUS
    <2> QED
        BY <2>1
<1>2. Len(q) = 1 /\ Head(q) = q[1]
    BY <1>1, TakingHead
<1> QED
    BY <1>2 DEF Last

LEMMA LastOfAppend ==
    ASSUME NEW S, NEW q \in Seq(S), NEW x \in S
    PROVE  Append(q, x) # <<>> /\ Last(Append(q, x)) = x
BY DEF Last

-------------------------------------------------------------------------------
(* The scheduler                                                           *)

LEMMA PriorityIsLevel ==
    ASSUME NEW t \in Task
    PROVE  Priority[t] \in Level
BY DEF Level

LEMMA WakingKeepsType ==
    ASSUME ready \in Levels, NEW t \in Task, Wake(t)
    PROVE  ready' \in Levels
<1>1. Append(ready[Priority[t]], t) \in Seq(Task)
    BY PriorityIsLevel DEF Levels
<1> QED
    BY <1>1, PriorityIsLevel DEF Wake, Levels

LEMMA BlockingKeepsType ==
    ASSUME ready \in Levels, NEW t \in Task, NEW from, NEW to, BlockAt(t, from, to)
    PROVE  ready' \in Levels
<1>1. ready[Priority[t]] \in Seq(Task) /\ ready[Priority[t]] # <<>>
    BY PriorityIsLevel DEF Levels, BlockAt, Goto, Running
<1>2. Tail(ready[Priority[t]]) \in Seq(Task)
    BY <1>1, TakingHead
<1> QED
    BY <1>2, PriorityIsLevel DEF BlockAt, Levels

LEMMA GoingKeepsType ==
    ASSUME pc \in [Task -> Places], NEW t \in Task, NEW from, NEW to \in Places,
           Goto(t, from, to)
    PROVE  pc' \in [Task -> Places]
BY DEF Goto

-------------------------------------------------------------------------------
(* Types                                                                   *)

LEMMA TypesInitially == Init => TypeOK
<1> SUFFICES ASSUME Init
             PROVE  TypeOK
    OBVIOUS
<1>1. \A S : <<>> \in Seq(S)
    OBVIOUS
<1>2. pc \in [Task -> Places]
    BY DEF Init, DataInit, Places, Task
<1>3. LocalsInUse
    BY DEF Init, DataInit, LocalsInUse, Answering, Task
<1>4. sensor_sample_queue \in Seq(Reading) /\ command_queue \in Seq(Command)
    <2>1. BootSamples \in Seq(Reading)
        BY PortAssumption DEF ValidReading
    <2> QED
        BY <2>1, PortAssumption DEF Init, DataInit
<1>5. processor \in Processor /\ responder \in Responder
    BY PortAssumption
       DEF Init, DataInit, Processor, Responder, AlarmStates, ValidConfig, ValidReading
<1>6. ready \in Levels
    BY PortAssumption DEF Init, DataInit, Levels
<1> QED
    BY <1>1, <1>2, <1>3, <1>4, <1>5, <1>6 DEF Init, DataInit, TypeOK

\* One step per action: a step of a task disturbs its place, its own locals and
\* the queue it accesses.
LEMMA TypesPreserved == TypeOK /\ [Next]_vars => TypeOK'
<1> SUFFICES ASSUME TypeOK, [Next]_vars
             PROVE  TypeOK'
    OBVIOUS
<1> USE DEF TypeOK, Places
<1>t. {"sensor_acquire", "env_process", "communication", "alarm_output"} = Task
    BY DEF Task
<1>1. CASE SensorPoll
    <2>1. sensor_sample_queue' \in Seq(Reading)
        BY <1>1, PortAssumption, SendingKeepsType DEF SensorPoll
    <2>2. ready' \in Levels /\ pc' \in [Task -> Places]
        BY <1>1, <1>t, WakingKeepsType, GoingKeepsType DEF SensorPoll
    <2>3. LocalsInUse'
        BY <1>1, <1>t DEF SensorPoll, Goto, LocalsInUse, envVars, commVars
    <2> QED
        BY <1>1, <2>1, <2>2, <2>3 DEF SensorPoll, envVars, commVars
<1>2. CASE SensorDelay
    <2>1. ready' \in Levels /\ pc' \in [Task -> Places]
        BY <1>2, <1>t, BlockingKeepsType, GoingKeepsType DEF SensorDelay, BlockAt
    <2>2. LocalsInUse'
        BY <1>2, <1>t DEF SensorDelay, BlockAt, Goto, LocalsInUse, envVars, commVars
    <2> QED
        BY <1>2, <2>1, <2>2 DEF SensorDelay, queues, envVars, commVars
<1>3. CASE EnvDrainConfig
    <2>1. pc' \in [Task -> Places] /\ LocalsInUse'
        BY <1>3, <1>t, GoingKeepsType DEF EnvDrainConfig, Goto, LocalsInUse, commVars
    <2>2. config_update_queue # <<>> => /\ Head(config_update_queue) \in AlarmConfig
                                        /\ Tail(config_update_queue) \in Seq(AlarmConfig)
        BY TakingHead
    <2>3. config_update_queue' \in Seq(AlarmConfig)
        BY <1>3, <2>2 DEF EnvDrainConfig
    <2>4. processor' \in Processor
        BY <1>3, <2>2 DEF EnvDrainConfig, Processor
    <2> QED
        BY <1>3, <2>1, <2>3, <2>4 DEF EnvDrainConfig, commVars
<1>4. ASSUME NEW from \in {"receive", "waiting"}, EnvTakeSample(from)
      PROVE  TypeOK'
    <2>1. sensor_sample_queue' \in Seq(Reading) /\ env_sample' \in Reading
        BY <1>4, TakingHead DEF EnvTakeSample
    <2>2. pc' \in [Task -> Places]
        BY <1>4, <1>t, GoingKeepsType DEF EnvTakeSample
    <2>3. pc' = [pc EXCEPT !["env_process"] = "process"]
        BY <1>4 DEF EnvTakeSample, Goto
    <2>4. LocalsInUse'
        BY <1>4, <1>t, <2>1, <2>3 DEF EnvTakeSample, Goto, LocalsInUse, commVars
    <2> QED
        BY <1>4, <2>1, <2>2, <2>4 DEF EnvTakeSample, commVars
<1>5. CASE EnvWait
    <2>1. ready' \in Levels /\ pc' \in [Task -> Places]
        BY <1>5, <1>t, BlockingKeepsType, GoingKeepsType DEF EnvWait, BlockAt
    <2>2. LocalsInUse'
        BY <1>5, <1>t DEF EnvWait, BlockAt, Goto, LocalsInUse, envVars, commVars
    <2> QED
        BY <1>5, <2>1, <2>2 DEF EnvWait, queues, envVars, commVars
<1>6. CASE EnvTimeout
    <2>1. pc' \in [Task -> Places] /\ LocalsInUse'
        BY <1>6, <1>t, GoingKeepsType DEF EnvTimeout, Goto, LocalsInUse, envVars, commVars
    <2> QED
        BY <1>6, <2>1 DEF EnvTimeout, queues, envVars, commVars
<1>7. CASE EnvPublish
    <2>1. CASE UNCHANGED <<alarm_event_queue, env_next, ready>>
               /\ Goto("env_process", "process", "drain")
        <3>1. pc' \in [Task -> Places] /\ LocalsInUse'
            BY <1>7, <2>1, <1>t, GoingKeepsType
               DEF EnvPublish, Goto, LocalsInUse, commVars
        <3> QED
            BY <1>7, <2>1, <3>1 DEF EnvPublish, commVars
    <2>2. ASSUME NEW next_state \in AlarmStates,
                 alarm_event_queue' =
                    Sent(alarm_event_queue, QueueLength.alarm_event, next_state),
                 env_next' = next_state,
                 Goto("env_process", "process", "commit"),
                 Wake("alarm_output")
          PROVE  TypeOK'
        <3>1. alarm_event_queue' \in Seq(AlarmStates)
            BY <2>2, SendingKeepsType
        <3>2. ready' \in Levels /\ pc' \in [Task -> Places]
            BY <2>2, <1>t, WakingKeepsType, GoingKeepsType
        <3>3. LocalsInUse'
            BY <1>7, <2>2, <1>t DEF EnvPublish, Goto, LocalsInUse, commVars
        <3> QED
            BY <1>7, <3>1, <3>2, <3>3 DEF EnvPublish, commVars
    <2> QED
        BY <1>7, <2>1, <2>2, DecisionIsAState DEF EnvPublish
<1>8. CASE EnvCommit
    <2>1. env_next \in AlarmStates
        BY <1>8 DEF EnvCommit, Goto, LocalsInUse
    <2>2. processor' \in Processor
        BY <1>8, <2>1 DEF EnvCommit, Processor
    <2>3. pc' \in [Task -> Places] /\ LocalsInUse'
        BY <1>8, <1>t, GoingKeepsType DEF EnvCommit, Goto, LocalsInUse, commVars
    <2> QED
        BY <1>8, <2>2, <2>3 DEF EnvCommit, queues, commVars
<1>9. CASE CommPollIngress
    <2>1. command_queue' \in Seq(Command)
        BY <1>9, PortAssumption, SendingKeepsType DEF CommPollIngress
    <2>2. pc' \in [Task -> Places] /\ LocalsInUse'
        BY <1>9, <1>t, GoingKeepsType
           DEF CommPollIngress, Goto, LocalsInUse, Answering, envVars, commVars
    <2> QED
        BY <1>9, <2>1, <2>2 DEF CommPollIngress, envVars, commVars
<1>10. ASSUME NEW from \in {"receive", "waiting"}, CommHandle(from)
       PROVE  TypeOK'
    <2> DEFINE handled == command_handler_handle(Head(command_queue),
                                                 responder.config, responder.sample)
               after == responder_after(responder, handled)
    <2>1. Head(command_queue) \in Command /\ command_queue' \in Seq(Command)
        BY <1>10, TakingHead DEF CommHandle
    <2>2. /\ handled.result \in Results /\ handled.effect \in Effects
          /\ handled.config \in AlarmConfig /\ handled.sample \in Reading
        BY <2>1, HandlingTyped DEF Responder
    <2>3. after \in Responder
        BY <2>2, DecisionIsAState DEF responder_after, Responder
    <2>4. [result |-> handled.result, effect |-> handled.effect,
           state |-> after.state] \in Response
        BY <2>2, <2>3 DEF Response, Responder
    <2>5. CASE UNCHANGED <<responder, response>> /\ Goto("communication", from, "ingress")
        <3>1. pc' \in [Task -> Places] /\ LocalsInUse'
            BY <1>10, <2>5, <1>t, GoingKeepsType
               DEF CommHandle, Goto, LocalsInUse, Answering, envVars
        <3> QED
            BY <1>10, <2>1, <2>5, <3>1 DEF CommHandle, envVars
    <2>6. ASSUME NEW to \in Answering,
                 Goto("communication", from, to),
                 responder' \in Responder, response' \in Response
          PROVE  TypeOK'
        <3>1. pc' \in [Task -> Places]
            BY <2>6, <1>t, GoingKeepsType DEF Answering
        <3>2. LocalsInUse'
            BY <1>10, <2>6, <1>t DEF CommHandle, Goto, LocalsInUse, Answering, envVars
        <3> QED
            BY <1>10, <2>1, <2>6, <3>1, <3>2 DEF CommHandle, envVars
    <2> HIDE DEF handled, after
    <2>7. CASE responder_is_ready(responder)
        <3>1. \E to \in Answering : Goto("communication", from, to)
            BY <1>10, <2>7 DEF CommHandle, Answering
        <3>2. responder' \in Responder /\ response' \in Response
            BY <1>10, <2>3, <2>4, <2>7 DEF CommHandle, handled, after
        <3> QED
            BY <2>6, <3>1, <3>2
    <2> QED
        BY <1>10, <2>5, <2>7 DEF CommHandle
<1>11. CASE CommWait
    <2>1. ready' \in Levels /\ pc' \in [Task -> Places]
        BY <1>11, <1>t, BlockingKeepsType, GoingKeepsType DEF CommWait, BlockAt
    <2>2. LocalsInUse'
        BY <1>11, <1>t
           DEF CommWait, BlockAt, Goto, LocalsInUse, Answering, envVars, commVars
    <2> QED
        BY <1>11, <2>1, <2>2 DEF CommWait, queues, envVars, commVars
<1>12. CASE CommTimeout
    <2>1. pc' \in [Task -> Places] /\ LocalsInUse'
        BY <1>12, <1>t, GoingKeepsType
           DEF CommTimeout, Goto, LocalsInUse, Answering, envVars, commVars
    <2> QED
        BY <1>12, <2>1 DEF CommTimeout, queues, envVars, commVars
<1>13. CASE CommForwardConfig
    <2>1. config_update_queue' \in Seq(AlarmConfig)
        BY <1>13, SendingKeepsType DEF CommForwardConfig, Responder
    <2>2. pc' \in [Task -> Places] /\ LocalsInUse'
        BY <1>13, <1>t, GoingKeepsType
           DEF CommForwardConfig, Goto, LocalsInUse, Answering, envVars
    <2> QED
        BY <1>13, <2>1, <2>2 DEF CommForwardConfig, HasRoom, envVars
<1>14. CASE CommForwardSample
    <2>1. sensor_sample_queue' \in Seq(Reading)
        BY <1>14, SendingKeepsType DEF CommForwardSample, Responder
    <2>2. ready' \in Levels /\ pc' \in [Task -> Places]
        BY <1>14, <1>t, WakingKeepsType, GoingKeepsType DEF CommForwardSample
    <2>3. LocalsInUse'
        BY <1>14, <1>t
           DEF CommForwardSample, Goto, LocalsInUse, Answering, envVars, commVars
    <2> QED
        BY <1>14, <2>1, <2>2, <2>3 DEF CommForwardSample, envVars, commVars
<1>15. CASE CommRespond
    <2>1. response \in Response
        BY <1>15 DEF CommRespond, Goto, LocalsInUse, Answering
    <2>2. response_queue' \in Seq(Response)
        <3>1. Append(response_queue, response) \in Seq(Response)
            BY <2>1, Appending
        <3> QED
            BY <1>15, <3>1 DEF CommRespond
    <2>3. pc' \in [Task -> Places] /\ LocalsInUse'
        BY <1>15, <1>t, GoingKeepsType
           DEF CommRespond, Goto, LocalsInUse, Answering, envVars
    <2> QED
        BY <1>15, <2>2, <2>3 DEF CommRespond, envVars
<1>16. CASE CommWriteHead
    <2>1. peeked' \in Response
        BY <1>16, TakingHead DEF CommWriteHead
    <2>2. pc' \in [Task -> Places] /\ LocalsInUse'
        BY <1>16, <2>1, <1>t, GoingKeepsType
           DEF CommWriteHead, Goto, LocalsInUse, Answering, envVars
    <2> QED
        BY <1>16, <2>2 DEF CommWriteHead, queues, envVars
<1>17. CASE CommDrainEnds
    <2>1. pc' \in [Task -> Places] /\ LocalsInUse'
        BY <1>17, <1>t, GoingKeepsType
           DEF CommDrainEnds, Goto, LocalsInUse, Answering, envVars, commVars
    <2> QED
        BY <1>17, <2>1 DEF CommDrainEnds, queues, envVars, commVars
<1>18. CASE CommRemoveHead
    <2>1. response_queue' \in Seq(Response)
        BY <1>18, TakingHead DEF CommRemoveHead
    <2>2. pc' \in [Task -> Places] /\ LocalsInUse'
        BY <1>18, <1>t, GoingKeepsType
           DEF CommRemoveHead, Goto, LocalsInUse, Answering, envVars
    <2> QED
        BY <1>18, <2>1, <2>2 DEF CommRemoveHead, envVars
<1>19. ASSUME NEW from, AlarmShowEvent(from)
       PROVE  TypeOK'
    <2>1. alarm_event_queue' \in Seq(AlarmStates) /\ output' \in AlarmStates
        BY <1>19, TakingHead DEF AlarmShowEvent
    <2>2. pc' \in [Task -> Places] /\ LocalsInUse'
        BY <1>19, <1>t, GoingKeepsType
           DEF AlarmShowEvent, Goto, LocalsInUse, envVars, commVars
    <2> QED
        BY <1>19, <2>1, <2>2 DEF AlarmShowEvent, envVars, commVars
<1>20. CASE AlarmWait
    <2>1. ready' \in Levels /\ pc' \in [Task -> Places]
        BY <1>20, <1>t, BlockingKeepsType, GoingKeepsType DEF AlarmWait, BlockAt
    <2>2. LocalsInUse'
        BY <1>20, <1>t DEF AlarmWait, BlockAt, Goto, LocalsInUse, envVars, commVars
    <2> QED
        BY <1>20, <2>1, <2>2 DEF AlarmWait, queues, envVars, commVars
<1>21. CASE AlarmRefresh
    <2>1. pc' \in [Task -> Places] /\ LocalsInUse'
        BY <1>21, <1>t, GoingKeepsType
           DEF AlarmRefresh, Goto, LocalsInUse, envVars, commVars
    <2> QED
        BY <1>21, <2>1 DEF AlarmRefresh, queues, envVars, commVars
<1>22. CASE TimeSlice
    <2>1. PICK t \in Task : /\ Running(t)
                            /\ ready' = [ready EXCEPT ![Priority[t]] = Append(Tail(@), t)]
        BY <1>22 DEF TimeSlice
    <2>2. ready[Priority[t]] \in Seq(Task) /\ ready[Priority[t]] # <<>>
        BY <2>1, PriorityIsLevel DEF Running, Levels
    <2>3. Append(Tail(ready[Priority[t]]), t) \in Seq(Task)
        BY <2>2, TakingHead, Appending
    <2>4. ready' \in Levels
        BY <2>1, <2>3, PriorityIsLevel DEF Levels
    <2> QED
        BY <1>22, <2>4 DEF TimeSlice, LocalsInUse, queues, envVars, commVars
<1>23. ASSUME NEW t \in Task, DelayElapses(t)
       PROVE  TypeOK'
    <2>1. Append(ready[Priority[t]], t) \in Seq(Task)
        BY PriorityIsLevel DEF Levels
    <2>2. ready' \in Levels
        BY <1>23, <2>1, PriorityIsLevel DEF DelayElapses, Levels
    <2> QED
        BY <1>23, <2>2 DEF DelayElapses, LocalsInUse, queues, envVars, commVars
<1>24. CASE CallerSendsSample
    <2>1. sensor_sample_queue' \in Seq(Reading)
        BY <1>24, PortAssumption, SendingKeepsType DEF CallerSendsSample
    <2>2. ready' \in Levels
        BY <1>24, <1>t, WakingKeepsType DEF CallerSendsSample
    <2> QED
        BY <1>24, <2>1, <2>2 DEF CallerSendsSample, LocalsInUse, envVars, commVars
<1>25. CASE CallerSendsCommand
    <2>1. command_queue' \in Seq(Command)
        BY <1>25, PortAssumption, SendingKeepsType DEF CallerSendsCommand
    <2>2. ready' \in Levels
        BY <1>25, <1>t, WakingKeepsType DEF CallerSendsCommand
    <2> QED
        BY <1>25, <2>1, <2>2 DEF CallerSendsCommand, LocalsInUse, envVars, commVars
<1>26. CASE CallerSendsResponse
    <2>1. [result |-> "OK", effect |-> "none", state |-> "NORMAL"] \in Response
        BY DEF Response, Results, Effects, AlarmStates
    <2>2. response_queue' \in Seq(Response)
        BY <1>26, <2>1, SendingKeepsType DEF CallerSendsResponse
    <2> QED
        BY <1>26, <2>2 DEF CallerSendsResponse, LocalsInUse, envVars, commVars
<1>27. CASE CallerReceivesResponse
    <2>1. response_queue' \in Seq(Response)
        BY <1>27, TakingHead DEF CallerReceivesResponse
    <2> QED
        BY <1>27, <2>1 DEF CallerReceivesResponse, LocalsInUse, envVars, commVars
<1>28. CASE WriterChanges
    BY <1>28 DEF WriterChanges, LocalsInUse, queues, envVars, commVars
<1>29. CASE UNCHANGED vars
    BY <1>29 DEF vars, LocalsInUse, queues, envVars, commVars
<1> QED
    BY <1>1, <1>2, <1>3, <1>4, <1>5, <1>6, <1>7, <1>8, <1>9, <1>10, <1>11, <1>12, <1>13,
       <1>14, <1>15, <1>16, <1>17, <1>18, <1>19, <1>20, <1>21, <1>22, <1>23, <1>24, <1>25,
       <1>26, <1>27, <1>28, <1>29
       DEF Next, TasksNext, CallersNext, EnvStep, CommStep, AlarmStep

\* Every variable keeps its type, and the locals of the tasks are in use exactly
\* where the code works on them.
THEOREM PortTypeOK == Spec => []TypeOK
BY TypesInitially, TypesPreserved, PTL DEF Spec

-------------------------------------------------------------------------------
(* The alarm path                                                          *)

Decided == IF pc["env_process"] = "commit" THEN env_next ELSE processor.state

\* Every step is an announcement, a showing, or leaves the feed alone; the
\* assignment after the publish (EnvCommit) is among the last.
LEMMA StepsOfTheFeed == TypeOK /\ [Next]_vars => [Feed!Next]_(Feed!feedVars)
<1> SUFFICES ASSUME TypeOK, [Next]_vars
             PROVE  [Feed!Next]_(Feed!feedVars)
    OBVIOUS
<1>t. /\ pc \in [Task -> Places]
      /\ {"sensor_acquire", "env_process", "communication", "alarm_output"} = Task
    BY DEF TypeOK, Task
<1>s. ASSUME UNCHANGED <<alarm_event_queue, output, Decided>>
      PROVE  [Feed!Next]_(Feed!feedVars)
    BY <1>s DEF Decided, Feed!feedVars
<1>q. ASSUME UNCHANGED <<alarm_event_queue, output, processor, env_next>>,
             pc'["env_process"] = pc["env_process"]
      PROVE  [Feed!Next]_(Feed!feedVars)
    BY <1>q, <1>s DEF Decided
<1>1. CASE EnvPublish
    <2>1. CASE /\ UNCHANGED <<alarm_event_queue, env_next, ready>>
               /\ Goto("env_process", "process", "drain")
        BY <1>1, <2>1, <1>s, <1>t DEF EnvPublish, Goto, Decided
    <2>2. ASSUME NEW next_state \in AlarmStates,
                 PublishSucceeds,
                 alarm_event_queue' =
                    Sent(alarm_event_queue, QueueLength.alarm_event, next_state),
                 env_next' = next_state,
                 Goto("env_process", "process", "commit")
          PROVE  Feed!Announce
        <3>1. Decided' = next_state
            BY <2>2, <1>t DEF Goto, Decided
        <3>2. Len(alarm_event_queue) < QueueLength.alarm_event
            BY <2>2 DEF PublishSucceeds, HasRoom
        <3>3. alarm_event_queue' = Append(alarm_event_queue, Decided')
            BY <2>2, <3>1, <3>2 DEF Sent, HasRoom
        <3> QED
            BY <1>1, <2>2, <3>1, <3>2, <3>3 DEF EnvPublish, Decided, Feed!Announce
    <2> QED
        BY <1>1, <2>1, <2>2, DecisionIsAState DEF EnvPublish, Feed!Next
<1>2. CASE EnvCommit
    <2>1. Decided' = Decided
        BY <1>2, <1>t DEF EnvCommit, Goto, Decided, TypeOK, Processor
    <2> QED
        BY <1>2, <2>1, <1>s DEF EnvCommit, queues
<1>3. ASSUME NEW from, AlarmShowEvent(from)
      PROVE  [Feed!Next]_(Feed!feedVars)
    <2>1. Decided' = Decided
        BY <1>3, <1>t DEF AlarmShowEvent, Goto, Decided, envVars
    <2> QED
        BY <1>3, <2>1 DEF AlarmShowEvent, Decided, Feed!Show, Feed!Next
<1>4. CASE EnvDrainConfig
    BY <1>4, <1>s, <1>t DEF EnvDrainConfig, Goto, Decided, TypeOK, Processor
<1>5. ASSUME NEW from \in {"receive", "waiting"}, EnvTakeSample(from)
      PROVE  [Feed!Next]_(Feed!feedVars)
    BY <1>5, <1>s, <1>t DEF EnvTakeSample, Goto, Decided
<1>6. CASE EnvWait \/ EnvTimeout
    BY <1>6, <1>s, <1>t DEF EnvWait, EnvTimeout, BlockAt, Goto, Decided, queues, envVars
<1>7. CASE SensorPoll \/ SensorDelay
    BY <1>7, <1>q, <1>t DEF SensorPoll, SensorDelay, BlockAt, Goto, queues, envVars
<1>8. CASE CommStep
    <2>1. ASSUME NEW from, CommHandle(from)
          PROVE  [Feed!Next]_(Feed!feedVars)
        BY <2>1, <1>q, <1>t DEF CommHandle, Goto, envVars
    <2>2. CASE CommPollIngress \/ CommWait \/ CommTimeout
        BY <2>2, <1>q, <1>t
           DEF CommPollIngress, CommWait, CommTimeout, BlockAt, Goto, queues, envVars
    <2>3. CASE CommForwardConfig \/ CommForwardSample \/ CommRespond
        BY <2>3, <1>q, <1>t
           DEF CommForwardConfig, CommForwardSample, CommRespond, Goto, envVars
    <2>4. CASE CommWriteHead \/ CommDrainEnds \/ CommRemoveHead
        BY <2>4, <1>q, <1>t
           DEF CommWriteHead, CommDrainEnds, CommRemoveHead, Goto, queues, envVars
    <2> QED
        BY <1>8, <2>1, <2>2, <2>3, <2>4 DEF CommStep
<1>9. CASE AlarmWait \/ AlarmRefresh
    BY <1>9, <1>q, <1>t DEF AlarmWait, AlarmRefresh, BlockAt, Goto, queues, envVars
<1>10. CASE TimeSlice \/ \E t \in Task : DelayElapses(t)
    BY <1>10, <1>q DEF TimeSlice, DelayElapses, queues, envVars
<1>11. CASE \/ CallerSendsSample \/ CallerSendsCommand
            \/ CallerSendsResponse \/ CallerReceivesResponse \/ WriterChanges
    BY <1>11, <1>q
       DEF CallerSendsSample, CallerSendsCommand, CallerSendsResponse,
           CallerReceivesResponse, WriterChanges, queues, envVars
<1>12. CASE UNCHANGED vars
    BY <1>12, <1>q DEF vars, queues, envVars
<1> QED
    BY <1>1, <1>2, <1>3, <1>4, <1>5, <1>6, <1>7, <1>8, <1>9, <1>10, <1>11, <1>12
       DEF Next, TasksNext, CallersNext, EnvStep, AlarmStep

\* Decisions, event queue and outputs together are an ordered feed of its length.
THEOREM PortImplementsAlarmFeed == Spec => ImplementsAlarmFeed
<1>1. Init => Feed!Init
    BY DEF Init, DataInit, Feed!Init, Task
<1> QED
    BY <1>1, StepsOfTheFeed, PortTypeOK, PTL DEF Spec, ImplementsAlarmFeed, Feed!SafeSpec

\* The outputs show, or will show, what the processor stands by: an announcement
\* appends the new decision, a showing removes the oldest.
THEOREM PortOutputFollowsDecision == Spec => []OutputFollowsDecision
<1>1. Init => OutputFollowsDecision
    BY DEF Init, DataInit, OutputFollowsDecision, LastAnnounced, Task
<1>2. OutputFollowsDecision /\ TypeOK /\ TypeOK' /\ [Feed!Next]_(Feed!feedVars)
          => OutputFollowsDecision'
    <2> SUFFICES ASSUME OutputFollowsDecision, TypeOK, TypeOK', [Feed!Next]_(Feed!feedVars)
                 PROVE  LastAnnounced' = Decided'
        BY DEF OutputFollowsDecision, Decided
    <2>0. LastAnnounced = Decided /\ alarm_event_queue \in Seq(AlarmStates)
        BY DEF OutputFollowsDecision, Decided, TypeOK
    <2>1. CASE Feed!Announce
        <3>1. Decided' \in AlarmStates /\ alarm_event_queue' = Append(alarm_event_queue, Decided')
            BY <2>1 DEF Feed!Announce, Decided
        <3> QED
            BY <2>0, <3>1, LastOfAppend DEF LastAnnounced
    <2>2. CASE Feed!Show
        <3>1. /\ alarm_event_queue # <<>>
              /\ output' = Head(alarm_event_queue)
              /\ alarm_event_queue' = Tail(alarm_event_queue)
              /\ Decided' = Decided
            BY <2>2 DEF Feed!Show, Decided
        <3>2. output' # None
            BY <2>0, <3>1, TakingHead, PortAssumption
        <3>3. CASE Tail(alarm_event_queue) = <<>>
            BY <2>0, <3>1, <3>2, <3>3, LastOfOne DEF LastAnnounced
        <3>4. CASE Tail(alarm_event_queue) # <<>>
            BY <2>0, <3>1, <3>4, LastOfTail DEF LastAnnounced
        <3> QED
            BY <3>3, <3>4
    <2>3. CASE UNCHANGED Feed!feedVars
        BY <2>0, <2>3 DEF Feed!feedVars, LastAnnounced, Decided
    <2> QED
        BY <2>1, <2>2, <2>3 DEF Feed!Next
<1> QED
    BY <1>1, <1>2, StepsOfTheFeed, PortTypeOK, PTL DEF Spec

-------------------------------------------------------------------------------
(* Valid data                                                              *)

\* Data enters through the checked sends and through commands, which keep a
\* valid configuration and sample valid; everywhere else it is only moved.
LEMMA ValidPreserved == TypeOK /\ DataStaysValid /\ [Next]_vars => DataStaysValid'
<1> SUFFICES ASSUME TypeOK, DataStaysValid, [Next]_vars
             PROVE  DataStaysValid'
    OBVIOUS
<1> USE DEF DataStaysValid
<1>t. /\ pc \in [Task -> Places]
      /\ {"sensor_acquire", "env_process", "communication", "alarm_output"} = Task
    BY DEF TypeOK, Task
<1>q. ASSUME UNCHANGED <<sensor_sample_queue, config_update_queue, responder>>,
             processor'.config = processor.config,
             pc'["env_process"] = "process" => pc["env_process"] = "process",
             env_sample' = env_sample \/ pc'["env_process"] # "process"
      PROVE  DataStaysValid'
    BY <1>q
<1>s. ASSUME NEW sample \in ValidReading,
             sensor_sample_queue' =
                Sent(sensor_sample_queue, QueueLength.sensor_sample, sample)
      PROVE  sensor_sample_queue' \in Seq(ValidReading)
    BY <1>s, SendingKeepsType
<1>r. \A sample \in SensorReadings :
          sensor_sample_is_valid(sample) => sample \in ValidReading
    BY PortAssumption DEF ValidReading
<1>1. CASE SensorPoll
    <2>1. sensor_sample_queue' \in Seq(ValidReading)
        BY <1>1, <1>s, <1>r DEF SensorPoll
    <2> QED
        BY <1>1, <2>1, <1>t DEF SensorPoll, Goto, envVars, commVars
<1>2. CASE SensorDelay
    BY <1>2, <1>q, <1>t DEF SensorDelay, BlockAt, Goto, queues, envVars, commVars
<1>3. CASE EnvDrainConfig
    <2>1. config_update_queue # <<>> => /\ Head(config_update_queue) \in ValidConfig
                                        /\ Tail(config_update_queue) \in Seq(ValidConfig)
        BY TakingHead
    <2>2. config_update_queue' \in Seq(ValidConfig)
        BY <1>3, <2>1 DEF EnvDrainConfig
    <2>3. processor'.config \in ValidConfig
        BY <1>3, <2>1 DEF EnvDrainConfig, TypeOK, Processor
    <2> QED
        BY <1>3, <2>2, <2>3, <1>t DEF EnvDrainConfig, Goto, commVars
<1>4. ASSUME NEW from \in {"receive", "waiting"}, EnvTakeSample(from)
      PROVE  DataStaysValid'
    <2>1. sensor_sample_queue' \in Seq(ValidReading) /\ env_sample' \in ValidReading
        BY <1>4, TakingHead DEF EnvTakeSample
    <2> QED
        BY <1>4, <2>1 DEF EnvTakeSample, commVars
<1>5. CASE EnvWait \/ EnvTimeout
    BY <1>5, <1>q, <1>t
       DEF EnvWait, EnvTimeout, BlockAt, Goto, queues, envVars, commVars
<1>6. CASE EnvPublish
    BY <1>6, <1>q, <1>t DEF EnvPublish, Goto, commVars
<1>7. CASE EnvCommit
    BY <1>7, <1>q, <1>t DEF EnvCommit, Goto, queues, commVars, TypeOK, Processor
<1>8. ASSUME NEW from, CommHandle(from)
      PROVE  DataStaysValid'
    <2>1. Head(command_queue) \in Command
        BY <1>8, TakingHead DEF CommHandle, TypeOK
    <2>2. responder_is_ready(responder')
        BY <1>8, <2>1, HandlingKeepsValid
           DEF CommHandle, responder_is_ready, responder_after, TypeOK, Responder
    <2> QED
        BY <1>8, <2>2, <1>t DEF CommHandle, Goto, envVars
<1>9. CASE CommPollIngress \/ CommWait \/ CommTimeout
    BY <1>9, <1>q, <1>t
       DEF CommPollIngress, CommWait, CommTimeout, BlockAt, Goto, queues, envVars, commVars
<1>10. CASE CommForwardConfig
    <2>1. responder.config \in ValidConfig
        BY DEF responder_is_ready, ValidConfig, TypeOK, Responder
    <2>2. config_update_queue' \in Seq(ValidConfig)
        BY <1>10, <2>1, SendingKeepsType DEF CommForwardConfig
    <2> QED
        BY <1>10, <2>2, <1>t DEF CommForwardConfig, Goto, envVars
<1>11. CASE CommForwardSample
    <2>1. responder.sample \in ValidReading
        BY DEF responder_is_ready, ValidReading, TypeOK, Responder
    <2>2. sensor_sample_queue' \in Seq(ValidReading)
        BY <1>11, <2>1, <1>s DEF CommForwardSample
    <2> QED
        BY <1>11, <2>2, <1>t DEF CommForwardSample, Goto, envVars, commVars
<1>12. CASE CommRespond \/ CommWriteHead \/ CommDrainEnds \/ CommRemoveHead
    BY <1>12, <1>q, <1>t
       DEF CommRespond, CommWriteHead, CommDrainEnds, CommRemoveHead, Goto, queues,
           envVars, commVars
<1>13. ASSUME NEW from, AlarmShowEvent(from)
       PROVE  DataStaysValid'
    BY <1>13, <1>q, <1>t DEF AlarmShowEvent, Goto, envVars, commVars
<1>14. CASE AlarmWait \/ AlarmRefresh
    BY <1>14, <1>q, <1>t DEF AlarmWait, AlarmRefresh, BlockAt, Goto, queues, envVars, commVars
<1>15. CASE TimeSlice \/ \E t \in Task : DelayElapses(t)
    BY <1>15, <1>q DEF TimeSlice, DelayElapses, queues, envVars, commVars
<1>16. CASE CallerSendsSample
    <2>1. sensor_sample_queue' \in Seq(ValidReading)
        BY <1>16, <1>s, <1>r DEF CallerSendsSample
    <2> QED
        BY <1>16, <2>1 DEF CallerSendsSample, envVars, commVars
<1>17. CASE \/ CallerSendsCommand \/ CallerSendsResponse \/ CallerReceivesResponse
            \/ WriterChanges
    BY <1>17, <1>q
       DEF CallerSendsCommand, CallerSendsResponse, CallerReceivesResponse, WriterChanges,
           queues, envVars, commVars
<1>18. CASE UNCHANGED vars
    BY <1>18, <1>q DEF vars, queues, envVars, commVars
<1> QED
    BY <1>1, <1>2, <1>3, <1>4, <1>5, <1>6, <1>7, <1>8, <1>9, <1>10, <1>11, <1>12, <1>13,
       <1>14, <1>15, <1>16, <1>17, <1>18
       DEF Next, TasksNext, CallersNext, EnvStep, CommStep, AlarmStep

\* No command sequence makes the responder refuse service, the processor reject
\* a snapshot, or an invalid sample reach the decision.
THEOREM PortDataStaysValid == Spec => []DataStaysValid
<1>1. Init => DataStaysValid
    <2> SUFFICES ASSUME Init
                 PROVE  DataStaysValid
        OBVIOUS
    <2>1. <<>> \in Seq(ValidConfig)
        OBVIOUS
    <2> QED
        BY <2>1, PortAssumption
           DEF Init, DataInit, DataStaysValid, responder_is_ready, ValidConfig, ValidReading, Task
<1> QED
    BY <1>1, ValidPreserved, PortTypeOK, PTL DEF Spec

-------------------------------------------------------------------------------
(* Configurations                                                          *)

LEMMA ConfigPreserved ==
    /\ TypeOK /\ TypeOK' /\ DataStaysValid
    /\ ConfigFollowsAnswers
    /\ [Next]_vars
    => ConfigFollowsAnswers'
<1> SUFFICES ASSUME TypeOK, TypeOK', DataStaysValid, ConfigFollowsAnswers, [Next]_vars
             PROVE  ConfigFollowsAnswers'
    OBVIOUS
<1>t. /\ pc \in [Task -> Places]
      /\ {"sensor_acquire", "env_process", "communication", "alarm_output"} = Task
      /\ config_update_queue \in Seq(AlarmConfig)
    BY DEF TypeOK, Task
<1>q. ASSUME UNCHANGED <<config_update_queue, config_lost>>,
             responder'.config = responder.config,
             processor'.config = processor.config,
             pc'["communication"] # "forward_config" => pc["communication"] # "forward_config"
      PROVE  ConfigFollowsAnswers'
    BY <1>q DEF ConfigFollowsAnswers, LatestSnapshot
<1>1. CASE SensorPoll \/ SensorDelay
    BY <1>1, <1>q, <1>t DEF SensorPoll, SensorDelay, BlockAt, Goto, queues, envVars, commVars
<1>2. CASE EnvDrainConfig
    <2>1. CASE config_update_queue = <<>>
        BY <1>2, <2>1, <1>q, <1>t DEF EnvDrainConfig, Goto, commVars
    <2>2. CASE config_update_queue # <<>>
        <3>1. Head(config_update_queue) \in ValidConfig
            BY <2>2, TakingHead DEF DataStaysValid
        <3>2. /\ config_update_queue' = Tail(config_update_queue)
              /\ processor'.config = Head(config_update_queue)
            BY <1>2, <2>2, <3>1 DEF EnvDrainConfig, ValidConfig, TypeOK, Processor
        <3>3. LatestSnapshot' = LatestSnapshot
            BY <2>2, <3>2, <1>t, LastOfOne, LastOfTail DEF LatestSnapshot
        <3> QED
            BY <1>2, <2>2, <3>3, <1>t
               DEF EnvDrainConfig, Goto, commVars, ConfigFollowsAnswers
    <2> QED
        BY <2>1, <2>2
<1>3. CASE EnvStep /\ ~ EnvDrainConfig
    <2>1. ASSUME NEW from, EnvTakeSample(from)
          PROVE  ConfigFollowsAnswers'
        BY <2>1, <1>q, <1>t DEF EnvTakeSample, Goto, commVars
    <2>2. CASE EnvWait \/ EnvTimeout
        BY <2>2, <1>q, <1>t DEF EnvWait, EnvTimeout, BlockAt, Goto, queues, envVars, commVars
    <2>3. CASE EnvPublish
        BY <2>3, <1>q, <1>t DEF EnvPublish, Goto, commVars
    <2>4. CASE EnvCommit
        BY <2>4, <1>q, <1>t DEF EnvCommit, Goto, queues, commVars, TypeOK, Processor
    <2> QED
        BY <1>3, <2>1, <2>2, <2>3, <2>4 DEF EnvStep
<1>4. ASSUME NEW from \in {"receive", "waiting"}, CommHandle(from)
      PROVE  ConfigFollowsAnswers'
    <2> DEFINE handled == command_handler_handle(Head(command_queue),
                                                 responder.config, responder.sample)
    <2>1. Head(command_queue) \in Command
        BY <1>4, TakingHead DEF CommHandle, TypeOK
    <2>2. handled.effect # "config_changed" => handled.config = responder.config
        BY <2>1, HandlingTyped DEF TypeOK, Responder
    <2> HIDE DEF handled
    <2>3. pc["communication"] # "forward_config"
        BY <1>4 DEF CommHandle, Goto
    <2>4. responder_is_ready(responder)
        BY DEF DataStaysValid
    <2>5. CASE handled.effect = "config_changed"
        BY <1>4, <2>4, <2>5, <1>t DEF CommHandle, Goto, handled, ConfigFollowsAnswers
    <2>6. CASE handled.effect # "config_changed"
        <3>1. responder'.config = responder.config
            BY <1>4, <2>2, <2>4, <2>6 DEF CommHandle, handled, responder_after
        <3> QED
            BY <1>4, <2>3, <3>1, <1>q DEF CommHandle, envVars
    <2> QED
        BY <2>5, <2>6
<1>5. CASE CommForwardConfig
    <2>1. responder.config \in AlarmConfig
        BY DEF TypeOK, Responder
    <2>2. CASE HasRoom(config_update_queue, QueueLength.config_update)
        <3>1. config_update_queue' = Append(config_update_queue, responder.config)
            BY <1>5, <2>2 DEF CommForwardConfig, Sent
        <3>2. LatestSnapshot' = responder.config
            BY <3>1, <2>1, <1>t, LastOfAppend DEF LatestSnapshot
        <3> QED
            BY <1>5, <3>2 DEF CommForwardConfig, ConfigFollowsAnswers
    <2>3. CASE ~ HasRoom(config_update_queue, QueueLength.config_update)
        BY <1>5, <2>3 DEF CommForwardConfig, ConfigFollowsAnswers
    <2> QED
        BY <2>2, <2>3
<1>6. CASE CommPollIngress \/ CommWait \/ CommTimeout \/ CommForwardSample
    BY <1>6, <1>q, <1>t
       DEF CommPollIngress, CommWait, CommTimeout, CommForwardSample, BlockAt, Goto,
           queues, envVars, commVars
<1>7. CASE CommRespond \/ CommWriteHead \/ CommDrainEnds \/ CommRemoveHead
    BY <1>7, <1>q, <1>t
       DEF CommRespond, CommWriteHead, CommDrainEnds, CommRemoveHead, Goto, queues,
           envVars, commVars
<1>8. ASSUME NEW from, AlarmShowEvent(from)
      PROVE  ConfigFollowsAnswers'
    BY <1>8, <1>q, <1>t DEF AlarmShowEvent, Goto, envVars, commVars
<1>9. CASE AlarmWait \/ AlarmRefresh
    BY <1>9, <1>q, <1>t DEF AlarmWait, AlarmRefresh, BlockAt, Goto, queues, envVars, commVars
<1>10. CASE TimeSlice \/ \E t \in Task : DelayElapses(t)
    BY <1>10, <1>q DEF TimeSlice, DelayElapses, queues, envVars, commVars
<1>11. CASE \/ CallerSendsSample \/ CallerSendsCommand
            \/ CallerSendsResponse \/ CallerReceivesResponse \/ WriterChanges
    BY <1>11, <1>q
       DEF CallerSendsSample, CallerSendsCommand, CallerSendsResponse,
           CallerReceivesResponse, WriterChanges, queues, envVars, commVars
<1>12. CASE UNCHANGED vars
    BY <1>12, <1>q DEF vars, queues, envVars, commVars
<1> QED
    BY <1>1, <1>2, <1>3, <1>4, <1>5, <1>6, <1>7, <1>8, <1>9, <1>10, <1>11, <1>12
       DEF Next, TasksNext, CallersNext, CommStep, AlarmStep

\* Unless the latest SET found the queue full, the thresholds the answers report
\* are those env_process holds or will hold once it has drained its queue.
THEOREM PortConfigFollowsAnswers == Spec => []ConfigFollowsAnswers
<1>1. Init => ConfigFollowsAnswers
    BY DEF Init, DataInit, ConfigFollowsAnswers, LatestSnapshot
<1> QED
    BY <1>1, ConfigPreserved, PortTypeOK, PortDataStaysValid, PTL DEF Spec

-------------------------------------------------------------------------------
(* Answers                                                                 *)

\* As long as the communication task is the only user of the response queue, the
\* answer it removes after a write is the one it wrote.
THEOREM PortWrittenAnswerIsRemoved == ClosedSpec => []WrittenAnswerIsRemoved
<1>1. Init => WrittenAnswerIsRemoved
    BY DEF Init, DataInit, WrittenAnswerIsRemoved, Task
<1>2. TypeOK /\ WrittenAnswerIsRemoved /\ [TasksNext]_vars => WrittenAnswerIsRemoved'
    <2> SUFFICES ASSUME TypeOK, WrittenAnswerIsRemoved, [TasksNext]_vars
                 PROVE  WrittenAnswerIsRemoved'
        OBVIOUS
    <2> USE DEF WrittenAnswerIsRemoved
    <2>t. /\ pc \in [Task -> Places]
          /\ {"sensor_acquire", "env_process", "communication", "alarm_output"} = Task
        BY DEF TypeOK, Task
    <2>q. ASSUME UNCHANGED <<response_queue, peeked>>,
                 pc'["communication"] = pc["communication"]
          PROVE  WrittenAnswerIsRemoved'
        BY <2>q
    <2>1. CASE SensorPoll \/ SensorDelay
        BY <2>1, <2>q, <2>t
           DEF SensorPoll, SensorDelay, BlockAt, Goto, queues, envVars, commVars
    <2>2. ASSUME NEW from, EnvTakeSample(from)
          PROVE  WrittenAnswerIsRemoved'
        BY <2>2, <2>q, <2>t DEF EnvTakeSample, Goto, commVars
    <2>3. CASE EnvDrainConfig \/ EnvWait \/ EnvTimeout
        BY <2>3, <2>q, <2>t
           DEF EnvDrainConfig, EnvWait, EnvTimeout, BlockAt, Goto, queues, commVars
    <2>4. CASE EnvPublish \/ EnvCommit
        BY <2>4, <2>q, <2>t DEF EnvPublish, EnvCommit, Goto, queues, commVars
    <2>5. CASE CommWriteHead
        BY <2>5, <2>t DEF CommWriteHead, Goto, queues
    <2>6. ASSUME NEW from, CommHandle(from)
          PROVE  WrittenAnswerIsRemoved'
        BY <2>6, <2>t DEF CommHandle, Goto
    <2>7. CASE CommPollIngress \/ CommWait \/ CommTimeout \/ CommForwardConfig
        BY <2>7, <2>t
           DEF CommPollIngress, CommWait, CommTimeout, CommForwardConfig, BlockAt, Goto
    <2>8. CASE CommForwardSample \/ CommRespond \/ CommDrainEnds \/ CommRemoveHead
        BY <2>8, <2>t DEF CommForwardSample, CommRespond, CommDrainEnds, CommRemoveHead, Goto
    <2>9. ASSUME NEW from, AlarmShowEvent(from)
          PROVE  WrittenAnswerIsRemoved'
        BY <2>9, <2>q, <2>t DEF AlarmShowEvent, Goto, commVars
    <2>10. CASE AlarmWait \/ AlarmRefresh
        BY <2>10, <2>q, <2>t DEF AlarmWait, AlarmRefresh, BlockAt, Goto, queues, commVars
    <2>11. CASE TimeSlice \/ \E t \in Task : DelayElapses(t)
        BY <2>11, <2>q DEF TimeSlice, DelayElapses, queues, commVars
    <2>12. CASE WriterChanges
        BY <2>12, <2>q DEF WriterChanges, queues, commVars
    <2>13. CASE UNCHANGED vars
        BY <2>13, <2>q DEF vars, queues, commVars
    <2> QED
        BY <2>1, <2>2, <2>3, <2>4, <2>5, <2>6, <2>7, <2>8, <2>9, <2>10, <2>11, 
           <2>12, <2>13
           DEF TasksNext, EnvStep, CommStep, AlarmStep
<1>3. ClosedSpec => Spec
    <2>1. [TasksNext]_vars => [Next]_vars
        BY DEF Next
    <2> QED BY <2>1, PTL DEF ClosedSpec, Spec
<1> QED
    BY <1>1, <1>2, <1>3, PortTypeOK, PTL DEF ClosedSpec

-------------------------------------------------------------------------------
(* The path of the samples                                                 *)

LEMMA ListAppended ==
    ASSUME NEW list \in Seq(Task), NEW u \in Task, NEW t \in Task
    PROVE  /\ Among(t, Append(list, u)) <=> Among(t, list) \/ t = u
           /\ Once(t, list) /\ (t # u \/ ~ Among(t, list)) => Once(t, Append(list, u))
<1> DEFINE longer == Append(list, u)
<1>1. /\ Len(longer) = Len(list) + 1 /\ longer[Len(list) + 1] = u
      /\ \A i \in 1 .. Len(list) : longer[i] = list[i]
      /\ Len(list) \in Nat
    OBVIOUS
<1> HIDE DEF longer
<1>2. \A i \in 1 .. Len(longer) : i \in 1 .. Len(list) \/ i = Len(list) + 1
    BY <1>1
<1>3. Among(t, longer) => Among(t, list) \/ t = u
    BY <1>1, <1>2 DEF Among
<1>4. Among(t, list) \/ t = u => Among(t, longer)
    BY <1>1 DEF Among
<1>5. ASSUME Once(t, list), t # u \/ ~ Among(t, list) PROVE Once(t, longer)
    <2> SUFFICES ASSUME NEW i \in 1 .. Len(longer), NEW j \in 1 .. Len(longer),
                        longer[i] = t, longer[j] = t
                 PROVE  i = j
        BY DEF Once
    <2>1. CASE i = Len(list) + 1
        <3>1. t = u
            BY <1>1, <2>1
        <3> QED BY <1>1, <1>2, <1>5, <2>1, <3>1 DEF Among
    <2>2. CASE j = Len(list) + 1
        <3>1. t = u
            BY <1>1, <2>2
        <3> QED BY <1>1, <1>2, <1>5, <2>2, <3>1 DEF Among
    <2> QED BY <1>1, <1>2, <1>5, <2>1, <2>2 DEF Once
<1> QED BY <1>3, <1>4, <1>5 DEF longer

LEMMA ListShortened ==
    ASSUME NEW list \in Seq(Task), list # <<>>, NEW t \in Task
    PROVE  /\ Among(Head(list), list)
           /\ Among(t, Tail(list)) => Among(t, list)
           /\ Among(t, list) => t = Head(list) \/ Among(t, Tail(list))
           /\ Once(t, list) => Once(t, Tail(list))
           /\ Once(Head(list), list) => ~ Among(Head(list), Tail(list))
<1> DEFINE rest == Tail(list)
<1>1. /\ Len(list) \in Nat \ {0} /\ Len(rest) = Len(list) - 1 /\ Head(list) = list[1]
      /\ \A i \in 1 .. Len(rest) : rest[i] = list[i + 1]
    BY TakingHead
<1> HIDE DEF rest
<1>2. \A i \in 1 .. Len(list) : i = 1 \/ (i - 1 \in 1 .. Len(rest) /\ list[i] = rest[i - 1])
    BY <1>1
<1>3. Among(Head(list), list)
    BY <1>1 DEF Among
<1>4. Among(t, rest) => Among(t, list)
    BY <1>1 DEF Among
<1>5. Among(t, list) => t = Head(list) \/ Among(t, rest)
    BY <1>1, <1>2 DEF Among
<1>6. ASSUME Once(t, list) PROVE Once(t, rest)
    <2> SUFFICES ASSUME NEW i \in 1 .. Len(rest), NEW j \in 1 .. Len(rest),
                        rest[i] = t, rest[j] = t
                 PROVE  i = j
        BY DEF Once
    <2>1. i + 1 \in 1 .. Len(list) /\ j + 1 \in 1 .. Len(list)
          /\ list[i + 1] = t /\ list[j + 1] = t
        BY <1>1
    <2>2. i + 1 = j + 1
        BY <1>6, <2>1 DEF Once
    <2> QED BY <2>2
<1>7. ASSUME Once(Head(list), list), Among(Head(list), rest) PROVE FALSE
    <2>1. PICK i \in 1 .. Len(rest) : rest[i] = Head(list)
        BY <1>7 DEF Among
    <2>2. i + 1 \in 1 .. Len(list) /\ 1 \in 1 .. Len(list)
          /\ list[i + 1] = Head(list) /\ list[1] = Head(list)
        BY <1>1, <2>1
    <2>3. i + 1 = 1
        BY <1>7, <2>2 DEF Once
    <2> QED BY <2>3
<1> QED BY <1>3, <1>4, <1>5, <1>6, <1>7 DEF rest

\* Which tasks are ready, and whether once only, behind the ways the lists change.
ReadyOnce(t) == Once(t, ready[Priority[t]])

LEMMA RunningTask ==
    ASSUME ready \in Levels, NEW u \in Task, Running(u), NEW t \in Task
    PROVE  /\ IsReady(u)
           /\ Priority[t] > Priority[u] => ~ IsReady(t)
<1>1. ready[Priority[u]] \in Seq(Task) /\ ready[Priority[u]] # <<>>
      /\ Head(ready[Priority[u]]) = u
    BY PriorityIsLevel DEF Running, Levels
<1>2. IsReady(u)
    BY <1>1, ListShortened DEF IsReady, Among
<1>3. Priority[t] > Priority[u] => ready[Priority[t]] = <<>>
    BY PriorityIsLevel DEF Running
<1>4. ready[Priority[t]] = <<>> => ~ IsReady(t)
    BY DEF IsReady
<1> QED BY <1>2, <1>3, <1>4

LEMMA ListAfterSend ==
    ASSUME ready \in Levels, NEW u \in Task, ~ IsReady(u), NEW t \in Task,
           ready' = [ready EXCEPT ![Priority[u]] = Append(@, u)]
    PROVE  /\ IsReady(t)' <=> IsReady(t) \/ t = u
           /\ ReadyOnce(t) => ReadyOnce(t)'
<1> DEFINE list == ready[Priority[u]]
<1>1. list \in Seq(Task) /\ Priority[t] \in Level /\ Priority[u] \in Level
    BY PriorityIsLevel DEF Levels
<1>2. IsReady(t) <=> Among(t, ready[Priority[t]])
    BY DEF IsReady, Among
<1>3. IsReady(t)' <=> Among(t, ready'[Priority[t]])
    BY DEF IsReady, Among
<1>4. ~ Among(u, list)
    BY DEF IsReady, Among
<1>5. CASE Priority[t] = Priority[u]
    <2>1. ready'[Priority[t]] = Append(list, u) /\ ready[Priority[t]] = list
        BY <1>1, <1>5 DEF Levels
    <2> HIDE DEF list
    <2> QED BY <1>1, <1>2, <1>3, <1>4, <2>1, ListAppended DEF ReadyOnce
<1>6. CASE Priority[t] # Priority[u]
    <2>1. ready'[Priority[t]] = ready[Priority[t]]
        BY <1>1, <1>6 DEF Levels
    <2> QED BY <1>2, <1>3, <1>6, <2>1 DEF ReadyOnce
<1> QED BY <1>5, <1>6

LEMMA ReadyAfterWake ==
    ASSUME ready \in Levels, NEW u \in Task, Wake(u), NEW t \in Task
    PROVE  /\ IsReady(t) => IsReady(t)'
           /\ IsReady(t)' => IsReady(t) \/ t = u
           /\ IsReady(u) \/ pc[u] = "waiting" => IsReady(u)'
           /\ ReadyOnce(t) => ReadyOnce(t)'
<1>1. CASE IsReady(u) \/ pc[u] # "waiting"
    <2>1. ready' = ready
        BY <1>1 DEF Wake
    <2>2. (IsReady(t)' <=> IsReady(t)) /\ (IsReady(u)' <=> IsReady(u))
          /\ (ReadyOnce(t) => ReadyOnce(t)')
        BY <2>1 DEF IsReady, ReadyOnce
    <2> QED BY <1>1, <2>2
<1>2. CASE ~ (IsReady(u) \/ pc[u] # "waiting")
    <2>1. ready' = [ready EXCEPT ![Priority[u]] = Append(@, u)]
        BY <1>2 DEF Wake
    <2> QED BY <1>2, <2>1, ListAfterSend
<1> QED BY <1>1, <1>2

LEMMA ReadyAfterBlock ==
    ASSUME ready \in Levels, NEW u \in Task, NEW from, NEW to, BlockAt(u, from, to),
           NEW t \in Task
    PROVE  /\ t # u => (IsReady(t)' <=> IsReady(t))
           /\ ReadyOnce(t) => ReadyOnce(t)'
           /\ ReadyOnce(u) => ~ IsReady(u)'
<1> DEFINE list == ready[Priority[u]]
<1>1. /\ list \in Seq(Task) /\ Priority[t] \in Level /\ Priority[u] \in Level
      /\ list # <<>> /\ Head(list) = u
      /\ ready' = [ready EXCEPT ![Priority[u]] = Tail(@)]
    BY PriorityIsLevel DEF Levels, BlockAt, Goto, Running
<1>2. IsReady(t) <=> Among(t, ready[Priority[t]])
    BY DEF IsReady, Among
<1>3. IsReady(t)' <=> Among(t, ready'[Priority[t]])
    BY DEF IsReady, Among
<1>4. IsReady(u)' <=> Among(u, ready'[Priority[u]])
    BY DEF IsReady, Among
<1>5. ready'[Priority[u]] = Tail(list)
    BY <1>1 DEF Levels
<1>6. ReadyOnce(u) => ~ IsReady(u)'
    <2> HIDE DEF list
    <2>1. Once(u, list) => ~ Among(u, Tail(list))
        BY <1>1, ListShortened
    <2> QED BY <1>4, <1>5, <2>1 DEF ReadyOnce, list
<1>7. CASE Priority[t] = Priority[u]
    <2>1. ready'[Priority[t]] = Tail(list) /\ ready[Priority[t]] = list
        BY <1>5, <1>7
    <2> HIDE DEF list
    <2> QED BY <1>1, <1>2, <1>3, <1>6, <2>1, ListShortened DEF ReadyOnce
<1>8. CASE Priority[t] # Priority[u]
    <2>1. ready'[Priority[t]] = ready[Priority[t]]
        BY <1>1, <1>8 DEF Levels
    <2> QED BY <1>2, <1>3, <1>6, <1>8, <2>1 DEF ReadyOnce
<1> QED BY <1>7, <1>8, <1>6

LEMMA ReadyAfterSlice ==
    ASSUME ready \in Levels, TimeSlice, NEW t \in Task
    PROVE  /\ IsReady(t)' <=> IsReady(t)
           /\ ReadyOnce(t) => ReadyOnce(t)'
<1>1. PICK u \in Task : Running(u)
                        /\ ready' = [ready EXCEPT ![Priority[u]] = Append(Tail(@), u)]
    BY DEF TimeSlice
<1> DEFINE list == ready[Priority[u]]
<1>2. /\ list \in Seq(Task) /\ Priority[t] \in Level /\ Priority[u] \in Level
      /\ list # <<>> /\ Head(list) = u
    BY <1>1, PriorityIsLevel DEF Levels, Running
<1>3. IsReady(t) <=> Among(t, ready[Priority[t]])
    BY DEF IsReady, Among
<1>4. IsReady(t)' <=> Among(t, ready'[Priority[t]])
    BY DEF IsReady, Among
<1>5. CASE Priority[t] = Priority[u]
    <2>1. ready'[Priority[t]] = Append(Tail(list), u) /\ ready[Priority[t]] = list
        BY <1>1, <1>2, <1>5 DEF Levels
    <2> HIDE DEF list
    <2>2. Tail(list) \in Seq(Task)
        BY <1>2, TakingHead
    <2>3. Among(t, list) <=> t = u \/ Among(t, Tail(list))
        BY <1>2, ListShortened
    <2>4. Once(t, list) => Once(t, Tail(list)) /\ (t # u \/ ~ Among(t, Tail(list)))
        BY <1>2, ListShortened
    <2>5. Among(t, Append(Tail(list), u)) <=> Among(t, list)
        BY <2>2, <2>3, ListAppended
    <2>6. Once(t, list) => Once(t, Append(Tail(list), u))
        BY <2>2, <2>4, ListAppended
    <2> QED BY <1>3, <1>4, <2>1, <2>5, <2>6 DEF ReadyOnce
<1>6. CASE Priority[t] # Priority[u]
    <2>1. ready'[Priority[t]] = ready[Priority[t]]
        BY <1>1, <1>2, <1>6 DEF Levels
    <2> QED BY <1>3, <1>4, <2>1 DEF ReadyOnce
<1> QED BY <1>5, <1>6

\* What the path still has to bring to the outputs.
InFlight ==
    Len(sensor_sample_queue) + Len(alarm_event_queue)
      + (IF pc["env_process"] = "process" THEN 1 ELSE 0)

\* A blocked consumer has an empty queue.  Whoever feeds the path runs while the more
\* urgent consumers are blocked: communication while all of it is empty, sensor_acquire
\* with nothing in flight but what main left behind, since its delay elapses only when
\* alarm_output has caught up.
PathInv ==
    /\ ~ IsReady("env_process") =>
          pc["env_process"] = "waiting" /\ sensor_sample_queue = <<>>
    /\ ~ IsReady("alarm_output") =>
          pc["alarm_output"] = "waiting" /\ alarm_event_queue = <<>>
    /\ ReadyOnce("sensor_acquire")
    /\ InFlight <= Len(BootSamples) + 1
    /\ IsReady("sensor_acquire") /\ pc["sensor_acquire"] = "poll" =>
          InFlight <= Len(BootSamples)
    /\ Len(command_queue) <
          QueueLength.command + (IF pc["communication"] = "receive" THEN 1 ELSE 0)

LEMMA TaskNames ==
    /\ "sensor_acquire" \in Task /\ "env_process" \in Task
    /\ "communication" \in Task /\ "alarm_output" \in Task
    /\ \A t \in Task : Priority[t] \in Nat
BY PortAssumption DEF Task

LEMMA LengthTypes ==
    /\ Len(BootSamples) \in Nat /\ Len(BootCommands) \in Nat
    /\ QueueLength.sensor_sample \in Nat \ {0} /\ QueueLength.command \in Nat \ {0}
    /\ QueueLength.alarm_event \in Nat \ {0}
BY PortAssumption

LEMMA QueueLengths ==
    ASSUME TypeOK
    PROVE  /\ Len(sensor_sample_queue) \in Nat /\ Len(alarm_event_queue) \in Nat
           /\ Len(command_queue) \in Nat /\ InFlight \in Nat
BY DEF TypeOK, InFlight

LEMMA SentLength ==
    ASSUME NEW S, NEW q \in Seq(S), NEW x \in S, NEW length
    PROVE  /\ Len(Sent(q, length, x)) \in {Len(q), Len(q) + 1}
           /\ Len(Sent(q, length, x)) = Len(q) \/ Len(q) < length
BY Appending DEF Sent, HasRoom

LEMMA PathInitially == ASSUME PathFits PROVE Init => PathInv
<1> SUFFICES ASSUME Init PROVE PathInv
    OBVIOUS
<1>1. \A t \in Task : IsReady(t) /\ ReadyOnce(t)
    BY DEF Init, PathFits, IsReady, ReadyOnce, Among
<1>2. /\ pc["env_process"] = "drain" /\ pc["communication"] = "ingress"
      /\ sensor_sample_queue = BootSamples /\ command_queue = BootCommands
      /\ alarm_event_queue = <<>>
    BY DEF Init, DataInit, Task
<1>3. InFlight = Len(BootSamples)
    <2>1. Len(alarm_event_queue) = 0
        BY <1>2
    <2> QED BY <1>2, <2>1, LengthTypes DEF InFlight
<1>4. Len(command_queue) < QueueLength.command
    BY <1>2 DEF PathFits
<1> QED BY <1>1, <1>2, <1>3, <1>4, TaskNames, LengthTypes DEF PathInv

\* What the step of one task leaves alone.
LEMMA GoingElsewhere ==
    ASSUME pc \in [Task -> Places], NEW u \in Task, NEW from, NEW to, Goto(u, from, to)
    PROVE  pc[u] = from /\ pc'[u] = to /\ \A t \in Task : t # u => pc'[t] = pc[t]
BY DEF Goto

LEMMA PathPreserved ==
    ASSUME PathFits
    PROVE  TypeOK /\ PathInv /\ [TasksNext]_vars => PathInv'
<1> SUFFICES ASSUME TypeOK, PathInv, [TasksNext]_vars PROVE PathInv'
    OBVIOUS
<1>t. ready \in Levels /\ pc \in [Task -> Places]
    BY DEF TypeOK
<1>o. /\ Priority["env_process"] > Priority["sensor_acquire"]
      /\ Priority["alarm_output"] >= Priority["sensor_acquire"]
      /\ Priority["sensor_acquire"] > Priority["communication"]
      /\ Priority["env_process"] > Priority["communication"]
      /\ Priority["alarm_output"] > Priority["communication"]
    <2>1. \A a, b, c \in Nat : (a > b /\ b > c => a > c) /\ (a >= b /\ b > c => a > c)
        OBVIOUS
    <2> QED BY <2>1, TaskNames DEF PathFits
\* Whoever runs, the more urgent tasks are blocked.
<1>e. ASSUME NEW u \in {"sensor_acquire", "communication"}, Running(u)
      PROVE  /\ ~ IsReady("env_process") /\ pc["env_process"] = "waiting"
             /\ sensor_sample_queue = <<>> /\ Len(sensor_sample_queue) = 0
    <2>1. ~ IsReady("env_process")
        BY <1>t, <1>e, <1>o, TaskNames, RunningTask
    <2> QED BY <2>1 DEF PathInv
<1>a. ASSUME Running("communication")
      PROVE  ~ IsReady("sensor_acquire") /\ InFlight = 0
    <2>1. ~ IsReady("alarm_output") /\ ~ IsReady("sensor_acquire")
        BY <1>t, <1>a, <1>o, TaskNames, RunningTask
    <2>2. Len(alarm_event_queue) = 0
        BY <2>1 DEF PathInv
    <2> QED BY <1>a, <1>e, <2>1, <2>2 DEF InFlight
<1>1. CASE SensorPoll
    <2>1. /\ Running("sensor_acquire") /\ pc["sensor_acquire"] = "poll"
          /\ Goto("sensor_acquire", "poll", "delay")
          /\ UNCHANGED <<alarm_event_queue, command_queue>>
        BY <1>1 DEF SensorPoll, Goto
    <2>2. InFlight <= Len(BootSamples)
        BY <1>t, <2>1, TaskNames, RunningTask DEF PathInv
    <2>3. pc'["sensor_acquire"] = "delay" /\ \A t \in Task : t # "sensor_acquire" => pc'[t] = pc[t]
        BY <1>t, <2>1, TaskNames, GoingElsewhere
    <2>4. CASE UNCHANGED <<sensor_sample_queue, ready>>
        BY <2>1, <2>2, <2>3, <2>4, TaskNames, LengthTypes, QueueLengths DEF PathInv, InFlight, IsReady, ReadyOnce
    <2>5. CASE ~ UNCHANGED <<sensor_sample_queue, ready>>
        <3>1. PICK sample \in Reading : sensor_sample_queue' =
                         Sent(sensor_sample_queue, QueueLength.sensor_sample, sample)
                     /\ Wake("env_process")
            BY <1>1, <2>5, PortAssumption DEF SensorPoll
        <3>2. Len(sensor_sample_queue') \in {Len(sensor_sample_queue), Len(sensor_sample_queue) + 1}
            BY <3>1, SentLength DEF TypeOK
        <3>3. InFlight' <= Len(BootSamples) + 1
            <4>1. pc'["env_process"] = pc["env_process"]
                BY <2>3, TaskNames
            <4>2. InFlight' \in {InFlight, InFlight + 1}
                BY <2>1, <3>2, <4>1, QueueLengths DEF InFlight
            <4> QED BY <2>2, <4>2, LengthTypes, QueueLengths
        <3>4. /\ IsReady("env_process")'
              /\ IsReady("alarm_output") => IsReady("alarm_output")'
              /\ ReadyOnce("sensor_acquire")'
            BY <1>t, <1>e, <2>1, <3>1, TaskNames, ReadyAfterWake DEF PathInv
        <3> QED BY <2>1, <2>3, <3>3, <3>4, TaskNames DEF PathInv
    <2> QED BY <2>4, <2>5
<1>2. CASE SensorDelay
    <2>1. /\ BlockAt("sensor_acquire", "delay", "poll")
          /\ Goto("sensor_acquire", "delay", "poll")
          /\ UNCHANGED <<sensor_sample_queue, alarm_event_queue, command_queue>>
        BY <1>2 DEF SensorDelay, BlockAt, queues
    <2>2. \A t \in Task : t # "sensor_acquire" => pc'[t] = pc[t]
        BY <1>t, <2>1, TaskNames, GoingElsewhere
    <2>3. /\ IsReady("env_process")' <=> IsReady("env_process")
          /\ IsReady("alarm_output")' <=> IsReady("alarm_output")
          /\ ReadyOnce("sensor_acquire")' /\ ~ IsReady("sensor_acquire")'
        BY <1>t, <2>1, TaskNames, ReadyAfterBlock DEF PathInv
    <2>4. InFlight' = InFlight
        BY <2>1, <2>2, TaskNames DEF InFlight
    <2> QED BY <2>1, <2>2, <2>3, <2>4, TaskNames DEF PathInv
\* Steps that touch neither the path nor the ready lists.
<1>s. ASSUME NEW u \in Task \ {"sensor_acquire"}, NEW from, NEW to, Goto(u, from, to),
             u = "env_process" => from # "process" /\ to # "process",
             u = "communication" => from # "receive",
             UNCHANGED <<sensor_sample_queue, alarm_event_queue, command_queue, ready>>
      PROVE  PathInv'
    <2>1. pc[u] = from /\ pc'[u] = to /\ (\A t \in Task : t # u => pc'[t] = pc[t])
        BY <1>t, <1>s, GoingElsewhere
    <2>2. IsReady(u)
        BY <1>t, <1>s, RunningTask DEF Goto
    <2>3. /\ \A t \in Task : IsReady(t)' <=> IsReady(t)
          /\ ReadyOnce("sensor_acquire")'
        BY <1>s DEF IsReady, ReadyOnce, PathInv
    <2>4. InFlight' = InFlight
        BY <1>s, <2>1, TaskNames DEF InFlight
    <2>5. Len(command_queue)' <
             QueueLength.command + (IF pc'["communication"] = "receive" THEN 1 ELSE 0)
        <3>1. pc["communication"] # "receive" \/ pc'["communication"] = pc["communication"]
            BY <1>s, <2>1, TaskNames
        <3> QED BY <1>s, <3>1, LengthTypes, QueueLengths DEF PathInv
    <2>6. pc'["sensor_acquire"] = pc["sensor_acquire"]
        BY <2>1, TaskNames
    <2>7. ~ IsReady("env_process") => pc'["env_process"] = "waiting" /\ sensor_sample_queue = <<>>
        BY <2>1, <2>2, TaskNames DEF PathInv
    <2>8. ~ IsReady("alarm_output") => pc'["alarm_output"] = "waiting" /\ alarm_event_queue = <<>>
        BY <2>1, <2>2, TaskNames DEF PathInv
    <2> QED BY <1>s, <2>3, <2>4, <2>5, <2>6, <2>7, <2>8, TaskNames DEF PathInv
<1>3. CASE EnvDrainConfig
    <2>1. \E to \in {"drain", "receive"} : Goto("env_process", "drain", to)
        BY <1>3 DEF EnvDrainConfig
    <2> QED BY <1>3, <1>s, <2>1, TaskNames DEF EnvDrainConfig
<1>4. CASE EnvTimeout \/ EnvCommit
    <2>1. \E from \in {"waiting", "commit"} : Goto("env_process", from, "drain")
        BY <1>4 DEF EnvTimeout, EnvCommit
    <2> QED BY <1>4, <1>s, <2>1, TaskNames DEF EnvTimeout, EnvCommit, queues
<1>5. CASE \/ CommTimeout \/ CommForwardConfig \/ CommRespond
           \/ CommWriteHead \/ CommDrainEnds \/ CommRemoveHead
    <2>1. \E from, to : from # "receive" /\ Goto("communication", from, to)
        <3>1. CASE CommTimeout
            BY <3>1, <1>t DEF CommTimeout
        <3>2. CASE CommForwardConfig
            BY <3>2 DEF CommForwardConfig
        <3>3. CASE CommRespond
            BY <3>3 DEF CommRespond
        <3>4. CASE CommWriteHead \/ CommDrainEnds \/ CommRemoveHead
            BY <3>4 DEF CommWriteHead, CommDrainEnds, CommRemoveHead
        <3> QED BY <1>5, <3>1, <3>2, <3>3, <3>4
    <2>2. UNCHANGED <<sensor_sample_queue, alarm_event_queue, command_queue, ready>>
        BY <1>5 DEF CommTimeout, CommForwardConfig, CommRespond, CommWriteHead,
                    CommDrainEnds, CommRemoveHead, queues
    <2> QED BY <1>s, <2>1, <2>2, TaskNames
<1>6. CASE AlarmRefresh
    BY <1>6, <1>s, TaskNames DEF AlarmRefresh, queues
<1>7. CASE WriterChanges \/ UNCHANGED vars
    <2>1. UNCHANGED <<sensor_sample_queue, alarm_event_queue, command_queue, ready, pc>>
        BY <1>7 DEF WriterChanges, vars, queues
    <2> QED BY <2>1 DEF PathInv, InFlight, IsReady, ReadyOnce
<1>8. ASSUME NEW from \in {"receive", "waiting"}, EnvTakeSample(from) PROVE PathInv'
    <2>1. /\ Goto("env_process", from, "process") /\ sensor_sample_queue # <<>>
          /\ sensor_sample_queue' = Tail(sensor_sample_queue)
          /\ UNCHANGED <<alarm_event_queue, command_queue, ready>>
        BY <1>8 DEF EnvTakeSample
    <2>2. pc["env_process"] = from /\ pc'["env_process"] = "process"
          /\ \A t \in Task : t # "env_process" => pc'[t] = pc[t]
        BY <1>t, <2>1, TaskNames, GoingElsewhere
    <2>3. IsReady("env_process")
        BY <1>t, <2>1, TaskNames, RunningTask DEF Goto
    <2>4. Len(sensor_sample_queue') = Len(sensor_sample_queue) - 1
        BY <2>1, TakingHead DEF TypeOK
    <2>5. InFlight' = InFlight
        BY <2>1, <2>2, <2>4, QueueLengths DEF InFlight
    <2>6. \A t \in Task : (IsReady(t)' <=> IsReady(t)) /\ (ReadyOnce(t)' <=> ReadyOnce(t))
        BY <2>1 DEF IsReady, ReadyOnce
    <2> QED BY <2>1, <2>2, <2>3, <2>5, <2>6, TaskNames DEF PathInv
<1>9. CASE EnvWait
    <2>1. /\ BlockAt("env_process", "receive", "waiting")
          /\ Goto("env_process", "receive", "waiting")
          /\ UNCHANGED <<sensor_sample_queue, alarm_event_queue, command_queue>>
          /\ sensor_sample_queue = <<>>
        BY <1>9 DEF EnvWait, BlockAt, queues
    <2>2. pc["env_process"] = "receive" /\ pc'["env_process"] = "waiting"
          /\ \A t \in Task : t # "env_process" => pc'[t] = pc[t]
        BY <1>t, <2>1, TaskNames, GoingElsewhere
    <2>3. /\ IsReady("sensor_acquire")' <=> IsReady("sensor_acquire")
          /\ IsReady("alarm_output")' <=> IsReady("alarm_output")
          /\ ReadyOnce("sensor_acquire")'
        BY <1>t, <2>1, TaskNames, ReadyAfterBlock DEF PathInv
    <2>4. InFlight' = InFlight
        BY <2>1, <2>2 DEF InFlight
    <2> QED BY <2>1, <2>2, <2>3, <2>4, TaskNames DEF PathInv
<1>10. CASE EnvPublish
    <2>1. /\ UNCHANGED <<sensor_sample_queue, command_queue>> /\ pc["env_process"] = "process"
          /\ \E to \in {"commit", "drain"} : Goto("env_process", "process", to)
          /\ \/ UNCHANGED <<alarm_event_queue, ready>>
             \/ /\ Wake("alarm_output")
                /\ alarm_event_queue' =
                      Sent(alarm_event_queue, QueueLength.alarm_event,
                           alarm_state_update(processor.state, processor.config, env_sample))
        BY <1>10 DEF EnvPublish
    <2>2. /\ pc'["env_process"] # "process"
          /\ \A t \in Task : t # "env_process" => pc'[t] = pc[t]
        BY <1>t, <2>1, TaskNames, GoingElsewhere
    <2>3. IsReady("env_process")
        BY <1>t, <2>1, TaskNames, RunningTask DEF Goto
    <2>4. CASE UNCHANGED <<alarm_event_queue, ready>>
        <3>1. InFlight' <= InFlight /\ InFlight' \in Nat
            BY <2>1, <2>2, <2>4, QueueLengths DEF InFlight
        <3>2. \A t \in Task : (IsReady(t)' <=> IsReady(t)) /\ (ReadyOnce(t)' <=> ReadyOnce(t))
            BY <2>4 DEF IsReady, ReadyOnce
        <3>3. \A n \in Nat : InFlight <= n => InFlight' <= n
            BY <3>1, QueueLengths
        <3> QED BY <2>1, <2>2, <2>3, <2>4, <3>2, <3>3, TaskNames, LengthTypes DEF PathInv
    <2>5. CASE ~ UNCHANGED <<alarm_event_queue, ready>>
        <3>1. Wake("alarm_output")
            BY <2>1, <2>5
        <3>2. Len(alarm_event_queue') \in {Len(alarm_event_queue), Len(alarm_event_queue) + 1}
            <4>1. alarm_state_update(processor.state, processor.config, env_sample) \in AlarmStates
                BY DecisionIsAState
            <4> QED BY <2>1, <2>5, <4>1, SentLength DEF TypeOK
        <3>3. InFlight' <= InFlight /\ InFlight' \in Nat
            BY <2>1, <2>2, <3>2, QueueLengths DEF InFlight
        <3>4. /\ IsReady("env_process")' /\ IsReady("alarm_output")'
              /\ IsReady("sensor_acquire")' => IsReady("sensor_acquire")
              /\ ReadyOnce("sensor_acquire")'
            BY <1>t, <2>3, <3>1, TaskNames, ReadyAfterWake DEF PathInv
        <3>5. \A n \in Nat : InFlight <= n => InFlight' <= n
            BY <3>3, QueueLengths
        <3> QED BY <2>1, <2>2, <3>4, <3>5, TaskNames, LengthTypes DEF PathInv
    <2> QED BY <2>4, <2>5
<1>11. CASE CommPollIngress
    <2>1. /\ Goto("communication", "ingress", "receive")
          /\ UNCHANGED <<sensor_sample_queue, alarm_event_queue, ready>>
          /\ \/ UNCHANGED command_queue
             \/ \E command \in Command :
                   command_queue' = Sent(command_queue, QueueLength.command, command)
        BY <1>11, PortAssumption DEF CommPollIngress
    <2>2. pc["communication"] = "ingress" /\ pc'["communication"] = "receive"
          /\ \A t \in Task : t # "communication" => pc'[t] = pc[t]
        BY <1>t, <2>1, TaskNames, GoingElsewhere
    <2>3. Len(command_queue') \in {Len(command_queue), Len(command_queue) + 1}
        BY <2>1, QueueLengths, SentLength DEF TypeOK
    <2>4. \A t \in Task : (IsReady(t)' <=> IsReady(t)) /\ (ReadyOnce(t)' <=> ReadyOnce(t))
        BY <2>1 DEF IsReady, ReadyOnce
    <2>5. InFlight' = InFlight
        BY <2>1, <2>2, TaskNames DEF InFlight
    <2>6. Len(command_queue)' < QueueLength.command + 1
        BY <2>2, <2>3, LengthTypes, QueueLengths DEF PathInv
    <2> QED BY <2>1, <2>2, <2>4, <2>5, <2>6, TaskNames DEF PathInv
<1>12. ASSUME NEW from \in {"receive", "waiting"}, CommHandle(from) PROVE PathInv'
    <2>1. /\ \E to \in {"forward_config", "forward_sample", "respond", "ingress"} :
               Goto("communication", from, to)
          /\ command_queue # <<>> /\ command_queue' = Tail(command_queue)
          /\ UNCHANGED <<sensor_sample_queue, alarm_event_queue, ready>>
        BY <1>12 DEF CommHandle
    <2>2. /\ pc["communication"] = from /\ pc'["communication"] # "receive"
          /\ \A t \in Task : t # "communication" => pc'[t] = pc[t]
        BY <1>t, <2>1, TaskNames, GoingElsewhere
    <2>3. Len(command_queue') = Len(command_queue) - 1
        BY <2>1, TakingHead DEF TypeOK
    <2>4. \A t \in Task : (IsReady(t)' <=> IsReady(t)) /\ (ReadyOnce(t)' <=> ReadyOnce(t))
        BY <2>1 DEF IsReady, ReadyOnce
    <2>5. InFlight' = InFlight
        BY <2>1, <2>2, TaskNames DEF InFlight
    <2>6. Len(command_queue)' < QueueLength.command
        BY <2>3, LengthTypes, QueueLengths DEF PathInv
    <2>7. Len(command_queue)' <
             QueueLength.command + (IF pc'["communication"] = "receive" THEN 1 ELSE 0)
        BY <2>2, <2>6, LengthTypes
    <2> QED BY <2>1, <2>2, <2>4, <2>5, <2>7, TaskNames DEF PathInv
<1>13. CASE CommWait
    <2>1. /\ BlockAt("communication", "receive", "waiting")
          /\ Goto("communication", "receive", "waiting")
          /\ UNCHANGED <<sensor_sample_queue, alarm_event_queue, command_queue>>
          /\ command_queue = <<>>
        BY <1>13 DEF CommWait, BlockAt, queues
    <2>2. pc'["communication"] = "waiting"
          /\ \A t \in Task : t # "communication" => pc'[t] = pc[t]
        BY <1>t, <2>1, TaskNames, GoingElsewhere
    <2>3. /\ IsReady("env_process")' <=> IsReady("env_process")
          /\ IsReady("alarm_output")' <=> IsReady("alarm_output")
          /\ IsReady("sensor_acquire")' <=> IsReady("sensor_acquire")
          /\ ReadyOnce("sensor_acquire")'
        BY <1>t, <2>1, TaskNames, ReadyAfterBlock DEF PathInv
    <2>4. InFlight' = InFlight
        BY <2>1, <2>2, TaskNames DEF InFlight
    <2>5. Len(command_queue)' < QueueLength.command
        <3>1. Len(command_queue') = 0
            BY <2>1
        <3> QED BY <3>1, LengthTypes
    <2>6. Len(command_queue)' <
             QueueLength.command + (IF pc'["communication"] = "receive" THEN 1 ELSE 0)
        BY <2>2, <2>5, LengthTypes
    <2> QED BY <2>1, <2>2, <2>3, <2>4, <2>6, TaskNames DEF PathInv
<1>14. CASE CommForwardSample
    <2>1. /\ Goto("communication", "forward_sample", "respond")
          /\ UNCHANGED <<alarm_event_queue, command_queue>>
          /\ sensor_sample_queue' =
                Sent(sensor_sample_queue, QueueLength.sensor_sample, responder.sample)
          /\ Wake("env_process")
        BY <1>14 DEF CommForwardSample
    <2>2. Running("communication") /\ pc["communication"] = "forward_sample"
          /\ pc'["communication"] = "respond"
          /\ \A t \in Task : t # "communication" => pc'[t] = pc[t]
        BY <1>t, <2>1, TaskNames, GoingElsewhere DEF Goto
    <2>3. /\ ~ IsReady("sensor_acquire") /\ InFlight = 0 /\ pc["env_process"] = "waiting"
        BY <1>a, <1>e, <2>2
    <2>4. Len(sensor_sample_queue') \in {Len(sensor_sample_queue), Len(sensor_sample_queue) + 1}
        BY <2>1, SentLength DEF TypeOK, Responder
    <2>5. InFlight' <= 1
        BY <2>1, <2>2, <2>3, <2>4, TaskNames, QueueLengths DEF InFlight
    <2>6. /\ IsReady("env_process")' /\ ~ IsReady("sensor_acquire")'
          /\ IsReady("alarm_output") => IsReady("alarm_output")'
          /\ ReadyOnce("sensor_acquire")'
        BY <1>t, <2>1, <2>3, TaskNames, ReadyAfterWake DEF PathInv
    <2>7. InFlight' <= Len(BootSamples) + 1
        BY <2>4, <2>5, LengthTypes, QueueLengths DEF InFlight
    <2> QED BY <2>1, <2>2, <2>6, <2>7, TaskNames DEF PathInv
<1>15. ASSUME NEW from \in {"receive", "waiting"}, AlarmShowEvent(from) PROVE PathInv'
    <2>1. /\ Goto("alarm_output", from, "receive") /\ alarm_event_queue # <<>>
          /\ alarm_event_queue' = Tail(alarm_event_queue)
          /\ UNCHANGED <<sensor_sample_queue, command_queue, ready>>
        BY <1>15 DEF AlarmShowEvent
    <2>2. \A t \in Task : t # "alarm_output" => pc'[t] = pc[t]
        BY <1>t, <2>1, TaskNames, GoingElsewhere
    <2>3. IsReady("alarm_output")
        BY <1>t, <2>1, TaskNames, RunningTask DEF Goto
    <2>4. Len(alarm_event_queue') = Len(alarm_event_queue) - 1
        BY <2>1, TakingHead DEF TypeOK
    <2>5. InFlight' = InFlight - 1
        BY <2>1, <2>2, <2>4, TaskNames, QueueLengths DEF InFlight
    <2>6. \A t \in Task : (IsReady(t)' <=> IsReady(t)) /\ (ReadyOnce(t)' <=> ReadyOnce(t))
        BY <2>1 DEF IsReady, ReadyOnce
    <2>7. \A n \in Nat : InFlight <= n => InFlight' <= n
        BY <2>5, QueueLengths
    <2>8. Len(BootSamples) \in Nat /\ Len(BootSamples) + 1 \in Nat
        BY LengthTypes
    <2>9. /\ InFlight' <= Len(BootSamples) + 1
          /\ IsReady("sensor_acquire")' /\ pc'["sensor_acquire"] = "poll" =>
                InFlight' <= Len(BootSamples)
        BY <2>2, <2>6, <2>7, <2>8, TaskNames DEF PathInv
    <2> HIDE DEF InFlight
    <2> QED BY <2>1, <2>2, <2>3, <2>6, <2>9, TaskNames DEF PathInv
<1>16. CASE AlarmWait
    <2>1. /\ BlockAt("alarm_output", "receive", "waiting")
          /\ Goto("alarm_output", "receive", "waiting")
          /\ UNCHANGED <<sensor_sample_queue, alarm_event_queue, command_queue>>
          /\ alarm_event_queue = <<>>
        BY <1>16 DEF AlarmWait, BlockAt, queues
    <2>2. pc'["alarm_output"] = "waiting"
          /\ \A t \in Task : t # "alarm_output" => pc'[t] = pc[t]
        BY <1>t, <2>1, TaskNames, GoingElsewhere
    <2>3. /\ IsReady("sensor_acquire")' <=> IsReady("sensor_acquire")
          /\ IsReady("env_process")' <=> IsReady("env_process")
          /\ ReadyOnce("sensor_acquire")'
        BY <1>t, <2>1, TaskNames, ReadyAfterBlock DEF PathInv
    <2>4. InFlight' = InFlight
        BY <2>1, <2>2, TaskNames DEF InFlight
    <2> QED BY <2>1, <2>2, <2>3, <2>4, TaskNames DEF PathInv
<1>17. CASE TimeSlice
    <2>1. UNCHANGED <<sensor_sample_queue, alarm_event_queue, command_queue, pc>>
        BY <1>17 DEF TimeSlice, queues
    <2>2. \A t \in Task : (IsReady(t)' <=> IsReady(t)) /\ (ReadyOnce(t) => ReadyOnce(t)')
        BY <1>t, <1>17, ReadyAfterSlice
    <2>3. InFlight' = InFlight
        BY <2>1 DEF InFlight
    <2> QED BY <2>1, <2>2, <2>3, TaskNames DEF PathInv
<1>18. ASSUME NEW u \in Task, DelayElapses(u) PROVE PathInv'
    <2>1. UNCHANGED <<sensor_sample_queue, alarm_event_queue, command_queue, pc>>
        BY <1>18 DEF DelayElapses, queues
    <2>2. \A t \in Task : /\ IsReady(t)' <=> (IsReady(t) \/ t = u)
                          /\ ReadyOnce(t) => ReadyOnce(t)'
        BY <1>t, <1>18, ListAfterSend DEF DelayElapses
    <2>3. InFlight' = InFlight
        BY <2>1 DEF InFlight
    <2>4. CASE u = "sensor_acquire"
        <3>1. \A p \in Level : p >= Priority["sensor_acquire"] => ready[p] = <<>>
            BY <1>18, <2>4 DEF DelayElapses, PathFits
        <3>2. ready[Priority["env_process"]] = <<>> /\ ready[Priority["alarm_output"]] = <<>>
            BY <1>o, <3>1, TaskNames, PriorityIsLevel
        <3>3. ~ IsReady("env_process") /\ ~ IsReady("alarm_output")
            BY <3>2 DEF IsReady
        <3>4. InFlight = 0
            BY <3>3 DEF PathInv, InFlight
        <3> QED BY <2>1, <2>2, <2>3, <3>4, TaskNames, LengthTypes DEF PathInv
    <2>5. CASE u # "sensor_acquire"
        BY <2>1, <2>2, <2>3, <2>5, TaskNames DEF PathInv
    <2> QED BY <2>4, <2>5
<1> QED
    BY <1>1, <1>2, <1>3, <1>4, <1>5, <1>6, <1>7, <1>8, <1>9, <1>10, <1>11, <1>12, <1>13,
       <1>14, <1>15, <1>16, <1>17, <1>18
       DEF TasksNext, EnvStep, CommStep, AlarmStep

\* With the firmware's order of priorities no send on the way from the sensor to the
\* outputs finds its queue full, for any readings and commands and any lengths with room
\* behind the boot items; a full one would drop in silence
\* (sensor_acquisition.c:20-34, environment_processor.c:49-53, rtos_port_freertos.c:227-236).
THEOREM PortSensorPathNeverDrops ==
    ASSUME PathFits
    PROVE  ClosedSpec => []SensorPathNeverDrops
<1>1. TypeOK /\ PathInv => SensorPathNeverDrops
    <2> SUFFICES ASSUME TypeOK, PathInv PROVE SensorPathNeverDrops
        OBVIOUS
    <2>1. ASSUME NEW u \in {"sensor_acquire", "communication"}, Running(u)
          PROVE  HasRoom(sensor_sample_queue, QueueLength.sensor_sample)
        <3>1. Priority["env_process"] > Priority[u]
            <4>1. \A a, b, c \in Nat : a > b /\ b > c => a > c
                OBVIOUS
            <4> QED BY <4>1, TaskNames DEF PathFits
        <3>2. ~ IsReady("env_process")
            BY <2>1, <3>1, TaskNames, RunningTask DEF TypeOK
        <3>3. Len(sensor_sample_queue) = 0
            BY <3>2 DEF PathInv
        <3> QED BY <3>3, LengthTypes DEF HasRoom
    <2>2. ASSUME pc["communication"] = "ingress"
          PROVE  HasRoom(command_queue, QueueLength.command)
        BY <2>2, LengthTypes DEF PathInv, HasRoom
    <2>3. ASSUME pc["env_process"] = "process"
          PROVE  HasRoom(alarm_event_queue, QueueLength.alarm_event)
        <3>1. Len(sensor_sample_queue) + Len(alarm_event_queue) + 1 <= Len(BootSamples) + 1
            BY <2>3 DEF PathInv, InFlight
        <3> QED BY <3>1, LengthTypes, QueueLengths DEF PathFits, HasRoom
    <2> QED BY <2>1, <2>2, <2>3 DEF SensorPathNeverDrops
<1>2. ClosedSpec => Spec
    <2>1. [TasksNext]_vars => [Next]_vars
        BY DEF Next
    <2> QED BY <2>1, PTL DEF ClosedSpec, Spec
<1> QED
    BY <1>1, <1>2, PathInitially, PathPreserved, PortTypeOK, PTL DEF ClosedSpec

===============================================================================
