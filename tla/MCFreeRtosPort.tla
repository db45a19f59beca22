---------------------------- MODULE MCFreeRtosPort ----------------------------
(***************************************************************************)
(* Values for FreeRtosPort: one rising channel, with the task table of     *)
(* rtos_task_model.c or with its priorities turned over and short queues.  *)
(***************************************************************************)
EXTENDS FreeRtosPort

Table == INSTANCE Workbench

MCRising  == {"smoke"}
MCFalling == {}
PerSmoke(n) == [c \in {"smoke"} |-> n]

MCMinReading == PerSmoke(0)
MCMaxReading == PerSmoke(4)
MCFieldTypeMin == PerSmoke(0)
MCFieldTypeMax == PerSmoke(9)

MCDefaultConfig == [warning |-> PerSmoke(2), alarm |-> PerSmoke(3), recovery |-> PerSmoke(1)]
MCInitialSample == PerSmoke(0)

\* 5 is outside the valid range: such a reading is never submitted.
SafeAndDangerous == {PerSmoke(0), PerSmoke(3)}
DangerousOrInvalid == {PerSmoke(3), PerSmoke(5)}

GetStatus == [type |-> "GET_STATUS"]
SetThreshold(level, n) ==
    [type |-> "SET_THRESHOLD", level |-> level, channel |-> "smoke", value |-> n]
SetSample(n) == [type |-> "SET_SAMPLE", sample |-> PerSmoke(n)]

\* The warning threshold may follow only once the alarm threshold is raised: the
\* same SET is refused before and accepted after, and repeated ones send again.
SetsAndSample == {SetThreshold("alarm", 4), SetThreshold("warning", 4), SetSample(0)}
StatusOnly == {GetStatus}
OneSet == {SetThreshold("alarm", 4)}
OneSample == {SetSample(0)}

InOrderOfCreation(priority) ==
    [p \in {priority[t] : t \in DOMAIN priority} |->
        SelectSeq(<<"sensor_acquire", "env_process", "communication", "alarm_output">>,
                  LAMBDA t : priority[t] = p)]

\* The firmware: its own task table, and the self check's sample and STATUS?.
FirmwarePriority == Table!TaskPriority
FirmwareOrder == InOrderOfCreation(FirmwarePriority)
\* The lengths of the code, but for the answers, of which two fill the queue:
\* the path of the samples does not depend on it.
FirmwareQueueLength == [Table!TableQueueLength EXCEPT !.response = 2]
FirmwareBootSamples == <<PerSmoke(0)>>
FirmwareBootCommands == <<GetStatus>>

\* The firmware's order turned over: the producers preempt the consumers at any
\* step, and with equal priorities and time slicing the two consumers interleave
\* in every way.
InvertedPriority ==
    [t \in Table!Tasks |-> IF t \in {"sensor_acquire", "communication"} THEN 2 ELSE 1]
InvertedOrder == InOrderOfCreation(InvertedPriority)
ShortQueues == [sensor_sample |-> 1, command |-> 1, response |-> 1,
                alarm_event |-> 1, config_update |-> 1]
NoItems == <<>>

\* The firmware's table, order of creation and boot items are among those for which
\* no send within the sensor path can fail; the inverted order is not.
ASSUME FirmwarePathFits == PathFits <=> Priority = FirmwarePriority

===============================================================================
