------------------------------- MODULE Workbench -------------------------------
(***************************************************************************)
(* The values the code fixes: the four sensor channels with their ranges   *)
(* and C types, the default thresholds, and the task and queue table of    *)
(* app/src/rtos_task_model.c.  MC modules pass them to the specifications  *)
(* whose CONSTANTS they are.                                               *)
(***************************************************************************)
EXTENDS Integers

\* sensor_sample_t: which side of a channel is dangerous is in alarm_state.c.
RisingChannels  == {"temperature", "humidity", "smoke"}
FallingChannels == {"light"}

PerChannel(t, h, l, s) ==
    [c \in RisingChannels \cup FallingChannels |->
        CASE c = "temperature" -> t [] c = "humidity" -> h
          [] c = "light" -> l       [] c = "smoke" -> s]

SensorMin == PerChannel(-400, 0, 0, 0)
SensorMax == PerChannel(850, 1000, 100000, 10000)

\* What an int32_t command argument may be and still fit the field's C type:
\* int16_t, uint16_t, uint32_t (is_uint32_value accepts every non-negative).
ChannelTypeMin == PerChannel(-32768, 0, 0, 0)
ChannelTypeMax == PerChannel(32767, 65535, 2147483647, 65535)

alarm_config_default ==
    [warning  |-> PerChannel(350, 800, 100, 200),
     alarm    |-> PerChannel(450, 900,  30, 500),
     recovery |-> PerChannel(330, 750, 150, 150)]

\* The sample communication_task and the USART2 loop start from.
initial_sample == PerChannel(250, 500, 300, 20)

-------------------------------------------------------------------------------
Tasks == {"sensor_acquire", "env_process", "communication", "alarm_output"}

\* rtos_task_descriptor_t.priority: larger is more urgent.
TaskPriority ==
    [t \in Tasks |-> CASE t = "sensor_acquire" -> 3 [] t = "env_process"  -> 4
                       [] t = "communication"  -> 2 [] t = "alarm_output" -> 3]

\* rtos_queue_descriptor_t.length
TableQueueLength == [sensor_sample |-> 4, command |-> 4, response |-> 4,
                alarm_event |-> 4, config_update |-> 2]

===============================================================================
