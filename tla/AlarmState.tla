------------------------------ MODULE AlarmState ------------------------------
(***************************************************************************)
(* The pure decision "sample -> alarm state" of app/src/alarm_state.c, and *)
(* the range check of drivers/src/sensor_sample.c.                         *)
(*                                                                         *)
(* A sample, and each of the three threshold levels of alarm_config_t, is  *)
(* a function from channels to integers.  A channel is Rising when larger  *)
(* readings are more dangerous (temperature, humidity, smoke) and Falling  *)
(* when smaller ones are (light).  Workbench.tla gives the four channels   *)
(* and the thresholds of the code; everything here holds for any.          *)
(***************************************************************************)
EXTENDS Integers

CONSTANTS Rising, Falling,          \* channels by the side that is dangerous
          MinReading, MaxReading    \* SENSOR_*_MIN, SENSOR_*_MAX per channel

Channel == Rising \cup Falling

ASSUME ChannelAssumption ==
    /\ Rising \cap Falling = {}
    /\ Channel # {}
    /\ MinReading \in [Channel -> Int]
    /\ MaxReading \in [Channel -> Int]

-------------------------------------------------------------------------------
AlarmStates == {"NORMAL", "WARNING", "ALARM", "SENSOR_FAULT"}

Reading == [Channel -> Int]

AlarmConfig == [warning : Reading, alarm : Reading, recovery : Reading]

\* Every field within its range.
sensor_sample_is_valid(sample) ==
    \A c \in Channel : MinReading[c] <= sample[c] /\ sample[c] <= MaxReading[c]

\* Reading x of channel c is at least as dangerous as y.
Reaches(c, x, y) == IF c \in Rising THEN x >= y ELSE x <= y

\* recovery, warning and alarm are ordered towards danger on every channel.
alarm_config_is_valid(config) ==
    \A c \in Channel : /\ Reaches(c, config.warning[c], config.recovery[c])
                       /\ Reaches(c, config.alarm[c], config.warning[c])

is_alarm_sample(config, sample) ==
    \E c \in Channel : Reaches(c, sample[c], config.alarm[c])

is_warning_sample(config, sample) ==
    \E c \in Channel : Reaches(c, sample[c], config.warning[c])

is_recovered_sample(config, sample) ==
    \A c \in Channel : Reaches(c, config.recovery[c], sample[c])

\* The state is held: entering it is easy, leaving it takes a full recovery.
held_until_recovered(current, state, config, sample) ==
    current = state /\ ~ is_recovered_sample(config, sample)

\* Faulty variant: ALARM falls back to WARNING on its own threshold.
UpdateWithoutAlarmHold(current, config, sample) ==
    IF ~ alarm_config_is_valid(config) \/ ~ sensor_sample_is_valid(sample)
    THEN "SENSOR_FAULT"
    ELSE IF is_alarm_sample(config, sample) THEN "ALARM"
    ELSE IF \/ is_warning_sample(config, sample)
            \/ held_until_recovered(current, "WARNING", config, sample) THEN "WARNING"
    ELSE "NORMAL"

\* Faulty variant: the warning threshold is looked at before the alarm hold,
\* and a held WARNING swallows an alarm sample.
UpdateHoldsWarningFirst(current, config, sample) ==
    IF ~ alarm_config_is_valid(config) \/ ~ sensor_sample_is_valid(sample)
    THEN "SENSOR_FAULT"
    ELSE IF held_until_recovered(current, "WARNING", config, sample) THEN "WARNING"
    ELSE IF is_alarm_sample(config, sample) THEN "ALARM"
    ELSE IF is_warning_sample(config, sample) THEN "WARNING"
    ELSE "NORMAL"

\* Faulty variant: a recovered ALARM steps down to WARNING first.
UpdateStepsDown(current, config, sample) ==
    IF ~ alarm_config_is_valid(config) \/ ~ sensor_sample_is_valid(sample)
    THEN "SENSOR_FAULT"
    ELSE IF \/ is_alarm_sample(config, sample)
            \/ held_until_recovered(current, "ALARM", config, sample) THEN "ALARM"
    ELSE IF \/ is_warning_sample(config, sample)
            \/ held_until_recovered(current, "WARNING", config, sample)
            \/ current = "ALARM" THEN "WARNING"
    ELSE "NORMAL"

alarm_state_update(current, config, sample) ==
    IF ~ alarm_config_is_valid(config) \/ ~ sensor_sample_is_valid(sample)
    THEN "SENSOR_FAULT"
    ELSE IF \/ is_alarm_sample(config, sample)
            \/ held_until_recovered(current, "ALARM", config, sample) THEN "ALARM"
    ELSE IF \/ is_warning_sample(config, sample)
            \/ held_until_recovered(current, "WARNING", config, sample) THEN "WARNING"
    ELSE "NORMAL"

===============================================================================
