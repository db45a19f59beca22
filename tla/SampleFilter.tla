------------------------------ MODULE SampleFilter ------------------------------
(***************************************************************************)
(* drivers/src/sensor_sample_filter.c behind a filtered_sensor_source_t,   *)
(* and the alarm decision on what it delivers.  The filter moves a kept    *)
(* sample towards each new one by a fixed share of the difference, in      *)
(* integers.  That every sample that is read reaches the decision is       *)
(* FreeRtosPort's SensorPathNeverDrops.                                    *)
(***************************************************************************)
EXTENDS AlarmState

CONSTANTS
    Alphas,         \* <<numerator, denominator>> pairs given to the filter's init
    Configs,        \* the thresholds that may be in force
    RawReadings,    \* what the inner source may deliver, invalid ones included
    None            \* no sample is kept yet

ASSUME FilterAssumption ==
    /\ Alphas \subseteq Nat \X Nat
    /\ \A alpha \in Alphas : 0 < alpha[1] /\ alpha[1] <= alpha[2]
    /\ Configs \subseteq AlarmConfig
    /\ \A config \in Configs : alarm_config_is_valid(config)
    /\ RawReadings \subseteq Reading
    /\ None \notin Reading

VARIABLES
    alpha, config,      \* chosen once
    raw,                \* what the sensor would deliver now
    last,               \* filter->last_sample, None while has_last_sample is false
    state,              \* the decision on the samples delivered so far
    cause               \* history: the sensor delivered a reading that is an alarm

vars == <<alpha, config, raw, last, state, cause>>

-------------------------------------------------------------------------------
\* Faulty variant: the remainder is scaled by the wrong factor.
ScaleByDenominator(magnitude) ==
    (magnitude \div alpha[2]) * alpha[1] + ((magnitude % alpha[2]) * alpha[2]) \div alpha[2]

\* Faulty variant: the remainder is dropped.
ScaleWholePart(magnitude) == (magnitude \div alpha[2]) * alpha[1]

\* Whole part and remainder are scaled apart, to stay within 32 bits.
scale_delta_magnitude(magnitude) ==
    (magnitude \div alpha[2]) * alpha[1] + ((magnitude % alpha[2]) * alpha[1]) \div alpha[2]

\* Faulty variant: the magnitude of a falling difference is added.
AddsEveryDifference(previous, next) ==
    IF next >= previous THEN previous + scale_delta_magnitude(next - previous)
    ELSE previous + scale_delta_magnitude(previous - next)

\* filter_i32 and filter_u32: the scaled difference is truncated towards zero.
filter_value(previous, next) ==
    IF next >= previous THEN previous + scale_delta_magnitude(next - previous)
    ELSE previous - scale_delta_magnitude(previous - next)

\* The first sample is taken as it is.
sensor_sample_filter_apply(input) ==
    IF last = None THEN input
    ELSE [c \in Channel |-> filter_value(last[c], input[c])]

-------------------------------------------------------------------------------
\* sensor_sample_filter_init
Init ==
    /\ alpha \in Alphas
    /\ config \in Configs
    /\ raw \in RawReadings
    /\ last = None
    /\ state = "NORMAL"
    /\ cause = FALSE

SensorMoves ==
    /\ raw' \in RawReadings
    /\ UNCHANGED <<alpha, config, last, state, cause>>

\* Faulty variant: neither the source nor the filter checks the ranges.
ReadUnchecked ==
    /\ last' = sensor_sample_filter_apply(raw)
    /\ state' = alarm_state_update(state, config, last')
    /\ cause' = (cause \/ is_alarm_sample(config, raw))
    /\ UNCHANGED <<alpha, config, raw>>

\* filtered_sensor_source_read and the decision on its sample.  A read that fails
\* or delivers an invalid sample leaves the filter alone.
Read ==
    LET filtered == sensor_sample_filter_apply(raw)
    IN  /\ sensor_sample_is_valid(raw)
        /\ sensor_sample_is_valid(filtered)
        /\ last' = filtered
        /\ state' = alarm_state_update(state, config, filtered)
        /\ cause' = (cause \/ is_alarm_sample(config, raw))
        /\ UNCHANGED <<alpha, config, raw>>

\* filtered_sensor_source_reset: the next sample is taken as it is.  The firmware
\* never calls it; whoever holds the source may.
Reset ==
    /\ last' = None
    /\ UNCHANGED <<alpha, config, raw, state, cause>>

Next == SensorMoves \/ Read \/ Reset

Spec == Init /\ [][Next]_vars

\* The acquisition task reads once per period.
FairSpec == Spec /\ WF_vars(Read)

-------------------------------------------------------------------------------
TypeOK ==
    /\ raw \in RawReadings
    /\ last \in {x \in Reading : sensor_sample_is_valid(x)} \cup {None}
    /\ state \in AlarmStates
    /\ cause \in BOOLEAN

\* Splitting a difference into whole part and remainder changes nothing
\* (sensor_sample_filter.c:8-11), and a value never leaves the span between the
\* kept and the new sample.
FilterIsExact ==
    [][last # None /\ last' \notin {last, None} =>
        \A c \in Channel :
            LET delta == raw[c] - last[c]
                step  == last'[c] - last[c]
            IN  IF delta >= 0 THEN step = (delta * alpha[1]) \div alpha[2]
                ELSE -step = (-delta * alpha[1]) \div alpha[2]]_vars

\* Smoothing never invents an alarm: some reading of the sensor had reached an
\* alarm threshold before.
AlarmHasCause == state = "ALARM" => cause

\* The largest difference of which the share is truncated to nothing.  Up to it
\* the kept sample stays short of a steady reading for ever.
DeadZone == (alpha[2] - 1) \div alpha[1]

MovedBack(reading) ==
    [c \in Channel |-> IF c \in Rising THEN reading[c] - DeadZone ELSE reading[c] + DeadZone]

MovedOn(reading) ==
    [c \in Channel |-> IF c \in Rising THEN reading[c] + DeadZone ELSE reading[c] - DeadZone]

Steady == <>[][UNCHANGED raw]_vars

\* A reading that stays beyond an alarm threshold by more than the truncation can
\* swallow does raise the ALARM, whatever the filter kept from before.
SteadyDangerIsSeen ==
    Steady => <>[](sensor_sample_is_valid(raw) /\ is_alarm_sample(config, MovedBack(raw))
                   => state = "ALARM")

\* And one that stays recovered by that much ends it.
SteadyRecoveryIsSeen ==
    Steady => <>[](/\ sensor_sample_is_valid(raw)
                   /\ is_recovered_sample(config, MovedOn(raw))
                   /\ ~ is_warning_sample(config, MovedOn(raw))
                   => state = "NORMAL")

===============================================================================
