------------------------- MODULE EnvironmentProcessor -------------------------
(***************************************************************************)
(* app/src/environment_processor.c: the object that owns the thresholds in *)
(* force and the current alarm state, and announces every decision through *)
(* a publish callback that may fail (a full alarm-event queue).            *)
(***************************************************************************)
EXTENDS AlarmState

CONSTANTS Samples,          \* the samples callers may pass, invalid ones included
          Configs,          \* the configurations callers may pass, invalid ones included
          InitialConfig     \* the configuration passed to environment_processor_init

ASSUME ProcessorAssumption ==
    /\ Samples \subseteq Reading
    /\ Configs \subseteq AlarmConfig
    /\ InitialConfig \in AlarmConfig
    /\ alarm_config_is_valid(InitialConfig)

VARIABLES config,       \* processor->config
          state         \* processor->state

vars == <<config, state>>

\* environment_processor_init accepts any known state and a valid configuration.
Init == /\ config = InitialConfig
        /\ state \in AlarmStates

\* Faulty variant: the sample is not checked before it is evaluated.
ProcessUncheckedSample(sample) ==
    /\ state' = alarm_state_update(state, config, sample)
    /\ UNCHANGED config

\* The state is assigned only after the callback accepted it.
environment_processor_process_sample(sample) ==
    /\ alarm_config_is_valid(config)
    /\ sensor_sample_is_valid(sample)
    /\ \/ state' = alarm_state_update(state, config, sample)
       \/ UNCHANGED state                               \* publish returned false
    /\ UNCHANGED config

\* Faulty variant: any configuration is taken.
UpdateUncheckedConfig(next_config) ==
    /\ config' = next_config
    /\ UNCHANGED state

\* Faulty variant: the copy forgets the recovery thresholds.
UpdateCopiesTwoLevels(next_config) ==
    /\ alarm_config_is_valid(next_config)
    /\ config' = [warning |-> next_config.warning, alarm |-> next_config.alarm]
    /\ UNCHANGED state

environment_processor_update_config(next_config) ==
    /\ alarm_config_is_valid(next_config)
    /\ config' = next_config
    /\ UNCHANGED state

Next == \/ \E sample \in Samples : environment_processor_process_sample(sample)
        \/ \E next_config \in Configs : environment_processor_update_config(next_config)

Spec == Init /\ [][Next]_vars

-------------------------------------------------------------------------------
TypeOK == /\ config \in AlarmConfig
          /\ state \in AlarmStates

\* The configuration in force is always ordered recovery, warning, alarm, so
\* alarm_state_update never takes its SENSOR_FAULT branch for a valid sample:
\* update_config is the only way in, and it rejects everything else.
ConfigStaysValid == alarm_config_is_valid(config)

\* Invalid samples are rejected, not reported: a processor that did not start
\* in SENSOR_FAULT never announces it, whatever the sensors deliver.
FaultIsNeverEntered ==
    [][state' = "SENSOR_FAULT" => state = "SENSOR_FAULT"]_vars

-------------------------------------------------------------------------------
\* Severity of a state; SENSOR_FAULT decides like NORMAL.
Severity(s) == CASE s = "ALARM" -> 2 [] s = "WARNING" -> 1 [] OTHER -> 0

AtLeastAsDangerous(x, y) == \A c \in Channel : Reaches(c, x[c], y[c])

\* Hysteresis does not oscillate: a reading that does not change settles the
\* state at once, so a second identical sample never moves it (the reason the
\* recovery thresholds exist, alarm_state.c:104-106 and 114).
SteadyReadingSettles ==
    \A x \in Samples : sensor_sample_is_valid(x) =>
        LET settled == alarm_state_update(state, config, x)
        IN  alarm_state_update(settled, config, x) = settled

\* A reading that is at least as dangerous on every channel never leads to a
\* milder state, in whatever state and under whatever thresholds the processor is.
DangerIsMonotone ==
    \A x, y \in Samples :
        /\ sensor_sample_is_valid(x) /\ sensor_sample_is_valid(y)
        /\ AtLeastAsDangerous(x, y)
        => Severity(alarm_state_update(state, config, x))
             >= Severity(alarm_state_update(state, config, y))

\* The processor's state is the pair of latches of AlarmLatches: ALARM is the
\* alarm latch, and WARNING or ALARM the warning latch.  A rejected sample and
\* a failed publish are stuttering steps of it.
Latches == INSTANCE AlarmLatches WITH
               alarm_latch   <- state = "ALARM",
               warning_latch <- state \in {"WARNING", "ALARM"}

ImplementsLatches == Latches!Spec

===============================================================================
