----------------------------- MODULE AlarmLatches -----------------------------
(***************************************************************************)
(* What the alarm decision promises, without its state names: two          *)
(* set-dominant latches fed by a stream of valid samples.  The warning     *)
(* latch is set by any sample that reaches a warning threshold, the alarm  *)
(* latch by any sample that reaches an alarm threshold; only a sample      *)
(* recovered on every channel resets them.  Changing the thresholds never  *)
(* moves a latch by itself.  EnvironmentProcessor implements this.         *)
(***************************************************************************)
EXTENDS AlarmState

CONSTANTS Samples, Configs, InitialConfig

VARIABLES config, alarm_latch, warning_latch

latchVars == <<config, alarm_latch, warning_latch>>

Init == /\ config = InitialConfig
        /\ alarm_latch \in BOOLEAN
        /\ warning_latch \in BOOLEAN
        /\ alarm_latch => warning_latch

\* Set wins over reset, as it must when recovery = warning = alarm.
Latch(latch, set, sample) == set \/ (latch /\ ~ is_recovered_sample(config, sample))

TakeSample(sample) ==
    /\ sensor_sample_is_valid(sample)
    /\ alarm_latch' = Latch(alarm_latch, is_alarm_sample(config, sample), sample)
    /\ warning_latch' = Latch(warning_latch, is_warning_sample(config, sample), sample)
    /\ UNCHANGED config

Reconfigure ==
    /\ config' \in Configs
    /\ alarm_config_is_valid(config')
    /\ UNCHANGED <<alarm_latch, warning_latch>>

Next == Reconfigure \/ \E sample \in Samples : TakeSample(sample)

Spec == Init /\ [][Next]_latchVars

===============================================================================
