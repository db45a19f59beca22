---------------------- MODULE EnvironmentProcessorProofs ----------------------
(***************************************************************************)
(* What EnvironmentProcessor promises, for any channels, ranges, samples   *)
(* and configurations.                                                     *)
(***************************************************************************)
EXTENDS EnvironmentProcessor, TLAPS

-------------------------------------------------------------------------------
(* The decision                                                            *)

\* The decision is always one of the four states.
LEMMA DecisionIsAState ==
    ASSUME NEW current, NEW c \in AlarmConfig, NEW x \in Reading
    PROVE  alarm_state_update(current, c, x) \in AlarmStates
BY DEF alarm_state_update, AlarmStates

\* Valid thresholds and a valid sample never decide for SENSOR_FAULT.
LEMMA ValidNeverFaults ==
    ASSUME NEW current, NEW c, NEW x,
           alarm_config_is_valid(c), sensor_sample_is_valid(x)
    PROVE  alarm_state_update(current, c, x) \in {"NORMAL", "WARNING", "ALARM"}
BY DEF alarm_state_update

\* With valid thresholds an alarm sample is a warning sample.
LEMMA AlarmIsWarning ==
    ASSUME NEW c \in AlarmConfig, NEW x \in Reading,
           alarm_config_is_valid(c), is_alarm_sample(c, x)
    PROVE  is_warning_sample(c, x)
<1>1. PICK k \in Channel : Reaches(k, x[k], c.alarm[k])
    BY DEF is_alarm_sample
<1>2. Reaches(k, c.alarm[k], c.warning[k])
    BY DEF alarm_config_is_valid
<1>3. x[k] \in Int /\ c.alarm[k] \in Int /\ c.warning[k] \in Int
    BY DEF AlarmConfig, Reading
<1>4. Reaches(k, x[k], c.warning[k])
    BY <1>1, <1>2, <1>3 DEF Reaches
<1> QED
    BY <1>4 DEF is_warning_sample

\* What the decision is, as two latches: the lemma behind the refinement.
LEMMA DecisionIsTwoLatches ==
    ASSUME NEW current, NEW c \in AlarmConfig, NEW x \in Reading,
           alarm_config_is_valid(c), sensor_sample_is_valid(x)
    PROVE  /\ alarm_state_update(current, c, x) = "ALARM"
                <=> \/ is_alarm_sample(c, x)
                    \/ current = "ALARM" /\ ~ is_recovered_sample(c, x)
           /\ alarm_state_update(current, c, x) \in {"WARNING", "ALARM"}
                <=> \/ is_warning_sample(c, x)
                    \/ current \in {"WARNING", "ALARM"} /\ ~ is_recovered_sample(c, x)
BY AlarmIsWarning DEF alarm_state_update, held_until_recovered

\* Deciding twice on one sample decides as deciding once.
LEMMA DecisionSettles ==
    ASSUME NEW current, NEW c, NEW x,
           alarm_config_is_valid(c), sensor_sample_is_valid(x)
    PROVE  LET settled == alarm_state_update(current, c, x)
           IN  alarm_state_update(settled, c, x) = settled
BY DEF alarm_state_update, held_until_recovered

-------------------------------------------------------------------------------
(* More dangerous readings                                                 *)

LEMMA DangerKeepsAlarm ==
    ASSUME NEW c \in AlarmConfig, NEW x \in Reading, NEW y \in Reading,
           AtLeastAsDangerous(x, y), is_alarm_sample(c, y)
    PROVE  is_alarm_sample(c, x)
<1>1. PICK k \in Channel : Reaches(k, y[k], c.alarm[k])
    BY DEF is_alarm_sample
<1>2. Reaches(k, x[k], y[k])
    BY DEF AtLeastAsDangerous
<1>3. x[k] \in Int /\ y[k] \in Int /\ c.alarm[k] \in Int
    BY DEF AlarmConfig, Reading
<1> QED
    BY <1>1, <1>2, <1>3 DEF is_alarm_sample, Reaches

LEMMA DangerKeepsWarning ==
    ASSUME NEW c \in AlarmConfig, NEW x \in Reading, NEW y \in Reading,
           AtLeastAsDangerous(x, y), is_warning_sample(c, y)
    PROVE  is_warning_sample(c, x)
<1>1. PICK k \in Channel : Reaches(k, y[k], c.warning[k])
    BY DEF is_warning_sample
<1>2. Reaches(k, x[k], y[k])
    BY DEF AtLeastAsDangerous
<1>3. x[k] \in Int /\ y[k] \in Int /\ c.warning[k] \in Int
    BY DEF AlarmConfig, Reading
<1> QED
    BY <1>1, <1>2, <1>3 DEF is_warning_sample, Reaches

LEMMA SafetyKeepsRecovered ==
    ASSUME NEW c \in AlarmConfig, NEW x \in Reading, NEW y \in Reading,
           AtLeastAsDangerous(x, y), is_recovered_sample(c, x)
    PROVE  is_recovered_sample(c, y)
<1> SUFFICES ASSUME NEW k \in Channel
             PROVE  Reaches(k, c.recovery[k], y[k])
    BY DEF is_recovered_sample
<1>1. Reaches(k, c.recovery[k], x[k]) /\ Reaches(k, x[k], y[k])
    BY DEF is_recovered_sample, AtLeastAsDangerous
<1>2. x[k] \in Int /\ y[k] \in Int /\ c.recovery[k] \in Int
    BY DEF AlarmConfig, Reading
<1> QED
    BY <1>1, <1>2 DEF Reaches

LEMMA DecisionIsMonotone ==
    ASSUME NEW current \in AlarmStates, NEW c \in AlarmConfig,
           NEW x \in Reading, NEW y \in Reading,
           alarm_config_is_valid(c),
           sensor_sample_is_valid(x), sensor_sample_is_valid(y),
           AtLeastAsDangerous(x, y)
    PROVE  Severity(alarm_state_update(current, c, x))
             >= Severity(alarm_state_update(current, c, y))
<1> DEFINE dx == alarm_state_update(current, c, x)
           dy == alarm_state_update(current, c, y)
<1>1. dx \in {"NORMAL", "WARNING", "ALARM"} /\ dy \in {"NORMAL", "WARNING", "ALARM"}
    BY ValidNeverFaults
<1>2. dy = "ALARM" => dx = "ALARM"
    BY DecisionIsTwoLatches, DangerKeepsAlarm, SafetyKeepsRecovered
<1>3. dy \in {"WARNING", "ALARM"} => dx \in {"WARNING", "ALARM"}
    BY DecisionIsTwoLatches, DangerKeepsWarning, SafetyKeepsRecovered
<1> HIDE DEF dx, dy
<1>4. Severity(dx) >= Severity(dy)
    BY <1>1, <1>2, <1>3 DEF Severity
<1> QED
    BY <1>4 DEF dx, dy

-------------------------------------------------------------------------------
(* The processor                                                           *)

IInv == TypeOK /\ ConfigStaysValid

LEMMA InvHolds == Spec => []IInv
<1>1. Init => IInv
    BY ProcessorAssumption DEF Init, IInv, TypeOK, ConfigStaysValid
<1>2. IInv /\ [Next]_vars => IInv'
    <2> SUFFICES ASSUME IInv, [Next]_vars
                 PROVE  IInv'
        OBVIOUS
    <2> USE ProcessorAssumption DEF IInv, TypeOK, ConfigStaysValid
    <2>1. CASE \E sample \in Samples : environment_processor_process_sample(sample)
        <3>1. PICK sample \in Samples : environment_processor_process_sample(sample)
            BY <2>1
        <3> QED
            BY <3>1, DecisionIsAState DEF environment_processor_process_sample
    <2>2. CASE \E next_config \in Configs : environment_processor_update_config(next_config)
        BY <2>2 DEF environment_processor_update_config
    <2>3. CASE UNCHANGED vars
        BY <2>3 DEF vars
    <2> QED
        BY <2>1, <2>2, <2>3 DEF Next
<1> QED
    BY <1>1, <1>2, PTL DEF Spec

\* The thresholds are those of a configuration and the state is one of the four.
THEOREM ProcessorTypeOK == Spec => []TypeOK
BY InvHolds, PTL DEF IInv

\* Whatever configurations callers pass, the one in force is ordered.
THEOREM ProcessorConfigStaysValid == Spec => []ConfigStaysValid
BY InvHolds, PTL DEF IInv

\* Whatever samples callers pass, SENSOR_FAULT is never entered.
THEOREM ProcessorNeverFaults == Spec => FaultIsNeverEntered
<1>1. IInv /\ [Next]_vars => [state' = "SENSOR_FAULT" => state = "SENSOR_FAULT"]_vars
    BY ValidNeverFaults
       DEF IInv, Next, vars, environment_processor_process_sample,
           environment_processor_update_config
<1> QED
    BY <1>1, InvHolds, PTL DEF Spec, FaultIsNeverEntered

\* Under any thresholds in force an unchanged reading settles the state at once.
THEOREM ProcessorSettles == Spec => []SteadyReadingSettles
<1>1. IInv => SteadyReadingSettles
    BY DecisionSettles DEF IInv, ConfigStaysValid, SteadyReadingSettles
<1> QED
    BY <1>1, InvHolds, PTL

\* Under any thresholds in force more danger never means a milder state.
THEOREM ProcessorIsMonotone == Spec => []DangerIsMonotone
<1>1. IInv => DangerIsMonotone
    BY DecisionIsMonotone, ProcessorAssumption
       DEF IInv, TypeOK, ConfigStaysValid, DangerIsMonotone
<1> QED
    BY <1>1, InvHolds, PTL

\* The instance's copy of AlarmState is AlarmState itself.
LEMMA SameDecisionTerms ==
    ASSUME NEW c, NEW x
    PROVE  /\ Latches!sensor_sample_is_valid(x) <=> sensor_sample_is_valid(x)
           /\ Latches!alarm_config_is_valid(c) <=> alarm_config_is_valid(c)
           /\ Latches!is_alarm_sample(c, x) <=> is_alarm_sample(c, x)
           /\ Latches!is_warning_sample(c, x) <=> is_warning_sample(c, x)
           /\ Latches!is_recovered_sample(c, x) <=> is_recovered_sample(c, x)
BY DEF Latches!Channel, Channel, Latches!Reaches, Reaches,
       Latches!sensor_sample_is_valid, sensor_sample_is_valid,
       Latches!alarm_config_is_valid, alarm_config_is_valid,
       Latches!is_alarm_sample, is_alarm_sample,
       Latches!is_warning_sample, is_warning_sample,
       Latches!is_recovered_sample, is_recovered_sample

\* The processor implements the two latches of AlarmLatches.
THEOREM ProcessorImplementsLatches == Spec => ImplementsLatches
<1>1. Init => Latches!Init
    BY DEF Init, Latches!Init
<1>2. IInv /\ [Next]_vars => [Latches!Next]_(Latches!latchVars)
    <2> SUFFICES ASSUME IInv, [Next]_vars
                 PROVE  [Latches!Next]_(Latches!latchVars)
        OBVIOUS
    <2> USE ProcessorAssumption DEF IInv, TypeOK, ConfigStaysValid
    <2>1. ASSUME NEW sample \in Samples, environment_processor_process_sample(sample)
          PROVE  [Latches!Next]_(Latches!latchVars)
        <3>1. CASE UNCHANGED state
            BY <2>1, <3>1 DEF environment_processor_process_sample, Latches!latchVars
        <3>2. CASE state' = alarm_state_update(state, config, sample)
            <4>1. sample \in Reading /\ sensor_sample_is_valid(sample)
                BY <2>1 DEF environment_processor_process_sample
            <4>2. /\ state' = "ALARM"
                       <=> Latches!Latch(state = "ALARM",
                                         Latches!is_alarm_sample(config, sample), sample)
                  /\ state' \in {"WARNING", "ALARM"}
                       <=> Latches!Latch(state \in {"WARNING", "ALARM"},
                                         Latches!is_warning_sample(config, sample), sample)
                BY <3>2, <4>1, DecisionIsTwoLatches, SameDecisionTerms DEF Latches!Latch
            <4>3. Latches!sensor_sample_is_valid(sample) /\ UNCHANGED config
                BY <2>1, <4>1, SameDecisionTerms DEF environment_processor_process_sample
            <4>4. Latches!TakeSample(sample)
                BY <4>2, <4>3 DEF Latches!TakeSample, Latches!Latch
            <4> QED
                BY <4>4 DEF Latches!Next
        <3> QED
            BY <2>1, <3>1, <3>2 DEF environment_processor_process_sample
    <2>2. ASSUME NEW next_config \in Configs,
                 environment_processor_update_config(next_config)
          PROVE  [Latches!Next]_(Latches!latchVars)
        BY <2>2, SameDecisionTerms
           DEF environment_processor_update_config, Latches!Next, Latches!Reconfigure
    <2>3. CASE UNCHANGED vars
        BY <2>3 DEF vars, Latches!latchVars
    <2> QED
        BY <2>1, <2>2, <2>3 DEF Next
<1> QED
    BY <1>1, <1>2, InvHolds, PTL DEF Spec, ImplementsLatches, Latches!Spec

===============================================================================
