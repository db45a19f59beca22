------------------------- MODULE CommandHandlerProofs -------------------------
(***************************************************************************)
(* Lemmas about handling a command and about the decision that follows it, *)
(* for the proofs of FreeRtosPort and of the command line.                 *)
(***************************************************************************)
EXTENDS CommandHandler, TLAPS

LEMMA DecisionIsAState ==
    ASSUME NEW current, NEW c, NEW x
    PROVE  alarm_state_update(current, c, x) \in AlarmStates
BY DEF alarm_state_update, AlarmStates

LEMMA ThresholdTyped ==
    ASSUME NEW config \in AlarmConfig, NEW command \in Command,
           command.type = "SET_THRESHOLD"
    PROVE  WithThreshold(config, command) \in AlarmConfig
<1>1. /\ command.level \in {"warning", "alarm"}
      /\ command.channel \in Channel
      /\ command.value \in Int
    BY DEF Command
<1>2. ASSUME NEW r \in Reading
      PROVE  [r EXCEPT ![command.channel] = command.value] \in Reading
    BY <1>1 DEF Reading
<1>3. CASE command.level = "warning"
    BY <1>2, <1>3 DEF WithThreshold, AlarmConfig
<1>4. CASE command.level = "alarm"
    BY <1>2, <1>4 DEF WithThreshold, AlarmConfig
<1> QED
    BY <1>1, <1>3, <1>4

\* What handling a command returns, and when it touches the configuration.
LEMMA HandlingTyped ==
    ASSUME NEW config \in AlarmConfig, NEW sample \in Reading, NEW command \in Command
    PROVE  LET handled == command_handler_handle(command, config, sample)
           IN  /\ handled.result \in Results
               /\ handled.effect \in Effects
               /\ handled.config \in AlarmConfig
               /\ handled.sample \in Reading
               /\ handled.effect # "config_changed" => handled.config = config
<1>1. command.type = "SET_SAMPLE" => command.sample \in Reading
    BY DEF Command
<1> QED
    BY <1>1, ThresholdTyped
       DEF command_handler_handle, HandlerResult, Results, Effects

\* A valid configuration and a valid sample stay valid under every command.
LEMMA HandlingKeepsValid ==
    ASSUME NEW config \in AlarmConfig, NEW sample \in Reading, NEW command \in Command,
           alarm_config_is_valid(config), sensor_sample_is_valid(sample)
    PROVE  LET handled == command_handler_handle(command, config, sample)
           IN  /\ alarm_config_is_valid(handled.config)
               /\ sensor_sample_is_valid(handled.sample)
BY DEF command_handler_handle, HandlerResult, threshold_accepted, sample_accepted

-------------------------------------------------------------------------------
(* The decision behind a command                                           *)

\* Deciding again on the same thresholds and sample changes nothing.
LEMMA DecisionSettles ==
    ASSUME NEW current, NEW config, NEW sample,
           alarm_config_is_valid(config), sensor_sample_is_valid(sample)
    PROVE  LET settled == alarm_state_update(current, config, sample)
           IN  alarm_state_update(settled, config, sample) = settled
BY DEF alarm_state_update, held_until_recovered

\* From ALARM, a valid sample decides for another state only if it is recovered.
LEMMA AlarmIsHeld ==
    ASSUME NEW config, NEW sample,
           alarm_config_is_valid(config), sensor_sample_is_valid(sample),
           alarm_state_update("ALARM", config, sample) # "ALARM"
    PROVE  is_recovered_sample(config, sample)
BY DEF alarm_state_update, held_until_recovered

\* Only a command that changes the thresholds says so, and only one that changes
\* thresholds or sample re-evaluates the state.
LEMMA EffectTellsTheChange ==
    ASSUME NEW config, NEW sample, NEW command
    PROVE  LET handled == command_handler_handle(command, config, sample)
           IN  /\ handled.config # config => handled.effect = "config_changed"
               /\ handled.effect \notin {"config_changed", "sample_changed"}
                    => handled.config = config /\ handled.sample = sample
BY DEF command_handler_handle, HandlerResult

===============================================================================
