---------------------------- MODULE CommandHandler ----------------------------
(***************************************************************************)
(* app/src/command_handler.c and app/src/command_responder.c: what a       *)
(* parsed command does to the thresholds and the sample of its owner, and  *)
(* which lines the answer is made of.  command_session.c takes the same    *)
(* steps for a line of text.                                               *)
(*                                                                         *)
(* A command is a record whose "type" decides its other fields:            *)
(*   SET_THRESHOLD  level \in {"warning", "alarm"}, channel, value         *)
(*   SET_SAMPLE     sample                                                 *)
(* The parser can name no recovery threshold, so no command changes one.   *)
(***************************************************************************)
EXTENDS AlarmState

CONSTANTS FieldTypeMin, FieldTypeMax     \* the C type of each channel's fields

ASSUME FieldTypeAssumption ==
    /\ FieldTypeMin \in [Channel -> Int]
    /\ FieldTypeMax \in [Channel -> Int]

\* command_t, by type.
Command ==
    [type : {"INVALID", "GET_STATUS", "GET_CONFIG", "CLEAR_ALARM"}]
    \cup [type : {"SET_THRESHOLD"}, level : {"warning", "alarm"},
          channel : Channel, value : Int]
    \cup [type : {"SET_SAMPLE"}, sample : Reading]

\* The flag of command_handler_result_t that is set; at most one is.
Effects == {"none", "status_requested", "config_requested",
            "alarm_clear_requested", "config_changed", "sample_changed"}

Results == {"OK", "INVALID_COMMAND", "INVALID_VALUE"}

InFieldType(channel, value) ==
    FieldTypeMin[channel] <= value /\ value <= FieldTypeMax[channel]

-------------------------------------------------------------------------------
\* The copy that apply_threshold edits and, if it is a valid whole, commits.
WithThreshold(config, command) ==
    [config EXCEPT ![command.level] = [@ EXCEPT ![command.channel] = command.value]]

\* Faulty variant: each threshold is checked on its own, not the whole.
ThresholdFitsItsType(config, command) == InFieldType(command.channel, command.value)

threshold_accepted(config, command) ==
    /\ InFieldType(command.channel, command.value)
    /\ alarm_config_is_valid(WithThreshold(config, command))

\* The range of the C type is checked before the narrowing casts.
sample_accepted(command) ==
    /\ \A c \in Channel : InFieldType(c, command.sample[c])
    /\ sensor_sample_is_valid(command.sample)

HandlerResult(result, effect, config, sample) ==
    [result |-> result, effect |-> effect, config |-> config, sample |-> sample]

command_handler_handle(command, config, sample) ==
    LET Answer(result, effect) == HandlerResult(result, effect, config, sample)
    IN  IF ~ alarm_config_is_valid(config) THEN Answer("INVALID_COMMAND", "none") ELSE
        CASE command.type = "GET_STATUS"  -> Answer("OK", "status_requested")
          [] command.type = "GET_CONFIG"  -> Answer("OK", "config_requested")
          [] command.type = "CLEAR_ALARM" -> Answer("OK", "alarm_clear_requested")
          [] command.type = "SET_THRESHOLD" ->
                IF threshold_accepted(config, command)
                THEN HandlerResult("OK", "config_changed",
                                   WithThreshold(config, command), sample)
                ELSE Answer("INVALID_VALUE", "none")
          [] command.type = "SET_SAMPLE" ->
                IF sample_accepted(command)
                THEN HandlerResult("OK", "sample_changed", config, command.sample)
                ELSE Answer("INVALID_VALUE", "none")
          [] OTHER -> Answer("INVALID_COMMAND", "none")

-------------------------------------------------------------------------------
\* command_responder_t: the owner's thresholds, state and sample.
Responder == [config : AlarmConfig, state : AlarmStates, sample : Reading]

responder_is_ready(responder) ==
    /\ alarm_config_is_valid(responder.config)
    /\ sensor_sample_is_valid(responder.sample)

\* Faulty variant: a SET is taken for a request of the thresholds as well.
LinesOfEveryFlag(effect) ==
    CASE effect = "config_changed" -> <<"config", "status", "config">>
      [] effect \in {"sample_changed", "status_requested"} -> <<"status">>
      [] effect = "config_requested" -> <<"config">>
      [] effect = "alarm_clear_requested" -> <<"clear_alarm">>
      [] OTHER -> <<>>

\* The lines that follow the result line of the answer.
ResponseLines(effect) ==
    CASE effect = "config_changed" -> <<"config", "status">>
      [] effect \in {"sample_changed", "status_requested"} -> <<"status">>
      [] effect = "config_requested" -> <<"config">>
      [] effect = "alarm_clear_requested" -> <<"clear_alarm">>
      [] OTHER -> <<>>

\* Faulty variant: only a changed sample re-evaluates the state.
AfterSampleOnly(responder, handled) ==
    [config |-> handled.config,
     sample |-> handled.sample,
     state  |-> IF handled.effect = "sample_changed"
                THEN alarm_state_update(responder.state, handled.config, handled.sample)
                ELSE responder.state]

\* The owner after the command: a changed config or sample re-evaluates the
\* state at once, with the command's own sample and thresholds.
responder_after(responder, handled) ==
    [config |-> handled.config,
     sample |-> handled.sample,
     state  |-> IF handled.effect \in {"config_changed", "sample_changed"}
                THEN alarm_state_update(responder.state, handled.config, handled.sample)
                ELSE responder.state]

===============================================================================
