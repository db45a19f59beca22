----------------------------- MODULE CommandSession -----------------------------
(***************************************************************************)
(* app/src/command_session.c behind app/src/serial_command_service.c, as   *)
(* the firmware's bare USART2 loop and host_sim use them: each complete    *)
(* line is parsed, takes effect on the owner's thresholds, sample and      *)
(* state, and is answered through a response buffer of fixed size.         *)
(***************************************************************************)
EXTENDS CommandHandler, Sequences

CONSTANTS
    DefaultConfig,      \* the owner's first thresholds and sample
    InitialSample,
    Commands,           \* what a line may parse to; one that does not is INVALID
    LineLength,         \* the length of each line an answer can have
    ResponseSize        \* sizeof of the response buffer

LineKinds == {"result", "config", "status", "clear_alarm"}

ASSUME SessionAssumption ==
    /\ DefaultConfig \in AlarmConfig /\ alarm_config_is_valid(DefaultConfig)
    /\ InitialSample \in Reading /\ sensor_sample_is_valid(InitialSample)
    /\ Commands \subseteq Command
    /\ LineLength \in [LineKinds -> Nat \ {0}]
    /\ ResponseSize \in Nat \ {0}

VARIABLES
    session,    \* the config, state and sample command_session_t points to
    formatted,  \* what the latest command_session_handle_line returned
    status      \* what the latest serial_command_service_feed returned

vars == <<session, formatted, status>>

-------------------------------------------------------------------------------
LengthOf[lines \in Seq(LineKinds)] ==
    IF lines = <<>> THEN 0 ELSE LineLength[Head(lines)] + LengthOf[Tail(lines)]

\* Every append keeps a place for the closing '\0' and fails when there is none.
Fits(lines) == LengthOf[lines] < ResponseSize

\* An answer that does not fit ends the call where it stands: the handler has
\* taken effect, and the state is re-evaluated only behind the result line.
command_session_handle_line(command) ==
    LET handled == command_handler_handle(command, session.config, session.sample)
    IN  /\ session' = IF Fits(<<"result">>) THEN responder_after(session, handled)
                      ELSE [session EXCEPT !.config = handled.config,
                                           !.sample = handled.sample]
        /\ formatted' = Fits(<<"result">> \o ResponseLines(handled.effect))

Init ==
    /\ session = [config |-> DefaultConfig, state |-> "NORMAL", sample |-> InitialSample]
    /\ formatted = TRUE
    /\ status = "IDLE"

\* serial_command_service_feed with the byte that completes a line: the answer
\* is written at once, and a write that fails is not repeated.
Feed(command) ==
    /\ command_session_handle_line(command)
    /\ status' \in IF formatted' THEN {"RESPONSE_SENT", "ERROR"} ELSE {"ERROR"}

Next == \E command \in Commands : Feed(command)

Spec == Init /\ [][Next]_vars

-------------------------------------------------------------------------------
\* The owner's thresholds and sample also stay a legal whole under every sequence
\* of commands, each judged against what the earlier ones left.
TypeOK ==
    /\ session \in Responder /\ responder_is_ready(session)
    /\ formatted \in BOOLEAN
    /\ status \in {"IDLE", "RESPONSE_SENT", "ERROR"}

\* Whatever was set or injected, and whether or not it could be answered, the
\* state is the one its own thresholds and sample lead to: another evaluation
\* would not change it (command_session.c:144-147).
StateIsSettled ==
    session.state = alarm_state_update(session.state, session.config, session.sample)

\* Only a sample that is recovered on every channel under the thresholds then in
\* force ends an ALARM; CLEAR_ALARM does not, nor does raising the alarm
\* threshold above the sample (command_session.c:189-191).
AlarmEndsByRecovery ==
    [][session.state = "ALARM" /\ session'.state # "ALARM"
         => is_recovered_sample(session'.config, session'.sample)]_vars

\* Claimed by tests/test_command_session.c:103-104: a successful SET updates the
\* thresholds, re-evaluates the state and answers all of it at once.
ChangeIsAnswered ==
    [][session'.config # session.config => formatted']_vars

===============================================================================
