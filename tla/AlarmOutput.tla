------------------------------- MODULE AlarmOutput -------------------------------
(***************************************************************************)
(* What alarm_output_task does with an event: alarm_output.c turns the     *)
(* state into a command, alarm_output_timing.c the command and the elapsed *)
(* time into a lamp that is on or off, alarm_output_sink.c writes lamp,    *)
(* buzzer and actuator, each of which may fail.  The command is rendered   *)
(* again every refresh period until the next event.                        *)
(***************************************************************************)
EXTENDS Integers

CONSTANTS
    Published,          \* the states env_process may announce
    RefreshPeriod,      \* ALARM_OUTPUT_REFRESH_PERIOD_MS
    ElapsedModulus,     \* 2^32: the range of elapsed_ms
    None                \* no event has come yet

States == {"NORMAL", "WARNING", "ALARM", "SENSOR_FAULT"}

ASSUME OutputAssumption ==
    /\ Published \subseteq States
    /\ RefreshPeriod \in Nat \ {0}
    /\ ElapsedModulus \in Nat /\ ElapsedModulus > RefreshPeriod

Outputs == {"lamp", "buzzer", "actuator"}

VARIABLES
    state,      \* the state of the command in force, None before the first event
    elapsed,    \* elapsed_ms
    level,      \* the level of each output pin
    failing,    \* the outputs whose write fails at the moment
    applied     \* history: the latest alarm_output_sink_apply returned true

vars == <<state, elapsed, level, failing, applied>>

-------------------------------------------------------------------------------
\* Only the fault state blinks and sounds without the actuator.
alarm_output_command_for_state(s) ==
    [period   |-> CASE s = "WARNING" -> 1000 [] s = "ALARM" -> 250
                    [] s = "SENSOR_FAULT" -> 500 [] OTHER -> 0,
     lamp     |-> s # "NORMAL",
     buzzer   |-> s \in {"ALARM", "SENSOR_FAULT"},
     actuator |-> s = "ALARM"]

\* Faulty variant: the window is the whole period.
LampNeverDark(command, ms) ==
    command.lamp /\ (command.period = 0 \/ ms % command.period < command.period)

\* On for the first half of each period, rounded up; period 0 means always on.
alarm_output_indicator_is_on(command, ms) ==
    /\ command.lamp
    /\ \/ command.period = 0
       \/ ms % command.period < (command.period + 1) \div 2

\* Faulty variant: an output that cannot be written does not stop the others,
\* and only the last one decides the result.
ApplyReportsLast(levels) ==
    /\ level' = [o \in Outputs |-> IF o \in failing THEN level[o] ELSE levels[o]]
    /\ applied' = ("actuator" \notin failing)

\* Lamp, buzzer, actuator; the first write that fails ends the call.
alarm_output_sink_apply(levels) ==
    LET reached == CASE "lamp"     \in failing -> {}
                     [] "buzzer"   \in failing -> {"lamp"}
                     [] "actuator" \in failing -> {"lamp", "buzzer"}
                     [] OTHER -> Outputs
    IN  /\ level' = [o \in Outputs |-> IF o \in reached THEN levels[o] ELSE level[o]]
        /\ applied' = (reached = Outputs)

\* The dark half of a period leaves buzzer and actuator as the command has them.
Rendered(s, ms) ==
    LET command == alarm_output_command_for_state(s)
    IN  [lamp     |-> alarm_output_indicator_is_on(command, ms),
         buzzer   |-> command.buzzer,
         actuator |-> command.actuator]

-------------------------------------------------------------------------------
\* The task drives no output before its first event: they have whatever level the
\* firmware left them at.
Init ==
    /\ state = None
    /\ elapsed = 0
    /\ level \in [Outputs -> BOOLEAN]
    /\ failing = {}
    /\ applied = FALSE

Event(s) ==
    /\ state' = s
    /\ elapsed' = 0
    /\ alarm_output_sink_apply(Rendered(s, 0))
    /\ UNCHANGED failing

\* Faulty variant: a command without a blinking lamp is not rendered again.
RefreshBlinkingOnly ==
    /\ state # None
    /\ elapsed' = (elapsed + RefreshPeriod) % ElapsedModulus
    /\ IF alarm_output_command_for_state(state).lamp
       THEN alarm_output_sink_apply(Rendered(state, elapsed'))
       ELSE UNCHANGED <<level, applied>>
    /\ UNCHANGED <<state, failing>>

\* Faulty variant: the counter of milliseconds is taken not to wrap.
RefreshWithoutWrap ==
    /\ state # None
    /\ elapsed' = elapsed + RefreshPeriod
    /\ alarm_output_sink_apply(Rendered(state, elapsed'))
    /\ UNCHANGED <<state, failing>>

\* The wait for an event ran into its timeout.
Refresh ==
    /\ state # None
    /\ elapsed' = (elapsed + RefreshPeriod) % ElapsedModulus
    /\ alarm_output_sink_apply(Rendered(state, elapsed'))
    /\ UNCHANGED <<state, failing>>

SinkChanges ==
    /\ \E outputs \in SUBSET Outputs : failing' = outputs
    /\ UNCHANGED <<state, elapsed, level, applied>>

Next == (\E s \in Published : Event(s)) \/ Refresh \/ SinkChanges

Spec == Init /\ [][Next]_vars

\* The wait of the task ends after a refresh period, with an event or without.
FairSpec == Spec /\ WF_vars((\E s \in Published : Event(s)) \/ Refresh)

-------------------------------------------------------------------------------
TypeOK ==
    /\ state \in Published \cup {None}
    /\ elapsed \in 0 .. ElapsedModulus - 1
    /\ level \in [Outputs -> BOOLEAN]
    /\ failing \in SUBSET Outputs
    /\ applied \in BOOLEAN

\* Unless an event starts the period anew, a blinking lamp changes within one
\* period, even across the wrap of elapsed_ms, which no period divides.
LampWillChange ==
    state # None /\ alarm_output_command_for_state(state).lamp =>
        LET command == alarm_output_command_for_state(state)
            On(k) == alarm_output_indicator_is_on(
                        command, (elapsed + k * RefreshPeriod) % ElapsedModulus)
        IN  \E k \in 1 .. command.period \div RefreshPeriod + 1 : On(k) # On(0)

\* An output that differs from the rendering of the state in force is the trace
\* of an apply that failed and said so (alarm_output_sink.c:24-25).
StrayOutputIsReported ==
    state # None /\ applied => level = Rendered(state, elapsed)

\* The task ignores that result, and yet a partial failure does not last: once
\* the writes succeed again the next rendering repairs all three outputs, also
\* for NORMAL, where nothing blinks.
FailuresAreRepaired ==
    <>[](failing = {}) => <>[](state # None => level = Rendered(state, elapsed))

===============================================================================
