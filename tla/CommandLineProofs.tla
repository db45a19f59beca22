--------------------------- MODULE CommandLineProofs ---------------------------
(***************************************************************************)
(* What a command session promises for any channels, ranges, thresholds,   *)
(* commands, lengths of lines and buffer, and that the parser reads every  *)
(* line, of any length and with numbers of any width, as what it says.     *)
(*                                                                         *)
(* The parser goes from left to right, the readings of CommandLine look at *)
(* the line as a whole.  The proof goes up from the parser's loop: where   *)
(* it stops is the only place where a blank, a word or a numeral can end;  *)
(* what it gathers digit by digit is the sum of the digits at their        *)
(* places, or past the limit if that is; so each command has exactly the   *)
(* reading that the parser finds.                                          *)
(***************************************************************************)
EXTENDS CommandLine, CommandHandlerProofs, SequenceTheorems, WellFoundedInduction, TLAPS

-------------------------------------------------------------------------------
(* The session                                                             *)

\* One completed line: thresholds and sample stay a legal whole.
LEMMA SessionStep == TypeOK /\ [Next]_vars => TypeOK'
<1> SUFFICES ASSUME TypeOK, [Next]_vars PROVE TypeOK'
    OBVIOUS
<1>1. CASE UNCHANGED vars
    BY <1>1 DEF vars, TypeOK
<1>2. CASE Next
    <2> PICK command \in Commands : Feed(command)
        BY <1>2 DEF Next
    <2> DEFINE handled == command_handler_handle(command, session.config, session.sample)
    <2>1. /\ command \in Command
          /\ session.config \in AlarmConfig /\ session.sample \in Reading
          /\ session.state \in AlarmStates
          /\ alarm_config_is_valid(session.config) /\ sensor_sample_is_valid(session.sample)
        BY SessionAssumption DEF TypeOK, Responder, responder_is_ready
    <2>2. /\ handled.config \in AlarmConfig /\ handled.sample \in Reading
          /\ alarm_config_is_valid(handled.config) /\ sensor_sample_is_valid(handled.sample)
        BY <2>1, HandlingTyped, HandlingKeepsValid
    <2>3. /\ session' = IF Fits(<<"result">>) THEN responder_after(session, handled)
                        ELSE [session EXCEPT !.config = handled.config,
                                             !.sample = handled.sample]
          /\ formatted' = Fits(<<"result">> \o ResponseLines(handled.effect))
        BY DEF Feed, command_session_handle_line
    <2>4. responder_after(session, handled) \in Responder
        BY <2>1, <2>2, DecisionIsAState DEF responder_after, Responder
    <2>5. session' \in Responder
          /\ session'.config = handled.config /\ session'.sample = handled.sample
        <3> HIDE DEF handled
        <3>1. CASE Fits(<<"result">>)
            BY <3>1, <2>3, <2>4 DEF responder_after
        <3>2. CASE ~ Fits(<<"result">>)
            BY <3>2, <2>1, <2>2, <2>3 DEF Responder, TypeOK
        <3> QED BY <3>1, <3>2
    <2>6. formatted' \in BOOLEAN
        BY <2>3 DEF Fits
    <2>7. status' \in {"IDLE", "RESPONSE_SENT", "ERROR"}
        BY DEF Feed
    <2> HIDE DEF handled
    <2> QED
        BY <2>2, <2>5, <2>6, <2>7 DEF TypeOK, responder_is_ready
<1> QED
    BY <1>1, <1>2

\* No sequence of commands reaches thresholds out of order or a sample out of
\* range (command_session.c:144-205).
THEOREM SessionTypeOK == Spec => []TypeOK
<1>1. Init => TypeOK
    BY SessionAssumption DEF Init, TypeOK, Responder, responder_is_ready, AlarmStates
<1> QED
    BY <1>1, SessionStep, PTL DEF Spec

\* For any commands and buffer: an ALARM ends only by a sample that is recovered
\* on every channel (command_session.c:189-191).
THEOREM SessionAlarmEndsByRecovery == Spec => AlarmEndsByRecovery
<1>1. TypeOK /\ [Next]_vars =>
        [session.state = "ALARM" /\ session'.state # "ALARM"
            => is_recovered_sample(session'.config, session'.sample)]_vars
    <2> SUFFICES ASSUME TypeOK, TypeOK', Next,
                        session.state = "ALARM", session'.state # "ALARM"
                 PROVE  is_recovered_sample(session'.config, session'.sample)
        BY SessionStep
    <2> PICK command \in Commands : Feed(command)
        BY DEF Next
    <2> DEFINE handled == command_handler_handle(command, session.config, session.sample)
    <2>1. session' = IF Fits(<<"result">>) THEN responder_after(session, handled)
                     ELSE [session EXCEPT !.config = handled.config,
                                          !.sample = handled.sample]
        BY DEF Feed, command_session_handle_line
    <2> HIDE DEF handled
    <2>2. session' = responder_after(session, handled)
        BY <2>1 DEF TypeOK, Responder
    <2>3. session'.state = alarm_state_update("ALARM", session'.config, session'.sample)
        BY <2>2 DEF responder_after
    <2>4. alarm_config_is_valid(session'.config) /\ sensor_sample_is_valid(session'.sample)
        BY DEF TypeOK, responder_is_ready
    <2> QED
        BY <2>3, <2>4, AlarmIsHeld
<1> QED
    BY <1>1, SessionTypeOK, PTL DEF Spec, AlarmEndsByRecovery

\* If the first sample is settled and the buffer holds a result line, the state is
\* always the one that thresholds and sample lead to (command_session.c:144-147).
THEOREM SessionStateIsSettled ==
    ASSUME Fits(<<"result">>),
           alarm_state_update("NORMAL", DefaultConfig, InitialSample) = "NORMAL"
    PROVE  Spec => []StateIsSettled
<1>1. Init => StateIsSettled
    BY DEF Init, StateIsSettled
<1>2. TypeOK /\ TypeOK' /\ StateIsSettled /\ [Next]_vars => StateIsSettled'
    <2> SUFFICES ASSUME TypeOK, TypeOK', StateIsSettled, [Next]_vars
                 PROVE  StateIsSettled'
        OBVIOUS
    <2>1. CASE UNCHANGED vars
        BY <2>1 DEF vars, StateIsSettled
    <2>2. CASE Next
        <3> PICK command \in Commands : Feed(command)
            BY <2>2 DEF Next
        <3> DEFINE handled == command_handler_handle(command, session.config, session.sample)
        <3>1. session' = responder_after(session, handled)
            BY DEF Feed, command_session_handle_line
        <3>2. handled.effect \notin {"config_changed", "sample_changed"}
                => handled.config = session.config /\ handled.sample = session.sample
            BY EffectTellsTheChange
        <3> HIDE DEF handled
        <3>3. alarm_config_is_valid(session'.config) /\ sensor_sample_is_valid(session'.sample)
            BY DEF TypeOK, responder_is_ready
        <3>4. CASE handled.effect \in {"config_changed", "sample_changed"}
            <4>1. session'.state
                    = alarm_state_update(session.state, session'.config, session'.sample)
                BY <3>1, <3>4 DEF responder_after
            <4> QED BY <3>3, <4>1, DecisionSettles DEF StateIsSettled
        <3>5. CASE handled.effect \notin {"config_changed", "sample_changed"}
            <4>1. /\ session'.config = session.config /\ session'.sample = session.sample
                  /\ session'.state = session.state
                BY <3>1, <3>2, <3>5 DEF responder_after
            <4> QED BY <4>1 DEF StateIsSettled
        <3> QED BY <3>4, <3>5
    <2> QED BY <2>1, <2>2
<1> QED
    BY <1>1, <1>2, SessionTypeOK, PTL DEF Spec

\* A buffer that holds result, thresholds and status answers every change; the
\* buffer of the bare loop does not (main.c:48).
THEOREM SessionChangeIsAnswered ==
    ASSUME Fits(<<"result", "config", "status">>)
    PROVE  Spec => ChangeIsAnswered
<1>1. TypeOK /\ [Next]_vars => [session'.config # session.config => formatted']_vars
    <2> SUFFICES ASSUME TypeOK, Next, session'.config # session.config PROVE formatted'
        OBVIOUS
    <2> PICK command \in Commands : Feed(command)
        BY DEF Next
    <2> DEFINE handled == command_handler_handle(command, session.config, session.sample)
    <2>1. /\ session' = IF Fits(<<"result">>) THEN responder_after(session, handled)
                        ELSE [session EXCEPT !.config = handled.config,
                                             !.sample = handled.sample]
          /\ formatted' = Fits(<<"result">> \o ResponseLines(handled.effect))
        BY DEF Feed, command_session_handle_line
    <2>2. handled.config # session.config => handled.effect = "config_changed"
        BY EffectTellsTheChange
    <2> HIDE DEF handled
    <2>3. session'.config = handled.config
        BY <2>1 DEF responder_after, TypeOK, Responder
    <2>4. <<"result">> \o ResponseLines(handled.effect) = <<"result", "config", "status">>
        <3>1. ResponseLines(handled.effect) = <<"config", "status">>
            BY <2>2, <2>3 DEF ResponseLines
        <3>2. <<"result">> \o <<"config", "status">> = <<"result", "config", "status">>
            <4> DEFINE left == <<"result">> \o <<"config", "status">>
                       right == <<"result", "config", "status">>
            <4>1. <<"result">> \in Seq(LineKinds) /\ Len(<<"result">>) = 1
                BY DEF LineKinds
            <4>2. <<"config", "status">> \in Seq(LineKinds) /\ Len(<<"config", "status">>) = 2
                BY DEF LineKinds
            <4>3. right \in Seq(LineKinds) /\ Len(right) = 3
                BY DEF LineKinds
            <4>4. /\ left \in Seq(LineKinds) /\ Len(left) = 3
                  /\ \A i \in 1 .. 3 : left[i] = IF i <= 1 THEN <<"result">>[i]
                                               ELSE <<"config", "status">>[i - 1]
                BY <4>1, <4>2, ConcatProperties
            <4>5. \A i \in 1 .. 3 : left[i] = right[i]
                BY <4>4
            <4> HIDE DEF left, right
            <4>6. left = right
                BY <4>3, <4>4, <4>5, SeqEqual
            <4> QED BY <4>6 DEF left, right
        <3> QED BY <3>1, <3>2
    <2> QED
        BY <2>1, <2>4
<1> QED
    BY <1>1, SessionTypeOK, PTL DEF Spec, ChangeIsAnswered

-------------------------------------------------------------------------------
(* Induction over positions                                                *)

\* The natural numbers are well-ordered.
LEMMA LeastElement ==
    ASSUME NEW T \in SUBSET Nat, T # {}
    PROVE  \E x \in T : \A y \in T : x <= y
<1> DEFINE R == {ss \in Nat \X Nat : ss[1] < ss[2]}
<1>1. IsWellFoundedOn(R, Nat)
    BY NatLessThanWellFounded DEF OpToRel
<1>2. \A x, y \in Nat : <<y, x>> \in R <=> y < x
    OBVIOUS
<1> HIDE DEF R
<1>3. PICK x \in T : \A y \in T : ~ (<<y, x>> \in R)
    BY <1>1, WFMin
<1>4. \A y \in T : x <= y
    <2> TAKE y \in T
    <2>1. x \in Nat /\ y \in Nat
        OBVIOUS
    <2>2. ~ (y < x)
        BY <1>2, <1>3, <2>1
    <2> QED BY <2>1, <2>2
<1> QED BY <1>4

\* A set that holds a, and the successor of each of its members from a on, holds
\* every number from a on.
LEMMA InductionFrom ==
    ASSUME NEW a \in Nat, NEW S, a \in S,
           \A n \in Nat : n >= a /\ n \in S => n + 1 \in S
    PROVE  \A n \in Nat : n >= a => n \in S
<1> SUFFICES ASSUME NEW m \in Nat, m >= a, m \notin S PROVE FALSE
    OBVIOUS
<1> DEFINE T == {n \in Nat : n >= a /\ n \notin S}
<1>1. T \in SUBSET Nat /\ m \in T
    OBVIOUS
<1>2. PICK x \in T : \A y \in T : x <= y
    BY <1>1, LeastElement
<1>3. x \in Nat /\ x >= a /\ x \notin S /\ x # a
    OBVIOUS
<1>4. x - 1 \in Nat /\ x - 1 >= a /\ x - 1 \notin T
    BY <1>2, <1>3
<1> QED BY <1>3, <1>4

\* f starts with base at a and goes by step from each position to the next.
Follows(f, a, b, base, step) ==
    f[a] = base /\ \A k \in a + 1 .. b : f[k] = step[<<k, f[k - 1]>>]

\* Such a function exists.
LEMMA RecursionExists ==
    ASSUME NEW V, NEW a \in Nat, NEW b \in Nat, a <= b, NEW base \in V,
           NEW step \in [(a + 1 .. b) \X V -> V]
    PROVE  \E f \in [a .. b -> V] : Follows(f, a, b, base, step)
<1> DEFINE S == {n \in Nat : a <= n /\ n <= b => \E f \in [a .. n -> V] :
                    f[a] = base /\ \A k \in a + 1 .. n : f[k] = step[<<k, f[k - 1]>>]}
<1>1. a \in S
    <2> DEFINE f == [k \in a .. a |-> base]
    <2>1. f \in [a .. a -> V] /\ f[a] = base
        OBVIOUS
    <2>2. a + 1 .. a = {}
        OBVIOUS
    <2> HIDE DEF f
    <2> QED BY <2>1, <2>2
<1>2. ASSUME NEW n \in Nat, n >= a, n \in S PROVE n + 1 \in S
    <2> SUFFICES ASSUME n + 1 <= b
                 PROVE  \E f \in [a .. n + 1 -> V] :
                          /\ f[a] = base
                          /\ \A k \in a + 1 .. n + 1 : f[k] = step[<<k, f[k - 1]>>]
        OBVIOUS
    <2>1. PICK g \in [a .. n -> V] :
            g[a] = base /\ \A k \in a + 1 .. n : g[k] = step[<<k, g[k - 1]>>]
        BY <1>2
    <2> DEFINE f == [k \in a .. n + 1 |-> IF k <= n THEN g[k] ELSE step[<<n + 1, g[n]>>]]
    <2>2. step[<<n + 1, g[n]>>] \in V
        <3>1. <<n + 1, g[n]>> \in (a + 1 .. b) \X V
            BY <1>2
        <3> QED BY <3>1
    <2>3. f \in [a .. n + 1 -> V]
        BY <2>1, <2>2
    <2>4. f[a] = base
        BY <1>2, <2>1
    <2>5. ASSUME NEW k \in a + 1 .. n + 1 PROVE f[k] = step[<<k, f[k - 1]>>]
        <3>1. CASE k <= n
            <4>1. f[k] = g[k] /\ f[k - 1] = g[k - 1] /\ k \in a + 1 .. n
                BY <3>1
            <4> HIDE DEF f
            <4> QED BY <2>1, <4>1
        <3>2. CASE k = n + 1
            <4>1. f[k] = step[<<n + 1, g[n]>>] /\ f[k - 1] = g[n]
                BY <1>2, <3>2
            <4> HIDE DEF f
            <4> QED BY <3>2, <4>1
        <3> QED BY <3>1, <3>2
    <2> HIDE DEF f
    <2> QED BY <2>3, <2>4, <2>5
<1>3. b \in S
    <2> HIDE DEF S
    <2>1. \A n \in Nat : n >= a /\ n \in S => n + 1 \in S
        BY <1>2
    <2> QED BY <1>1, <2>1, InductionFrom
<1>4. \E f \in [a .. b -> V] :
        f[a] = base /\ \A k \in a + 1 .. b : f[k] = step[<<k, f[k - 1]>>]
    BY <1>3
<1> QED BY <1>4 DEF Follows

\* f and g agree at a, and at each position if they do at the one before.
StayTogether(f, g, a, b) ==
    f[a] = g[a] /\ \A k \in a + 1 .. b : f[k - 1] = g[k - 1] => f[k] = g[k]

\* Then they agree.
LEMMA AgreeFrom ==
    ASSUME NEW a \in Nat, NEW b \in Nat, NEW f, NEW g, StayTogether(f, g, a, b)
    PROVE  \A k \in a .. b : f[k] = g[k]
<1> DEFINE S == {n \in Nat : n <= b => f[n] = g[n]}
<1>1. a \in S
    BY DEF StayTogether
<1>2. ASSUME NEW n \in Nat, n >= a, n \in S PROVE n + 1 \in S
    <2> SUFFICES ASSUME n + 1 <= b PROVE f[n + 1] = g[n + 1]
        OBVIOUS
    <2>1. n + 1 \in a + 1 .. b /\ (n + 1) - 1 = n /\ f[n] = g[n]
        BY <1>2
    <2> QED BY <2>1 DEF StayTogether
<1> HIDE DEF S
<1>3. \A n \in Nat : n >= a => n \in S
    BY <1>1, <1>2, InductionFrom
<1> QED BY <1>3 DEF S

-------------------------------------------------------------------------------
(* The loops of the parser                                                 *)

\* The cursor's positions and the symbols there.
LEMMA PositionsOf ==
    ASSUME NEW text \in Seq(STRING)
    PROVE  /\ Len(text) \in Nat /\ DOMAIN text = 1 .. Len(text)
           /\ \A k \in 1 .. Len(text) : At(text, k) = text[k] /\ text[k] \in STRING
           /\ At(text, Len(text) + 1) = LineEnd
BY DEF At

\* A loop that does not pass a line end stops.
LEMMA StopIsFound ==
    ASSUME NEW text \in Seq(STRING), NEW cursor \in 1 .. Len(text) + 1,
           NEW symbols, LineEnd \notin symbols
    PROVE  /\ Stop(text, cursor, symbols) \in cursor .. Len(text) + 1
           /\ At(text, Stop(text, cursor, symbols)) \notin symbols
           /\ \A k \in cursor .. Stop(text, cursor, symbols) - 1 : At(text, k) \in symbols
<1> DEFINE T == {k \in cursor .. Len(text) + 1 : At(text, k) \notin symbols}
<1>1. T \in SUBSET Nat /\ Len(text) + 1 \in T
    BY PositionsOf
<1>2. PICK x \in T : \A y \in T : x <= y
    BY <1>1, LeastElement
<1>3. /\ x \in cursor .. Len(text) + 1 /\ At(text, x) \notin symbols
      /\ \A k \in cursor .. x - 1 : At(text, k) \in symbols
    BY <1>2, PositionsOf
<1> HIDE DEF T
<1>4. \E end \in cursor .. Len(text) + 1 :
        /\ At(text, end) \notin symbols
        /\ \A k \in cursor .. end - 1 : At(text, k) \in symbols
    BY <1>3
<1> QED BY <1>4 DEF Stop

\* It stops at the first symbol that is not one of its own, wherever one looks from.
LEMMA StopIsThere ==
    ASSUME NEW text \in Seq(STRING), NEW cursor \in 1 .. Len(text) + 1,
           NEW symbols, LineEnd \notin symbols,
           NEW end \in cursor .. Len(text) + 1, At(text, end) \notin symbols,
           \A k \in cursor .. end - 1 : At(text, k) \in symbols
    PROVE  Stop(text, cursor, symbols) = end
<1> DEFINE stop == Stop(text, cursor, symbols)
<1>1. /\ stop \in cursor .. Len(text) + 1 /\ At(text, stop) \notin symbols
      /\ \A k \in cursor .. stop - 1 : At(text, k) \in symbols
    BY StopIsFound
<1> HIDE DEF stop
<1>2. ~ (stop < end) /\ ~ (end < stop)
    BY <1>1, PositionsOf
<1> QED BY <1>1, <1>2, PositionsOf DEF stop

\* Behind position i skip_spaces passes blanks only, and all of them.
LEMMA SpacesAreSkipped ==
    ASSUME NEW text \in Seq(STRING), NEW i \in 0 .. Len(text)
    PROVE  /\ skip_spaces(text, i + 1) \in i + 1 .. Len(text) + 1
           /\ Blank(text, i, skip_spaces(text, i + 1) - 1)
           /\ At(text, skip_spaces(text, i + 1)) # Space
<1> DEFINE stop == Stop(text, i + 1, {Space})
<1>1. Len(text) \in Nat
    BY PositionsOf
<1>2. i + 1 \in 1 .. Len(text) + 1
    BY <1>1
<1>3. LineEnd \notin {Space}
    BY DEF LineEnd, Space
<1>4. /\ stop \in i + 1 .. Len(text) + 1 /\ At(text, stop) \notin {Space}
      /\ \A k \in i + 1 .. stop - 1 : At(text, k) \in {Space}
    BY <1>2, <1>3, StopIsFound
<1> HIDE DEF stop
<1>5. Blank(text, i, stop - 1)
    BY <1>4 DEF Blank
<1> QED BY <1>4, <1>5 DEF skip_spaces, stop

\* Nothing else than the first symbol that is no blank ends the blanks.
LEMMA SkippedUpTo ==
    ASSUME NEW text \in Seq(STRING), NEW i \in 0 .. Len(text),
           NEW s \in i + 1 .. Len(text) + 1, Blank(text, i, s - 1), At(text, s) # Space
    PROVE  skip_spaces(text, i + 1) = s
<1>1. Len(text) \in Nat
    BY PositionsOf
<1>2. i + 1 \in 1 .. Len(text) + 1
    BY <1>1
<1>4. LineEnd \notin {Space}
    BY DEF LineEnd, Space
<1>3. \A k \in i + 1 .. s - 1 : At(text, k) \in {Space}
    BY DEF Blank
<1> QED BY <1>1, <1>2, <1>3, <1>4, StopIsThere DEF skip_spaces

\* The test for trailing text is the line's end, said of the line as a whole.
LEMMA EndIsTested ==
    ASSUME NEW text \in Seq(STRING), NEW i \in 0 .. Len(text)
    PROVE  has_only_line_end_after_spaces(text, i + 1) <=> EndsAfter(text, i)
<1> DEFINE s == skip_spaces(text, i + 1)
<1>1. s \in i + 1 .. Len(text) + 1 /\ Blank(text, i, s - 1) /\ At(text, s) # Space
    BY SpacesAreSkipped
<1>2. ASSUME NEW e \in i + 1 .. Len(text) + 1, Blank(text, i, e - 1), At(text, e) = LineEnd
      PROVE  s = e
    BY <1>2, SkippedUpTo DEF LineEnd, Space
<1> QED BY <1>1, <1>2 DEF has_only_line_end_after_spaces, EndsAfter

-------------------------------------------------------------------------------
(* Words                                                                   *)

\* A place that holds one of several words holds the word that is there.
LEMMA WordOfItsOwn ==
    ASSUME NEW text, NEW i, NEW j, NEW words
    PROVE  IsWord(text, i, j, words)
             <=> At(text, j) \in words /\ IsWord(text, i, j, {At(text, j)})
BY DEF IsWord

\* A token that is a word stands alone in the line, and is read up to its end.
LEMMA WordIsRead ==
    ASSUME NEW text \in Seq(STRING), NEW i \in 0 .. Len(text),
           NEW word, word \notin {Space, LineEnd, NoWord}
    PROVE  LET token == read_token(text, i + 1)
           IN  /\ token.cursor \in i + 1 .. Len(text) + 1
               /\ token.word = word =>
                    /\ token.cursor - 1 \in i + 1 .. Len(text)
                    /\ IsWord(text, i, token.cursor - 1, {word})
               /\ \A j \in i + 1 .. Len(text) :
                    IsWord(text, i, j, {word}) => token.word = word /\ token.cursor = j + 1
<1> DEFINE start   == skip_spaces(text, i + 1)
           symbols == {text[k] : k \in DOMAIN text} \ {Space, LineEnd}
           end     == Stop(text, start, symbols)
<1>1. Len(text) \in Nat /\ DOMAIN text = 1 .. Len(text)
    BY PositionsOf
<1>2. start \in i + 1 .. Len(text) + 1 /\ Blank(text, i, start - 1) /\ At(text, start) # Space
    BY SpacesAreSkipped
<1>3. LineEnd \notin symbols
    OBVIOUS
<1>4. start \in 1 .. Len(text) + 1
    BY <1>1, <1>2
<1>5. /\ end \in start .. Len(text) + 1 /\ At(text, end) \notin symbols
      /\ \A k \in start .. end - 1 : At(text, k) \in symbols
    <2> HIDE DEF start, symbols
    <2> QED BY <1>3, <1>4, StopIsFound
<1>6. \A k \in 1 .. Len(text) + 1 : At(text, k) \in symbols <=> At(text, k) \notin {Space, LineEnd}
    BY <1>1, PositionsOf DEF At
<1>7. read_token(text, i + 1)
        = [word |-> IF end = start + 1 THEN At(text, start) ELSE NoWord, cursor |-> end]
    BY DEF read_token
<1>8. end \in i + 1 .. Len(text) + 1
    BY <1>1, <1>2, <1>5
<1>9. ASSUME end = start + 1, At(text, start) = word
      PROVE  end - 1 \in i + 1 .. Len(text) /\ IsWord(text, i, end - 1, {word})
    <2> HIDE DEF start, symbols, end
    <2>1. end - 1 = start /\ end - 1 \in i + 1 .. Len(text) /\ i < end - 1
        BY <1>1, <1>2, <1>5, <1>9
    <2>2. At(text, end) \in {Space, LineEnd}
        BY <1>1, <1>2, <1>5, <1>6
    <2> QED BY <1>2, <1>9, <2>1, <2>2 DEF IsWord
<1>10. ASSUME NEW j \in i + 1 .. Len(text), IsWord(text, i, j, {word})
       PROVE  start = j /\ end = j + 1
    <2>1. Blank(text, i, j - 1) /\ At(text, j) = word /\ At(text, j + 1) \in {Space, LineEnd}
        BY <1>10 DEF IsWord
    <2>2. j \in i + 1 .. Len(text) + 1 /\ At(text, j) # Space
        BY <1>1, <2>1
    <2>3. start = j
        BY <2>1, <2>2, SkippedUpTo
    <2> HIDE DEF start, symbols
    <2>4. j + 1 \in j .. Len(text) + 1 /\ j + 1 \in 1 .. Len(text) + 1 /\ j \in 1 .. Len(text) + 1
        BY <1>1
    <2>5. At(text, j + 1) \notin symbols
        BY <1>6, <2>1, <2>4
    <2>6. \A k \in j .. (j + 1) - 1 : At(text, k) \in symbols
        BY <1>1, <1>6, <2>1, <2>4
    <2>7. Stop(text, j, symbols) = j + 1
        BY <1>3, <2>4, <2>5, <2>6, StopIsThere
    <2> QED BY <2>3, <2>7
<1> DEFINE token == read_token(text, i + 1)
<1> HIDE DEF start, symbols, end
<1>11. token.cursor = end /\ token.word = (IF end = start + 1 THEN At(text, start) ELSE NoWord)
    BY <1>7
<1>12. ASSUME token.word = word
       PROVE  token.cursor - 1 \in i + 1 .. Len(text) /\ IsWord(text, i, token.cursor - 1, {word})
    <2>1. end = start + 1 /\ At(text, start) = word
        BY <1>11, <1>12
    <2> QED BY <1>9, <1>11, <2>1
<1>13. ASSUME NEW j \in i + 1 .. Len(text), IsWord(text, i, j, {word})
       PROVE  token.word = word /\ token.cursor = j + 1
    <2>1. At(text, j) = word
        BY <1>13 DEF IsWord
    <2>2. start = j /\ end = j + 1
        BY <1>10, <1>13
    <2> QED BY <1>11, <2>1, <2>2
<1>14. token.cursor \in i + 1 .. Len(text) + 1
    BY <1>8, <1>11
<1> HIDE DEF token
<1>15. /\ token.cursor \in i + 1 .. Len(text) + 1
       /\ token.word = word => token.cursor - 1 \in i + 1 .. Len(text)
                                /\ IsWord(text, i, token.cursor - 1, {word})
       /\ \A j \in i + 1 .. Len(text) :
            IsWord(text, i, j, {word}) => token.word = word /\ token.cursor = j + 1
    BY <1>12, <1>13, <1>14
<1> QED BY <1>15 DEF token

\* A token behind position i, for the words that can be commands or names.
LEMMA TokenIsWord ==
    ASSUME NEW text \in Seq(STRING), NEW cursor \in 1 .. Len(text) + 1,
           NEW word, word \notin {Space, LineEnd, NoWord}
    PROVE  LET token == read_token(text, cursor)
           IN  /\ token.cursor \in cursor .. Len(text) + 1
               /\ token.word = word =>
                    /\ token.cursor - 1 \in cursor .. Len(text)
                    /\ IsWord(text, cursor - 1, token.cursor - 1, {word})
               /\ \A j \in 1 .. Len(text) :
                    IsWord(text, cursor - 1, j, {word}) => token.word = word /\ token.cursor = j + 1
<1> DEFINE i == cursor - 1
           token == read_token(text, cursor)
<1>1. Len(text) \in Nat
    BY PositionsOf
<1>2. i \in 0 .. Len(text) /\ i + 1 = cursor
    BY <1>1
<1> HIDE DEF i
<1>3. LET read == read_token(text, i + 1)
      IN  /\ read.cursor \in i + 1 .. Len(text) + 1
          /\ read.word = word =>
                /\ read.cursor - 1 \in i + 1 .. Len(text)
                /\ IsWord(text, i, read.cursor - 1, {word})
          /\ \A j \in i + 1 .. Len(text) :
                IsWord(text, i, j, {word}) => read.word = word /\ read.cursor = j + 1
    BY <1>2, WordIsRead
<1>4. \A j \in 1 .. Len(text) : IsWord(text, i, j, {word}) => j \in i + 1 .. Len(text)
    BY <1>1, <1>2 DEF IsWord
<1> HIDE DEF token
<1>5. /\ token.cursor \in i + 1 .. Len(text) + 1
      /\ token.word = word =>
            /\ token.cursor - 1 \in i + 1 .. Len(text)
            /\ IsWord(text, i, token.cursor - 1, {word})
      /\ \A j \in 1 .. Len(text) :
            IsWord(text, i, j, {word}) => token.word = word /\ token.cursor = j + 1
    BY <1>2, <1>3, <1>4 DEF token
<1> QED BY <1>2, <1>5 DEF token, i

\* The first token of a line.
LEMMA FirstIsWord ==
    ASSUME NEW text \in Seq(STRING), NEW word, word \notin {Space, LineEnd, NoWord}
    PROVE  LET first == read_token(text, 1)
           IN  /\ first.cursor \in 1 .. Len(text) + 1
               /\ first.word = word => /\ first.cursor - 1 \in 1 .. Len(text)
                                       /\ IsWord(text, 0, first.cursor - 1, {word})
               /\ \A j \in 1 .. Len(text) :
                    IsWord(text, 0, j, {word}) => first.word = word /\ first.cursor = j + 1
<1> DEFINE start == 1
<1>1. start \in 1 .. Len(text) + 1 /\ start - 1 = 0
    BY PositionsOf
<1> HIDE DEF start
<1>2. LET token == read_token(text, start)
      IN  /\ token.cursor \in start .. Len(text) + 1
          /\ token.word = word =>
                /\ token.cursor - 1 \in start .. Len(text)
                /\ IsWord(text, start - 1, token.cursor - 1, {word})
          /\ \A j \in 1 .. Len(text) :
                IsWord(text, start - 1, j, {word})
                   => token.word = word /\ token.cursor = j + 1
    BY <1>1, TokenIsWord
<1> QED BY <1>1, <1>2 DEF start

-------------------------------------------------------------------------------
(* One digit                                                               *)

\* The check before a digit is taken in is exact: the digit is refused exactly if
\* the number would pass the limit, which it then never reaches on the way.
LEMMA RoomIsExact ==
    ASSUME NEW parsed \in Nat, NEW digit \in 0 .. 9, NEW limit \in Nat, limit >= 9
    PROVE  HasRoomFor(parsed, digit, limit) <=> parsed * 10 + digit <= limit
BY DEF HasRoomFor

\* For any width, and both signs: from a number in range a digit leads to exactly
\* ten times the number plus the digit, or to Overflow if that is out of range; an
\* Overflow stays (command_parser.c:140-155).
THEOREM DigitIsAppendedExactly ==
    ASSUME NEW parsed \in Nat \cup {Overflow}, NEW digit \in 0 .. 9, NEW negative \in BOOLEAN
    PROVE  AppendDigit(parsed, digit, negative)
             = IF parsed # Overflow /\ parsed * 10 + digit <= Limit(negative)
               THEN parsed * 10 + digit ELSE Overflow
<1>1. Limit(negative) \in Nat /\ Limit(negative) >= 9
    BY ParserAssumption DEF Limit
<1>2. CASE parsed = Overflow
    BY <1>2 DEF AppendDigit
<1>3. CASE parsed # Overflow
    <2>1. parsed \in Nat
        BY <1>3
    <2> QED
        BY <1>1, <1>3, <2>1, RoomIsExact DEF AppendDigit
<1> QED
    BY <1>2, <1>3

-------------------------------------------------------------------------------
(* Numbers                                                                 *)

\* A digit's value has one digit.
LEMMA DigitsAreSmall == \A d : IsDigit(d) => DigitValue[d] \in 0 .. 9
BY DEF IsDigit, DigitValue

\* What is taken of a number stays one, or an overflow.
LEMMA AppendedTyped ==
    ASSUME NEW parsed \in Nat \cup {Overflow}, NEW digit \in 0 .. 9, NEW negative \in BOOLEAN
    PROVE  AppendDigit(parsed, digit, negative) \in Nat \cup {Overflow}
BY DigitIsAppendedExactly

\* The loop over the digits, step by step.
TakenBy(taken, text, first, end, negative) ==
    /\ taken[first] = 0
    /\ \A k \in first + 1 .. end :
         taken[k] = AppendDigit(taken[k - 1], DigitValue[text[k - 1]], negative)
    /\ take_digits(text, first, end, negative) = taken[end]

\* What the loop takes of a run of digits obeys its steps, up to the last digit.
LEMMA DigitsAreTaken ==
    ASSUME NEW text \in Seq(STRING), NEW first \in 1 .. Len(text) + 1,
           NEW end \in first .. Len(text) + 1, NEW negative \in BOOLEAN,
           AllDigits(text, first - 1, end - 1)
    PROVE  \E taken \in [first .. end -> Nat \cup {Overflow}] :
             TakenBy(taken, text, first, end, negative)
<1> DEFINE V    == Nat \cup {Overflow}
           step == [p \in (first + 1 .. end) \X V |->
                       AppendDigit(p[2], DigitValue[text[p[1] - 1]], negative)]
           H    == CHOOSE g : g = [k \in first .. end |->
                       IF k = first THEN 0
                       ELSE AppendDigit(g[k - 1], DigitValue[text[k - 1]], negative)]
<1>1. first \in Nat /\ end \in Nat /\ first <= end
    BY PositionsOf
<1>2. \A k \in first + 1 .. end : DigitValue[text[k - 1]] \in 0 .. 9
    <2> TAKE k \in first + 1 .. end
    <2>1. k - 1 \in first .. end - 1 /\ k - 1 \in 1 .. Len(text)
        BY <1>1, PositionsOf
    <2>2. IsDigit(text[k - 1])
        BY <1>1, <2>1, PositionsOf DEF AllDigits
    <2> QED BY <2>2, DigitsAreSmall
<1>3. \A k \in first + 1 .. end, v \in V :
        /\ step[<<k, v>>] = AppendDigit(v, DigitValue[text[k - 1]], negative)
        /\ step[<<k, v>>] \in V
    BY <1>2, AppendedTyped
<1>4. step \in [(first + 1 .. end) \X V -> V]
    <2>1. \A p \in (first + 1 .. end) \X V :
            AppendDigit(p[2], DigitValue[text[p[1] - 1]], negative) \in V
        BY <1>2, AppendedTyped
    <2> QED BY <2>1
<1> HIDE DEF step
<1>5. PICK f \in [first .. end -> V] :
        f[first] = 0 /\ \A k \in first + 1 .. end : f[k] = step[<<k, f[k - 1]>>]
    <2>1. 0 \in V
        OBVIOUS
    <2> HIDE DEF V
    <2>2. \E f \in [first .. end -> V] : Follows(f, first, end, 0, step)
        BY <1>1, <1>4, <2>1, RecursionExists
    <2> QED BY <2>2 DEF Follows
<1>6. \A k \in first + 1 .. end :
        f[k] = AppendDigit(f[k - 1], DigitValue[text[k - 1]], negative)
    <2> TAKE k \in first + 1 .. end
    <2>1. k - 1 \in first .. end
        BY <1>1
    <2>2. f[k - 1] \in V
        BY <1>5, <2>1
    <2> QED BY <1>3, <1>5, <2>2
<1>7. f = [k \in first .. end |->
             IF k = first THEN 0
             ELSE AppendDigit(f[k - 1], DigitValue[text[k - 1]], negative)]
    <2>1. \A k \in first .. end :
            f[k] = IF k = first THEN 0
                   ELSE AppendDigit(f[k - 1], DigitValue[text[k - 1]], negative)
        BY <1>1, <1>5, <1>6
    <2> QED BY <1>5, <2>1
<1>8. H = [k \in first .. end |->
             IF k = first THEN 0
             ELSE AppendDigit(H[k - 1], DigitValue[text[k - 1]], negative)]
    BY <1>7
<1>9. take_digits(text, first, end, negative) = H[end]
    BY DEF take_digits
<1> HIDE DEF H
<1>10. \A k \in first .. end : H[k] = f[k]
    <2>1. H[first] = f[first]
        BY <1>1, <1>5, <1>8
    <2>2. \A k \in first + 1 .. end : H[k - 1] = f[k - 1] => H[k] = f[k]
        <3> TAKE k \in first + 1 .. end
        <3>1. k \in first .. end /\ k # first
            BY <1>1
        <3>2. H[k] = AppendDigit(H[k - 1], DigitValue[text[k - 1]], negative)
            BY <1>8, <3>1
        <3> QED BY <1>6, <3>2
    <2>3. StayTogether(H, f, first, end)
        BY <2>1, <2>2 DEF StayTogether
    <2> QED BY <1>1, <2>3, AgreeFrom
<1>11. TakenBy(f, text, first, end, negative)
    BY <1>1, <1>5, <1>6, <1>9, <1>10 DEF TakenBy
<1> QED BY <1>5, <1>11

\* The weights and the sum of a numeral, position by position.
LEMMA WeightsGrow ==
    ASSUME NEW n \in Nat
    PROVE  LET weight[k \in 0 .. n] == IF k = 0 THEN 1 ELSE 10 * weight[k - 1]
           IN  /\ weight \in [0 .. n -> Nat]
               /\ weight[0] = 1 /\ \A k \in 1 .. n : weight[k] = 10 * weight[k - 1]
<1> DEFINE step == [p \in (0 + 1 .. n) \X Nat |-> 10 * p[2]]
           W    == CHOOSE g : g = [k \in 0 .. n |-> IF k = 0 THEN 1 ELSE 10 * g[k - 1]]
<1>1. step \in [(0 + 1 .. n) \X Nat -> Nat] /\ 0 \in Nat /\ 0 <= n /\ 1 \in Nat
    OBVIOUS
<1>2. \A k \in 1 .. n, v \in Nat : step[<<k, v>>] = 10 * v
    OBVIOUS
<1> HIDE DEF step
<1>3. PICK f \in [0 .. n -> Nat] : f[0] = 1 /\ \A k \in 1 .. n : f[k] = 10 * f[k - 1]
    <2>1. PICK f \in [0 .. n -> Nat] : Follows(f, 0, n, 1, step)
        BY <1>1, RecursionExists
    <2>2. \A k \in 1 .. n : f[k] = 10 * f[k - 1]
        <3> TAKE k \in 1 .. n
        <3>1. f[k - 1] \in Nat /\ f[k] = step[<<k, f[k - 1]>>]
            BY <2>1 DEF Follows
        <3> QED BY <1>2, <3>1
    <2> QED BY <2>1, <2>2 DEF Follows
<1>4. f = [k \in 0 .. n |-> IF k = 0 THEN 1 ELSE 10 * f[k - 1]]
    <2>1. \A k \in 0 .. n : f[k] = IF k = 0 THEN 1 ELSE 10 * f[k - 1]
        BY <1>3
    <2> QED BY <1>3, <2>1
<1>5. W = [k \in 0 .. n |-> IF k = 0 THEN 1 ELSE 10 * W[k - 1]]
    BY <1>4
<1> HIDE DEF W
<1>6. W[0] = 1 /\ \A k \in 1 .. n : W[k] = 10 * W[k - 1]
    <2>1. 0 \in 0 .. n
        OBVIOUS
    <2>2. W[0] = 1
        BY ONLY <1>5, <2>1
    <2>3. \A k \in 1 .. n : k \in 0 .. n /\ k # 0
        OBVIOUS
    <2> QED BY <1>5, <2>2, <2>3
<1>7. \A k \in 0 .. n : W[k] = f[k]
    <2>1. W[0] = f[0]
        BY <1>3, <1>6
    <2>2. \A k \in 0 + 1 .. n : W[k - 1] = f[k - 1] => W[k] = f[k]
        BY <1>3, <1>6
    <2>3. StayTogether(W, f, 0, n)
        BY <2>1, <2>2 DEF StayTogether
    <2> QED BY <1>1, <2>3, AgreeFrom
<1>8. W \in [0 .. n -> Nat]
    <2>1. W = [k \in 0 .. n |-> W[k]]
        BY <1>5
    <2> QED BY <1>7, <2>1
<1> QED BY <1>6, <1>8 DEF W

\* What the digit at k counts, with these weights.
Share(text, weight, j, k) ==
    IF IsDigit(text[k]) THEN DigitValue[text[k]] * weight[j - k] ELSE 0

SummedBy(weight, sum, text, i, j) ==
    /\ weight[0] = 1 /\ \A k \in 1 .. j - i : weight[k] = 10 * weight[k - 1]
    /\ sum[i] = 0
    /\ \A k \in i + 1 .. j : sum[k] = sum[k - 1] + Share(text, weight, j, k)
    /\ Magnitude(text, i, j) = sum[j]

\* The weights and the partial sums of a segment exist and obey their steps.
LEMMA MagnitudeIsSummed ==
    ASSUME NEW text \in Seq(STRING), NEW i \in 0 .. Len(text), NEW j \in i .. Len(text)
    PROVE  \E weight \in [0 .. j - i -> Nat], sum \in [i .. j -> Nat] :
             SummedBy(weight, sum, text, i, j)
<1> DEFINE W    == CHOOSE g : g = [k \in 0 .. j - i |-> IF k = 0 THEN 1 ELSE 10 * g[k - 1]]
           step == [p \in (i + 1 .. j) \X Nat |-> p[2] + Share(text, W, j, p[1])]
           H    == CHOOSE g : g = [k \in i .. j |->
                       IF k = i THEN 0 ELSE g[k - 1] +
                            IF IsDigit(text[k]) THEN DigitValue[text[k]] * W[j - k] ELSE 0]
<1>1. i \in Nat /\ j \in Nat /\ i <= j /\ j - i \in Nat /\ Len(text) \in Nat
    BY PositionsOf
<1>2. /\ W \in [0 .. j - i -> Nat]
      /\ W[0] = 1 /\ \A k \in 1 .. j - i : W[k] = 10 * W[k - 1]
    BY <1>1, WeightsGrow
<1>3. Magnitude(text, i, j) = H[j]
    BY DEF Magnitude
<1> HIDE DEF W
<1>4. \A k \in i + 1 .. j : Share(text, W, j, k) \in Nat
    <2> TAKE k \in i + 1 .. j
    <2>1. j - k \in 0 .. j - i
        BY <1>1
    <2>2. W[j - k] \in Nat
        BY <1>2, <2>1
    <2>3. CASE IsDigit(text[k])
        <3>1. DigitValue[text[k]] \in Nat
            BY <2>3, DigitsAreSmall
        <3>2. \A d, w \in Nat : d * w \in Nat
            OBVIOUS
        <3> QED BY <2>2, <2>3, <3>1, <3>2 DEF Share
    <2> QED BY <2>3 DEF Share
<1>5. /\ step \in [(i + 1 .. j) \X Nat -> Nat]
      /\ \A k \in i + 1 .. j, v \in Nat : step[<<k, v>>] = v + Share(text, W, j, k)
    BY <1>4
<1> HIDE DEF step
<1>6. PICK f \in [i .. j -> Nat] :
        f[i] = 0 /\ \A k \in i + 1 .. j : f[k] = f[k - 1] + Share(text, W, j, k)
    <2>1. 0 \in Nat
        OBVIOUS
    <2>2. PICK f \in [i .. j -> Nat] : Follows(f, i, j, 0, step)
        BY <1>1, <1>5, <2>1, RecursionExists
    <2>3. \A k \in i + 1 .. j : f[k] = f[k - 1] + Share(text, W, j, k)
        <3> TAKE k \in i + 1 .. j
        <3>1. k - 1 \in i .. j
            BY <1>1
        <3>2. f[k - 1] \in Nat /\ f[k] = step[<<k, f[k - 1]>>]
            BY <2>2, <3>1 DEF Follows
        <3> QED BY <1>5, <3>2
    <2> QED BY <2>2, <2>3 DEF Follows
<1>7. f = [k \in i .. j |->
             IF k = i THEN 0 ELSE f[k - 1] +
                  IF IsDigit(text[k]) THEN DigitValue[text[k]] * W[j - k] ELSE 0]
    <2>1. \A k \in i .. j : f[k] = IF k = i THEN 0 ELSE f[k - 1] + Share(text, W, j, k)
        BY <1>1, <1>6
    <2> QED BY <1>6, <2>1 DEF Share
<1>8. H = [k \in i .. j |-> IF k = i THEN 0 ELSE H[k - 1] + Share(text, W, j, k)]
    BY <1>7 DEF Share
<1> HIDE DEF H
<1>9. \A k \in i .. j : H[k] = f[k]
    <2>1. H[i] = f[i]
        <3>1. i \in i .. j
            BY <1>1
        <3> QED BY <1>6, <1>8, <3>1
    <2>2. \A k \in i + 1 .. j : H[k - 1] = f[k - 1] => H[k] = f[k]
        <3> TAKE k \in i + 1 .. j
        <3>1. k \in i .. j /\ k # i
            BY <1>1
        <3>2. H[k] = H[k - 1] + Share(text, W, j, k)
            BY <1>8, <3>1
        <3> QED BY <1>6, <3>2
    <2>3. StayTogether(H, f, i, j)
        BY <2>1, <2>2 DEF StayTogether
    <2> QED BY <1>1, <2>3, AgreeFrom
<1>10. Magnitude(text, i, j) = f[j]
    BY <1>1, <1>3, <1>9
<1>11. SummedBy(W, f, text, i, j)
    BY <1>2, <1>6, <1>10 DEF SummedBy
<1> QED BY <1>2, <1>6, <1>11

\* A larger number counts at least as much at the same place.
LEMMA Scaled ==
    ASSUME NEW x \in Nat, NEW y \in Nat, NEW w \in Nat
    PROVE  /\ x * w \in Nat
           /\ x >= y => x * w >= y * w
OBVIOUS

\* A digit more: the number before it counts ten times as much.
LEMMA Spread == \A x, y, w \in Nat : (x * 10 + y) * w = x * (10 * w) + y * w
OBVIOUS

\* Digit by digit from the left the loop gathers what the sum gives them by their
\* places, and overflows exactly if that passes the limit.
LEMMA DigitsAddUp ==
    ASSUME NEW text \in Seq(STRING), NEW i \in 0 .. Len(text), NEW j \in i + 1 .. Len(text),
           NEW t \in i .. j - 1, NEW negative \in BOOLEAN,
           \A k \in i + 1 .. t : ~ IsDigit(At(text, k)),
           AllDigits(text, t, j)
    PROVE  /\ Magnitude(text, i, j) \in Nat
           /\ take_digits(text, t + 1, j + 1, negative)
                = IF Magnitude(text, i, j) <= Limit(negative) THEN Magnitude(text, i, j)
                  ELSE Overflow
<1>1. /\ Len(text) \in Nat /\ i \in Nat /\ j \in Nat /\ t \in Nat
      /\ i <= t /\ t < j /\ j <= Len(text) /\ j \in i .. Len(text)
    BY PositionsOf
<1>2. \A k \in i + 1 .. j : At(text, k) = text[k]
    BY <1>1, PositionsOf
<1>3. PICK weight \in [0 .. j - i -> Nat], sum \in [i .. j -> Nat] :
        /\ weight[0] = 1 /\ \A k \in 1 .. j - i : weight[k] = 10 * weight[k - 1]
        /\ sum[i] = 0
        /\ \A k \in i + 1 .. j : sum[k] = sum[k - 1] + Share(text, weight, j, k)
        /\ Magnitude(text, i, j) = sum[j]
    <2>1. \E weight \in [0 .. j - i -> Nat], sum \in [i .. j -> Nat] :
            SummedBy(weight, sum, text, i, j)
        BY <1>1, MagnitudeIsSummed
    <2> QED BY <2>1 DEF SummedBy
<1>4. PICK taken \in [t + 1 .. j + 1 -> Nat \cup {Overflow}] :
        /\ taken[t + 1] = 0
        /\ \A k \in t + 1 + 1 .. j + 1 :
             taken[k] = AppendDigit(taken[k - 1], DigitValue[text[k - 1]], negative)
        /\ take_digits(text, t + 1, j + 1, negative) = taken[j + 1]
    <2> DEFINE first == t + 1
               end   == j + 1
    <2>1. first \in 1 .. Len(text) + 1 /\ end \in first .. Len(text) + 1
        BY <1>1
    <2>2. first - 1 = t /\ end - 1 = j /\ AllDigits(text, first - 1, end - 1)
        BY <1>1
    <2> HIDE DEF first, end
    <2>3. \E taken \in [first .. end -> Nat \cup {Overflow}] :
            TakenBy(taken, text, first, end, negative)
        BY <2>1, <2>2, DigitsAreTaken
    <2> USE DEF first, end
    <2> QED BY <2>3 DEF TakenBy
<1>5. Limit(negative) \in Nat
    BY ParserAssumption DEF Limit
<1>6. sum[t] = 0
    <2> DEFINE S == {n \in Nat : n <= t => sum[n] = 0}
    <2>1. i \in S
        BY <1>3
    <2>2. ASSUME NEW n \in Nat, n >= i, n \in S PROVE n + 1 \in S
        <3> SUFFICES ASSUME n + 1 <= t PROVE sum[n + 1] = 0
            OBVIOUS
        <3>1. n + 1 \in i + 1 .. t /\ n + 1 \in i + 1 .. j /\ (n + 1) - 1 = n /\ sum[n] = 0
            BY <1>1, <2>2
        <3>2. ~ IsDigit(text[n + 1])
            BY <1>2, <3>1
        <3>3. sum[n + 1] = sum[(n + 1) - 1] + Share(text, weight, j, n + 1)
            BY <1>3, <3>1
        <3> QED BY <3>1, <3>2, <3>3 DEF Share
    <2> HIDE DEF S
    <2>3. \A n \in Nat : n >= i => n \in S
        BY <1>1, <2>1, <2>2, InductionFrom
    <2> QED BY <1>1, <2>3 DEF S
<1> DEFINE Gathered(k) ==
             IF taken[k + 1] # Overflow
             THEN /\ sum[k] = taken[k + 1] * weight[j - k]
                  /\ taken[k + 1] <= Limit(negative)
             ELSE sum[k] >= (Limit(negative) + 1) * weight[j - k]
<1>7. ASSUME NEW n \in t .. j - 1, Gathered(n) PROVE Gathered(n + 1)
    <2> DEFINE d == DigitValue[text[n + 1]]
               w == weight[j - (n + 1)]
               p == taken[n + 1]
               L == Limit(negative)
    <2>1. n \in Nat /\ n + 1 \in i + 1 .. j /\ n + 1 \in t + 1 .. j /\ n \in i .. j
        BY <1>1
    <2>2. IsDigit(text[n + 1]) /\ d \in 0 .. 9
        BY <1>2, <2>1, DigitsAreSmall DEF AllDigits
    <2>3. w \in Nat /\ weight[j - n] = 10 * w
        <3>1. j - n \in 1 .. j - i /\ (j - n) - 1 = j - (n + 1) /\ j - (n + 1) \in 0 .. j - i
            BY <1>1
        <3> QED BY <1>3, <3>1
    <2>4. sum[n + 1] = sum[n] + d * w
        <3>1. (n + 1) - 1 = n
            BY <2>1
        <3> QED BY <1>3, <2>1, <2>2, <3>1 DEF Share
    <2>5. sum[n] \in Nat /\ p \in Nat \cup {Overflow} /\ L \in Nat
        <3>1. n + 1 \in t + 1 .. j + 1
            BY <1>1
        <3>2. sum[n] \in Nat
            BY <1>3, <2>1
        <3>3. p \in Nat \cup {Overflow}
            BY <1>4, <3>1
        <3> QED BY <1>5, <3>2, <3>3
    <2>6. taken[n + 1 + 1] = AppendDigit(p, d, negative)
        <3>1. n + 1 + 1 \in t + 1 + 1 .. j + 1 /\ (n + 1 + 1) - 1 = n + 1
            BY <1>1
        <3> QED BY <1>4, <3>1
    <2>7. AppendDigit(p, d, negative) = IF p # Overflow /\ p * 10 + d <= L THEN p * 10 + d
                                       ELSE Overflow
        BY <2>2, <2>5, DigitIsAppendedExactly
    <2> HIDE DEF d, w, p, L
    <2>8. d \in Nat
        BY <2>2
    <2>9. p # Overflow => p \in Nat /\ p * 10 + d \in Nat /\ p * 10 + d # Overflow
        BY <2>5, <2>8 DEF Overflow
    <2>10. CASE p # Overflow /\ p * 10 + d <= L
        <3>0. p \in Nat
            BY <2>9, <2>10
        <3>1. sum[n] = p * (10 * w)
            BY <1>7, <2>3, <2>10 DEF p
        <3>2. (p * 10 + d) * w = p * (10 * w) + d * w
            BY <2>3, <2>8, <3>0, Spread
        <3>3. taken[n + 1 + 1] = p * 10 + d
            BY <2>6, <2>7, <2>10
        <3> QED BY <2>4, <2>9, <2>10, <3>1, <3>2, <3>3 DEF w, L
    <2>11. CASE p # Overflow /\ ~ (p * 10 + d <= L)
        <3>0. p \in Nat
            BY <2>9, <2>11
        <3>1. sum[n] = p * (10 * w)
            BY <1>7, <2>3, <2>11 DEF p
        <3>2. (p * 10 + d) * w = p * (10 * w) + d * w
            BY <2>3, <2>8, <3>0, Spread
        <3>3. p * 10 + d >= L + 1 /\ L + 1 \in Nat
            BY <2>5, <2>9, <2>11
        <3>4. (p * 10 + d) * w >= (L + 1) * w
            BY <2>3, <2>9, <2>11, <3>3, Scaled
        <3>5. taken[n + 1 + 1] = Overflow
            BY <2>6, <2>7, <2>11
        <3>6. sum[n + 1] >= (L + 1) * w
            BY <2>4, <3>1, <3>2, <3>4
        <3> QED BY <3>5, <3>6 DEF w, L
    <2>12. CASE p = Overflow
        <3>1. sum[n] >= (L + 1) * (10 * w)
            BY <1>7, <2>3, <2>12 DEF p, L
        <3>2. ((L + 1) * 10 + d) * w = (L + 1) * (10 * w) + d * w /\ L + 1 \in Nat
            BY <2>3, <2>5, <2>8, Spread
        <3>3. (L + 1) * 10 + d >= L + 1 /\ (L + 1) * 10 + d \in Nat
            BY <2>5, <2>8
        <3>4. ((L + 1) * 10 + d) * w >= (L + 1) * w
            BY <2>3, <3>2, <3>3, Scaled
        <3>5. taken[n + 1 + 1] = Overflow
            BY <2>6, <2>7, <2>12
        <3>6. 10 * w \in Nat
            BY <2>3
        <3>7. d * w \in Nat /\ (L + 1) * (10 * w) \in Nat /\ (L + 1) * w \in Nat
            BY <2>3, <2>8, <3>2, <3>6, Scaled
        <3>8. sum[n + 1] >= (L + 1) * w
            <4> DEFINE A == (L + 1) * (10 * w)
                       B == d * w
                       C == (L + 1) * w
                       E == ((L + 1) * 10 + d) * w
            <4>1. A \in Nat /\ B \in Nat /\ C \in Nat /\ E = A + B /\ E >= C
                BY <3>2, <3>4, <3>7
            <4>2. sum[n + 1] = sum[n] + B /\ sum[n] >= A /\ sum[n] \in Nat
                BY <2>4, <2>5, <3>1
            <4> HIDE DEF A, B, C, E
            <4>3. \A a, b, c, x \in Nat : x >= a /\ a + b >= c => x + b >= c
                OBVIOUS
            <4>4. sum[n] + B >= C
                BY <4>1, <4>2, <4>3
            <4>5. sum[n + 1] >= C
                BY <4>2, <4>4
            <4> QED BY <4>5 DEF C
        <3> QED BY <3>5, <3>8 DEF w, L
    <2> QED BY <2>10, <2>11, <2>12
<1>8. Gathered(j)
    <2> DEFINE S == {n \in Nat : n <= j => Gathered(n)}
    <2>1. t \in S
        <3>0. j - t \in 0 .. j - i
            BY <1>1
        <3>1. weight[j - t] \in Nat
            BY <1>3, <3>0
        <3>2. Gathered(t)
            BY <1>4, <1>5, <1>6, <3>1 DEF Overflow
        <3> QED BY <1>1, <3>2
    <2>2. ASSUME NEW n \in Nat, n >= t, n \in S PROVE n + 1 \in S
        <3> SUFFICES ASSUME n + 1 <= j PROVE Gathered(n + 1)
            OBVIOUS
        <3>1. n \in t .. j - 1 /\ n <= j
            BY <1>1, <2>2
        <3>2. Gathered(n)
            BY <2>2, <3>1
        <3> HIDE DEF Gathered
        <3> QED BY <1>7, <3>1, <3>2
    <2> HIDE DEF S
    <2>3. \A n \in Nat : n >= t => n \in S
        BY <1>1, <2>1, <2>2, InductionFrom
    <2> HIDE DEF Gathered
    <2> QED BY <1>1, <2>3 DEF S
<1>9. sum[j] \in Nat /\ weight[j - j] = 1 /\ taken[j + 1] \in Nat \cup {Overflow}
    BY <1>1, <1>3, <1>4
<1>10. IF taken[j + 1] # Overflow
       THEN sum[j] = taken[j + 1] /\ taken[j + 1] <= Limit(negative)
       ELSE sum[j] >= Limit(negative) + 1
    <2>1. taken[j + 1] * 1 = taken[j + 1] \/ taken[j + 1] = Overflow
        BY <1>9
    <2>2. (Limit(negative) + 1) * 1 = Limit(negative) + 1
        BY <1>5
    <2> QED BY <1>8, <1>9, <2>1, <2>2
<1> HIDE DEF Gathered
<1>11. IF sum[j] <= Limit(negative) THEN taken[j + 1] = sum[j] ELSE taken[j + 1] = Overflow
    BY <1>5, <1>9, <1>10
<1> QED BY <1>3, <1>4, <1>9, <1>11

NumberStands(text, i, j) ==
    /\ IsNumeral(text, i, j) /\ InRange(NumeralValue(text, i, j))
    /\ ~ IsDigit(At(text, j + 1))

\* A number is taken exactly if it stands there, with its value and up to its end.
LEMMA NumberIsRead ==
    ASSUME NEW text \in Seq(STRING), NEW i \in 0 .. Len(text)
    PROVE  LET number == parse_int32(text, i + 1)
           IN  /\ number \in [ok : BOOLEAN, value : Int, cursor : i + 1 .. Len(text) + 1]
               /\ number.ok => /\ number.cursor - 1 \in i + 1 .. Len(text)
                               /\ NumberStands(text, i, number.cursor - 1)
                               /\ number.value = NumeralValue(text, i, number.cursor - 1)
               /\ \A j \in i + 1 .. Len(text) :
                    NumberStands(text, i, j) => number.ok /\ number.cursor = j + 1
<1> DEFINE start    == skip_spaces(text, i + 1)
           negative == At(text, start) = "-"
           first    == IF At(text, start) \in Signs THEN start + 1 ELSE start
           end      == Stop(text, first, DOMAIN DigitValue)
           parsed   == take_digits(text, first, end, negative)
           number   == parse_int32(text, i + 1)
<1>1. number = [ok     |-> first < end /\ parsed # Overflow,
                value  |-> IF negative THEN - parsed ELSE parsed,
                cursor |-> end]
    BY DEF parse_int32
<1>2. Len(text) \in Nat /\ DOMAIN text = 1 .. Len(text) /\ i \in Nat /\ i <= Len(text)
    BY PositionsOf
<1>3. \A d : IsDigit(d) => d \notin Signs /\ d # Space /\ d # LineEnd /\ d # "-"
    BY DEF IsDigit, DigitValue, Signs, Space, LineEnd
<1>4. start \in i + 1 .. Len(text) + 1 /\ Blank(text, i, start - 1) /\ At(text, start) # Space
    BY SpacesAreSkipped
<1>5. negative \in BOOLEAN
    OBVIOUS
<1> HIDE DEF start, number
<1>6. /\ first \in start .. Len(text) + 1 /\ first \in 1 .. Len(text) + 1
      /\ first \in {start, start + 1}
    <2>1. LineEnd \notin Signs
        BY DEF LineEnd, Signs
    <2>2. At(text, start) \in Signs => start # Len(text) + 1
        BY <2>1, PositionsOf
    <2> QED BY <1>2, <1>4, <2>2
<1>7. LineEnd \notin DOMAIN DigitValue
    BY <1>3 DEF IsDigit
<1> HIDE DEF first
<1>8. /\ end \in first .. Len(text) + 1 /\ ~ IsDigit(At(text, end))
      /\ AllDigits(text, first - 1, end - 1)
    <2>1. /\ end \in first .. Len(text) + 1 /\ At(text, end) \notin DOMAIN DigitValue
          /\ \A k \in first .. end - 1 : At(text, k) \in DOMAIN DigitValue
        BY <1>6, <1>7, StopIsFound
    <2>2. (first - 1) + 1 = first
        BY <1>6
    <2> QED BY <2>1, <2>2 DEF IsDigit, AllDigits
<1> HIDE DEF end, negative
<1>9. parsed \in Nat \cup {Overflow}
    <2>1. \E taken \in [first .. end -> Nat \cup {Overflow}] :
            TakenBy(taken, text, first, end, negative)
        BY <1>5, <1>6, <1>8, DigitsAreTaken
    <2>2. end \in first .. end
        BY <1>6, <1>8
    <2> QED BY <2>1, <2>2 DEF TakenBy
\* A numeral begins and ends where the parser finds its first and last digit.
<1>10. ASSUME NEW j \in i + 1 .. Len(text), IsNumeral(text, i, j), ~ IsDigit(At(text, j + 1))
       PROVE  end = j + 1 /\ first < end
    <2>0. PICK s \in i .. j - 1 : \E t \in {s, s + 1} :
            /\ Blank(text, i, s)
            /\ t = s \/ At(text, t) \in Signs
            /\ t < j /\ AllDigits(text, t, j)
        BY <1>10 DEF IsNumeral
    <2>1. PICK t \in {s, s + 1} :
            /\ Blank(text, i, s)
            /\ t = s \/ At(text, t) \in Signs
            /\ t < j /\ AllDigits(text, t, j)
        BY <2>0
    <2>2. s \in Nat /\ t \in Nat /\ t + 1 \in t + 1 .. j
        BY <1>2, <2>1
    <2>3. IsDigit(At(text, t + 1))
        BY <2>1, <2>2 DEF AllDigits
    <2>4. At(text, s + 1) # Space
        BY <1>3, <2>1, <2>3 DEF Signs, Space
    <2>5. start = s + 1
        <3>1. s + 1 \in i + 1 .. Len(text) + 1 /\ (s + 1) - 1 = s
            BY <1>2, <2>2
        <3> QED BY <2>1, <2>4, <3>1, SkippedUpTo DEF start
    <2>6. first = t + 1
        BY <1>3, <2>1, <2>2, <2>3, <2>5 DEF first
    <2>7. /\ t + 1 \in 1 .. Len(text) + 1 /\ j + 1 \in t + 1 .. Len(text) + 1
          /\ At(text, j + 1) \notin DOMAIN DigitValue
          /\ \A k \in t + 1 .. (j + 1) - 1 : At(text, k) \in DOMAIN DigitValue
        BY <1>2, <1>10, <2>1, <2>2 DEF IsDigit, AllDigits
    <2>8. Stop(text, t + 1, DOMAIN DigitValue) = j + 1
        BY <1>7, <2>7, StopIsThere
    <2> QED BY <2>1, <2>2, <2>6, <2>8 DEF end
\* What the parser takes for a number is the numeral's value, unless out of range.
<1>11. ASSUME first < end
       PROVE  /\ end - 1 \in i + 1 .. Len(text) /\ IsNumeral(text, i, end - 1)
              /\ ~ IsDigit(At(text, (end - 1) + 1))
              /\ parsed # Overflow <=> InRange(NumeralValue(text, i, end - 1))
              /\ parsed # Overflow =>
                   NumeralValue(text, i, end - 1) = IF negative THEN - parsed ELSE parsed
    <2> DEFINE j == end - 1
               t == first - 1
               M == Magnitude(text, i, j)
    <2>1. /\ j \in i + 1 .. Len(text) /\ t \in i .. j - 1 /\ t < j /\ j + 1 = end /\ t + 1 = first
          /\ start - 1 \in i .. j - 1 /\ t \in {start - 1, (start - 1) + 1}
        BY <1>2, <1>4, <1>6, <1>8, <1>11
    <2>2. AllDigits(text, t, j) /\ ~ IsDigit(At(text, j + 1))
        BY <1>8, <2>1
    <2>3. t = start - 1 \/ (t = start /\ At(text, t) \in Signs)
        BY <1>4, <1>6 DEF first
    <2> HIDE DEF j, t
    <2>4. IsNumeral(text, i, j)
        BY <1>4, <2>1, <2>2, <2>3 DEF IsNumeral
    <2>5. \A k \in i + 1 .. t : ~ IsDigit(At(text, k))
        <3> TAKE k \in i + 1 .. t
        <3>1. k \in i + 1 .. start - 1 \/ (k = start /\ At(text, k) \in Signs)
            BY <1>2, <1>4, <2>1, <2>3
        <3> QED BY <1>3, <1>4, <3>1 DEF Blank
    <2>6. M \in Nat /\ parsed = IF M <= Limit(negative) THEN M ELSE Overflow
        <3>1. /\ M \in Nat
              /\ take_digits(text, t + 1, j + 1, negative)
                   = IF M <= Limit(negative) THEN M ELSE Overflow
            BY <1>5, <2>1, <2>2, <2>5, DigitsAddUp
        <3> QED BY <2>1, <3>1
    <2>7. (\E k \in i + 1 .. j : text[k] = "-") <=> negative
        <3>1. ASSUME NEW k \in i + 1 .. j, text[k] = "-" PROVE negative
            <4>0. k \in 1 .. Len(text) /\ "-" # Space
                BY <1>2, <2>1 DEF Space
            <4>1. At(text, k) = "-" /\ At(text, k) # Space
                BY <3>1, <4>0, PositionsOf
            <4>2. k \in i + 1 .. start - 1 \/ k = start \/ k \in t + 1 .. j
                BY <1>2, <1>4, <2>1, <2>3
            <4> QED BY <1>3, <1>4, <2>2, <4>1, <4>2 DEF Blank, AllDigits, negative
        <3>2. ASSUME negative PROVE \E k \in i + 1 .. j : text[k] = "-"
            <4>1. start \in i + 1 .. j
                BY <1>2, <1>4, <2>1
            <4>2. text[start] = "-"
                BY <1>2, <2>1, <3>2, <4>1, PositionsOf DEF negative
            <4> QED BY <4>1, <4>2
        <3> QED BY <3>1, <3>2
    <2>8. NumeralValue(text, i, j) = IF negative THEN - M ELSE M
        BY <2>7 DEF NumeralValue
    <2> HIDE DEF M
    <2>9. InRange(NumeralValue(text, i, j)) <=> M <= Limit(negative)
        BY <1>5, <2>6, <2>8, ParserAssumption DEF InRange, Limit
    <2>10. parsed # Overflow <=> M <= Limit(negative)
        BY <2>6 DEF Overflow
    <2>11. parsed # Overflow =>
             NumeralValue(text, i, j) = IF negative THEN - parsed ELSE parsed
        BY <2>6, <2>8, <2>10
    <2> QED BY <2>1, <2>2, <2>4, <2>9, <2>10, <2>11 DEF j
<1> HIDE DEF parsed
<1>12. number \in [ok : BOOLEAN, value : Int, cursor : i + 1 .. Len(text) + 1]
    <2>1. end \in i + 1 .. Len(text) + 1
        BY <1>2, <1>4, <1>6, <1>8
    <2>2. (IF negative THEN - parsed ELSE parsed) \in Int
        BY <1>5, <1>9 DEF Overflow
    <2> QED BY <1>1, <2>1, <2>2
<1>13. /\ number.ok <=> first < end /\ parsed # Overflow
       /\ number.value = IF negative THEN - parsed ELSE parsed
       /\ number.cursor = end
    BY <1>1
<1>14. ASSUME number.ok
       PROVE  /\ number.cursor - 1 \in i + 1 .. Len(text)
              /\ NumberStands(text, i, number.cursor - 1)
              /\ number.value = NumeralValue(text, i, number.cursor - 1)
    BY <1>11, <1>13, <1>14 DEF NumberStands
<1>15. ASSUME NEW j \in i + 1 .. Len(text), NumberStands(text, i, j)
       PROVE  number.ok /\ number.cursor = j + 1
    <2>1. end = j + 1 /\ first < end
        BY <1>10, <1>15 DEF NumberStands
    <2>2. end - 1 = j
        BY <1>2, <2>1
    <2> QED BY <1>11, <1>13, <1>15, <2>1, <2>2 DEF NumberStands
<1>16. /\ number \in [ok : BOOLEAN, value : Int, cursor : i + 1 .. Len(text) + 1]
       /\ number.ok => /\ number.cursor - 1 \in i + 1 .. Len(text)
                       /\ NumberStands(text, i, number.cursor - 1)
                       /\ number.value = NumeralValue(text, i, number.cursor - 1)
       /\ \A j \in i + 1 .. Len(text) :
            NumberStands(text, i, j) => number.ok /\ number.cursor = j + 1
    BY <1>12, <1>14, <1>15
<1> QED BY <1>16 DEF number

-------------------------------------------------------------------------------
(* Commands                                                                *)

\* What a reading of a number leaves, from any cursor.
LEMMA ParsedNumberTyped ==
    ASSUME NEW text \in Seq(STRING), NEW cursor \in 1 .. Len(text) + 1
    PROVE  parse_int32(text, cursor)
             \in [ok : BOOLEAN, value : Int, cursor : 1 .. Len(text) + 1]
<1>1. Len(text) \in Nat
    BY PositionsOf
<1> DEFINE i == cursor - 1
<1>2. i \in 0 .. Len(text) /\ i + 1 = cursor
    BY <1>1
<1> HIDE DEF i
<1>3. parse_int32(text, i + 1)
        \in [ok : BOOLEAN, value : Int, cursor : i + 1 .. Len(text) + 1]
    BY <1>2, NumberIsRead
<1> QED BY <1>1, <1>2, <1>3

\* SAMPLE's numbers, step by step.
ReadBy(read, text, cursor) ==
    /\ read[0] = [ok |-> TRUE, value |-> 0, cursor |-> cursor]
    /\ \A i \in 1 .. Len(SampleFields) :
         read[i] = IF read[i - 1].ok THEN parse_int32(text, read[i - 1].cursor)
                   ELSE read[i - 1]
    /\ \A i \in 0 .. Len(SampleFields) : parse_sample(text, cursor)[i] = read[i]

\* The readings of SAMPLE's numbers exist and obey their steps.
LEMMA SampleIsRead ==
    ASSUME NEW text \in Seq(STRING), NEW cursor \in 1 .. Len(text) + 1
    PROVE  \E read \in [0 .. Len(SampleFields) ->
                          [ok : BOOLEAN, value : Int, cursor : 1 .. Len(text) + 1]] :
             ReadBy(read, text, cursor)
<1> DEFINE n    == Len(SampleFields)
           V    == [ok : BOOLEAN, value : Int, cursor : 1 .. Len(text) + 1]
           base == [ok |-> TRUE, value |-> 0, cursor |-> cursor]
           Go(before) == IF before.ok THEN parse_int32(text, before.cursor) ELSE before
           step == [p \in (0 + 1 .. n) \X V |-> Go(p[2])]
           H    == CHOOSE g : g = [i \in 0 .. n |-> IF i = 0 THEN base ELSE Go(g[i - 1])]
<1>1. n \in Nat /\ 0 \in Nat /\ 0 <= n
    BY ParserAssumption
<1>2. base \in V
    OBVIOUS
<1>3. \A v \in V : Go(v) \in V
    <2> TAKE v \in V
    <2>1. v.cursor \in 1 .. Len(text) + 1
        OBVIOUS
    <2> QED BY <2>1, ParsedNumberTyped
<1>4. parse_sample(text, cursor) = H
    BY DEF parse_sample
<1> HIDE DEF V, base, Go, n
<1>5. step \in [(0 + 1 .. n) \X V -> V] /\ \A k \in 1 .. n, v \in V : step[<<k, v>>] = Go(v)
    BY <1>3
<1> HIDE DEF step
<1>6. PICK f \in [0 .. n -> V] : f[0] = base /\ \A i \in 1 .. n : f[i] = Go(f[i - 1])
    <2>1. PICK f \in [0 .. n -> V] : Follows(f, 0, n, base, step)
        BY <1>1, <1>2, <1>5, RecursionExists
    <2>2. \A i \in 1 .. n : f[i] = Go(f[i - 1])
        <3> TAKE i \in 1 .. n
        <3>1. f[i - 1] \in V /\ f[i] = step[<<i, f[i - 1]>>]
            BY <1>1, <2>1 DEF Follows
        <3> QED BY <1>5, <3>1
    <2> QED BY <2>1, <2>2 DEF Follows
<1>7. f = [i \in 0 .. n |-> IF i = 0 THEN base ELSE Go(f[i - 1])]
    <2>1. \A i \in 0 .. n : f[i] = IF i = 0 THEN base ELSE Go(f[i - 1])
        BY <1>1, <1>6
    <2> QED BY <1>6, <2>1
<1>8. H = [i \in 0 .. n |-> IF i = 0 THEN base ELSE Go(H[i - 1])]
    BY <1>7
<1> HIDE DEF H
<1>9. \A i \in 0 .. n : H[i] = f[i]
    <2>1. H[0] = f[0]
        <3>1. 0 \in 0 .. n
            BY <1>1
        <3> QED BY <1>6, <1>8, <3>1
    <2>2. \A i \in 0 + 1 .. n : H[i - 1] = f[i - 1] => H[i] = f[i]
        <3> TAKE i \in 0 + 1 .. n
        <3>1. i \in 0 .. n /\ i # 0 /\ i \in 1 .. n
            BY <1>1
        <3>2. H[i] = Go(H[i - 1])
            BY <1>8, <3>1
        <3> QED BY <1>6, <3>1, <3>2
    <2>3. StayTogether(H, f, 0, n)
        BY <2>1, <2>2 DEF StayTogether
    <2> QED BY <1>1, <2>3, AgreeFrom
<1>10. ReadBy(f, text, cursor)
    BY <1>4, <1>6, <1>9 DEF ReadBy, n, base, Go
<1> QED BY <1>6, <1>10 DEF n, V

\* A line's end right behind j leaves room for no digit there.
LEMMA NothingRunsOn ==
    ASSUME NEW text \in Seq(STRING), NEW j \in 1 .. Len(text)
    PROVE  /\ EndsAfter(text, j) => ~ IsDigit(At(text, j + 1))
           /\ \A i \in 0 .. Len(text) : IsNumeral(text, i, j) => i < j /\ IsDigit(At(text, j))
           /\ \A i, words : IsWord(text, i, j, words) => ~ IsDigit(At(text, j + 1))
<1>1. Len(text) \in Nat
    BY PositionsOf
<1>2. ~ IsDigit(Space) /\ ~ IsDigit(LineEnd)
    BY DEF IsDigit, DigitValue, Space, LineEnd
<1>3. ASSUME EndsAfter(text, j) PROVE ~ IsDigit(At(text, j + 1))
    <2>1. PICK e \in j + 1 .. Len(text) + 1 : Blank(text, j, e - 1) /\ At(text, e) = LineEnd
        BY <1>3 DEF EndsAfter
    <2>2. e = j + 1 \/ j + 1 \in j + 1 .. e - 1
        BY <1>1
    <2>3. At(text, j + 1) \in {Space, LineEnd}
        BY <2>1, <2>2 DEF Blank
    <2> QED BY <1>2, <2>3
<1>4. ASSUME NEW i \in 0 .. Len(text), IsNumeral(text, i, j) PROVE i < j /\ IsDigit(At(text, j))
    <2>1. PICK s \in i .. j - 1 : \E t \in {s, s + 1} : t < j /\ AllDigits(text, t, j)
        BY <1>4 DEF IsNumeral
    <2>2. PICK t \in {s, s + 1} : t < j /\ AllDigits(text, t, j)
        BY <2>1
    <2>3. j \in t + 1 .. j /\ i < j
        BY <1>1, <2>1, <2>2
    <2> QED BY <2>2, <2>3 DEF AllDigits
<1>5. \A i, words : IsWord(text, i, j, words) => ~ IsDigit(At(text, j + 1))
    BY <1>2 DEF IsWord
<1> QED BY <1>3, <1>4, <1>5

\* The words without numbers.
LEMMA SimpleIsExact ==
    ASSUME NEW text \in Seq(STRING)
    PROVE  LET first == read_token(text, 1)
           IN  SimpleReadings(text)
                 = IF /\ first.word \in DOMAIN Keywords
                      /\ has_only_line_end_after_spaces(text, first.cursor)
                   THEN {[type |-> Keywords[first.word]]} ELSE {}
<1> DEFINE first == read_token(text, 1)
           ended == has_only_line_end_after_spaces(text, first.cursor)
<1>1. Len(text) \in Nat /\ DOMAIN text = 1 .. Len(text)
    BY PositionsOf
<1>2. \A w \in DOMAIN Keywords : w \notin {Space, LineEnd, NoWord}
    BY DEF Keywords, Space, LineEnd, NoWord
<1>3. ASSUME NEW w \in DOMAIN Keywords
      PROVE  (\E j \in DOMAIN text : IsWord(text, 0, j, {w}) /\ EndsAfter(text, j))
               <=> first.word = w /\ ended
    <2>3. /\ first.cursor \in 1 .. Len(text) + 1
          /\ first.word = w => /\ first.cursor - 1 \in 1 .. Len(text)
                               /\ IsWord(text, 0, first.cursor - 1, {w})
          /\ \A j \in 1 .. Len(text) :
                IsWord(text, 0, j, {w}) => first.word = w /\ first.cursor = j + 1
        BY <1>2, FirstIsWord
    <2> HIDE DEF first, ended
    <2>4. ASSUME NEW j \in DOMAIN text, IsWord(text, 0, j, {w}), EndsAfter(text, j)
          PROVE  first.word = w /\ ended
        <3>1. first.word = w /\ first.cursor = j + 1
            BY <1>1, <2>3, <2>4
        <3>2. has_only_line_end_after_spaces(text, j + 1)
            BY <1>1, <2>4, EndIsTested
        <3> QED BY <3>1, <3>2 DEF ended
    <2>5. ASSUME first.word = w, ended
          PROVE  \E j \in DOMAIN text : IsWord(text, 0, j, {w}) /\ EndsAfter(text, j)
        <3> DEFINE j == first.cursor - 1
        <3>1. j \in 1 .. Len(text) /\ j \in 0 .. Len(text) /\ j + 1 = first.cursor
            BY <1>1, <2>3, <2>5
        <3>2. IsWord(text, 0, j, {w})
            BY <2>3, <2>5
        <3> HIDE DEF j
        <3>3. EndsAfter(text, j)
            BY <2>5, <3>1, EndIsTested DEF ended
        <3> QED BY <1>1, <3>1, <3>2, <3>3
    <2> QED BY <2>4, <2>5
<1> HIDE DEF first, ended
<1>4. SimpleReadings(text) = {[type |-> Keywords[word]] : word \in {w \in DOMAIN Keywords :
                                    first.word = w /\ ended}}
    BY <1>3 DEF SimpleReadings
<1>5. SimpleReadings(text) = IF first.word \in DOMAIN Keywords /\ ended
                             THEN {[type |-> Keywords[first.word]]} ELSE {}
    BY <1>4
<1> QED BY <1>5 DEF first, ended

\* SET as the parser reads it and as the line can be read.
LEMMA SetIsExact ==
    ASSUME NEW text \in Seq(STRING)
    PROVE  LET first  == read_token(text, 1)
               parsed == ParseSet(text, first.cursor)
           IN  SetReadings(text)
                 = IF first.word = "SET" /\ parsed # Invalid THEN {parsed} ELSE {}
<1> DEFINE first  == read_token(text, 1)
           parsed == ParseSet(text, first.cursor)
           name   == read_token(text, first.cursor)
           number == parse_int32(text, name.cursor)
           ended  == has_only_line_end_after_spaces(text, number.cursor)
           Parts(c) == /\ IsWord(text, 0, c[1], {"SET"})
                       /\ IsWord(text, c[1], c[2], DOMAIN ThresholdNames)
                       /\ IsNumber(text, c[2], c[3]) /\ EndsAfter(text, c[3])
           Reading3(c) == [type    |-> "SET_THRESHOLD",
                           level   |-> ThresholdNames[text[c[2]]].level,
                           channel |-> ThresholdNames[text[c[2]]].channel,
                           value   |-> NumeralValue(text, c[2], c[3])]
<1>1. Len(text) \in Nat /\ DOMAIN text = 1 .. Len(text)
    BY PositionsOf
<1>2. "SET" \notin {Space, LineEnd, NoWord}
    BY DEF Space, LineEnd, NoWord
<1>3. \A w \in DOMAIN ThresholdNames : w \notin {Space, LineEnd, NoWord}
    BY ParserAssumption
<1>4. SetReadings(text) = {Reading3(c) : c \in {d \in [1 .. 3 -> DOMAIN text] : Parts(d)}}
    BY DEF SetReadings
<1>5. /\ parsed = IF name.word \in DOMAIN ThresholdNames /\ number.ok /\ ended
                  THEN [type |-> "SET_THRESHOLD", level |-> ThresholdNames[name.word].level,
                        channel |-> ThresholdNames[name.word].channel, value |-> number.value]
                  ELSE Invalid
      /\ parsed # Invalid <=> name.word \in DOMAIN ThresholdNames /\ number.ok /\ ended
    BY DEF ParseSet, Invalid
<1>6. /\ first.cursor \in 1 .. Len(text) + 1
      /\ first.word = "SET" => /\ first.cursor - 1 \in 1 .. Len(text)
                               /\ IsWord(text, 0, first.cursor - 1, {"SET"})
      /\ \A j \in 1 .. Len(text) :
            IsWord(text, 0, j, {"SET"}) => first.word = "SET" /\ first.cursor = j + 1
    BY <1>2, FirstIsWord
<1> HIDE DEF first, parsed
\* A way to read the line as SET is the way the parser reads it.
<1>7. ASSUME NEW c \in [1 .. 3 -> DOMAIN text], Parts(c)
      PROVE  first.word = "SET" /\ parsed # Invalid /\ parsed = Reading3(c)
    <2>1. c[1] \in 1 .. Len(text) /\ c[2] \in 1 .. Len(text) /\ c[3] \in 1 .. Len(text)
        BY <1>1
    <2>2. first.word = "SET" /\ first.cursor = c[1] + 1
        BY <1>6, <1>7, <2>1
    <2>3. At(text, c[2]) = text[c[2]] /\ text[c[2]] \in DOMAIN ThresholdNames
          /\ IsWord(text, c[1], c[2], {text[c[2]]})
        <3>1. At(text, c[2]) = text[c[2]]
            BY <2>1, PositionsOf
        <3>2. /\ At(text, c[2]) \in DOMAIN ThresholdNames
              /\ IsWord(text, c[1], c[2], {At(text, c[2])})
            BY <1>7, WordOfItsOwn
        <3> QED BY <3>1, <3>2
    <2>4. name.word = text[c[2]] /\ name.cursor = c[2] + 1
        <3> DEFINE cursor == c[1] + 1
        <3>1. cursor \in 1 .. Len(text) + 1 /\ cursor - 1 = c[1] /\ first.cursor = cursor
            BY <1>1, <2>1, <2>2
        <3> HIDE DEF cursor
        <3>2. IsWord(text, cursor - 1, c[2], {text[c[2]]})
            BY <2>3, <3>1
        <3>3. text[c[2]] \notin {Space, LineEnd, NoWord}
            BY <1>3, <2>3
        <3> DEFINE w == text[c[2]]
                   j == c[2]
        <3> HIDE DEF w, j, name
        <3>4. j \in 1 .. Len(text) /\ IsWord(text, cursor - 1, j, {w})
              /\ w \notin {Space, LineEnd, NoWord}
            BY <2>1, <3>2, <3>3 DEF w, j
        <3>5. LET token == read_token(text, cursor)
              IN  /\ token.cursor \in cursor .. Len(text) + 1
                  /\ token.word = w =>
                       /\ token.cursor - 1 \in cursor .. Len(text)
                       /\ IsWord(text, cursor - 1, token.cursor - 1, {w})
                  /\ \A k \in 1 .. Len(text) :
                       IsWord(text, cursor - 1, k, {w}) => token.word = w /\ token.cursor = k + 1
            <4>1. cursor \in 1 .. Len(text) + 1
                BY <3>1
            <4>2. w \notin {Space, LineEnd, NoWord}
                BY <3>4
            <4> QED BY <4>1, <4>2, TokenIsWord
        <3>6. read_token(text, cursor).word = w /\ read_token(text, cursor).cursor = j + 1
            BY <3>4, <3>5
        <3> QED BY <3>1, <3>6 DEF name, w, j
    <2> HIDE DEF name
    <2>5. IsNumeral(text, c[2], c[3]) /\ InRange(NumeralValue(text, c[2], c[3]))
          /\ EndsAfter(text, c[3])
        BY <1>7 DEF IsNumber
    <2>6. NumberStands(text, c[2], c[3]) /\ c[2] < c[3]
        <3>1. c[2] \in 0 .. Len(text)
            BY <1>1, <2>1
        <3> QED BY <2>1, <2>5, <3>1, NothingRunsOn DEF NumberStands
    <2>7. number.ok /\ number.cursor = c[3] + 1
          /\ number.value = NumeralValue(text, c[2], c[3])
        <3> DEFINE i == c[2]
        <3>1. i \in 0 .. Len(text) /\ c[3] \in i + 1 .. Len(text) /\ name.cursor = i + 1
              /\ NumberStands(text, i, c[3])
            BY <1>1, <2>1, <2>4, <2>6
        <3> HIDE DEF i
        <3>2. number.ok /\ number.cursor = c[3] + 1
            BY <3>1, NumberIsRead
        <3>3. number.value = NumeralValue(text, i, number.cursor - 1)
            BY <3>1, <3>2, NumberIsRead
        <3>4. number.cursor - 1 = c[3]
            BY <2>1, <3>2
        <3> QED BY <3>2, <3>3, <3>4 DEF i
    <2> HIDE DEF number
    <2>8. ended
        <3>1. c[3] \in 0 .. Len(text)
            BY <1>1, <2>1
        <3>2. has_only_line_end_after_spaces(text, c[3] + 1)
            BY <2>5, <3>1, EndIsTested
        <3> QED BY <2>7, <3>2
    <2> HIDE DEF ended
    <2> QED BY <1>5, <2>2, <2>3, <2>4, <2>7, <2>8
\* What the parser reads as SET, can be read so.
<1>8. ASSUME first.word = "SET", parsed # Invalid
      PROVE  \E c \in [1 .. 3 -> DOMAIN text] : Parts(c)
    <2> DEFINE p == first.cursor - 1
               q == name.cursor - 1
               r == number.cursor - 1
    <2>1. p \in 1 .. Len(text) /\ p + 1 = first.cursor /\ IsWord(text, 0, p, {"SET"})
        BY <1>1, <1>6, <1>8
    <2>2. name.word \in DOMAIN ThresholdNames /\ number.ok /\ ended
        BY <1>5, <1>8
    <2>3. q \in 1 .. Len(text) /\ q + 1 = name.cursor
          /\ IsWord(text, p, q, {name.word})
        <3>1. first.cursor \in 1 .. Len(text) + 1
            BY <1>1, <2>1
        <3>2. name.word \notin {Space, LineEnd, NoWord}
            BY <1>3, <2>2
        <3> DEFINE w == name.word
                   cursor == first.cursor
        <3> HIDE DEF w, cursor
        <3>3. LET token == read_token(text, cursor)
              IN  /\ token.cursor \in cursor .. Len(text) + 1
                  /\ token.word = w =>
                       /\ token.cursor - 1 \in cursor .. Len(text)
                       /\ IsWord(text, cursor - 1, token.cursor - 1, {w})
                  /\ \A k \in 1 .. Len(text) :
                       IsWord(text, cursor - 1, k, {w}) => token.word = w /\ token.cursor = k + 1
            <4>1. cursor \in 1 .. Len(text) + 1
                BY <3>1 DEF cursor
            <4>2. w \notin {Space, LineEnd, NoWord}
                BY <3>2 DEF w
            <4> QED BY <4>1, <4>2, TokenIsWord
        <3>4. /\ name.cursor \in first.cursor .. Len(text) + 1
              /\ name.cursor - 1 \in first.cursor .. Len(text)
              /\ IsWord(text, first.cursor - 1, name.cursor - 1, {name.word})
            BY <3>3 DEF w, cursor
        <3> QED BY <1>1, <2>1, <3>1, <3>4
    <2> HIDE DEF name, p
    <2>4. r \in 1 .. Len(text) /\ r + 1 = number.cursor /\ NumberStands(text, q, r)
        <3> DEFINE i == q
        <3>1. i \in 0 .. Len(text) /\ name.cursor = i + 1 /\ i = q
            BY <1>1, <2>3
        <3> HIDE DEF i, q
        <3>2. /\ number.cursor \in i + 1 .. Len(text) + 1
              /\ number.cursor - 1 \in i + 1 .. Len(text)
              /\ NumberStands(text, i, number.cursor - 1)
            BY <2>2, <3>1, NumberIsRead
        <3> QED BY <1>1, <3>1, <3>2
    <2> HIDE DEF number
    <2>5. EndsAfter(text, r)
        <3>1. r \in 0 .. Len(text)
            BY <1>1, <2>4
        <3> HIDE DEF r
        <3> QED BY <2>2, <2>4, <3>1, EndIsTested
    <2> HIDE DEF q, r
    <2>6. IsWord(text, p, q, DOMAIN ThresholdNames) /\ ~ IsDigit(At(text, q + 1))
        <3>1. At(text, q) = name.word
            BY <2>3 DEF IsWord
        <3> QED BY <2>2, <2>3, <3>1, WordOfItsOwn, NothingRunsOn
    <2>7. IsNumber(text, q, r)
        BY <2>4, <2>6 DEF IsNumber, NumberStands
    <2> DEFINE c == [k \in 1 .. 3 |-> IF k = 1 THEN p ELSE IF k = 2 THEN q ELSE r]
    <2>8. c \in [1 .. 3 -> DOMAIN text] /\ c[1] = p /\ c[2] = q /\ c[3] = r
        BY <1>1, <2>1, <2>3, <2>4
    <2> HIDE DEF c
    <2>9. Parts(c)
        BY <2>1, <2>5, <2>6, <2>7, <2>8
    <2> QED BY <2>8, <2>9
<1> HIDE DEF name, number, ended, Parts, Reading3
<1>9. SetReadings(text) = IF first.word = "SET" /\ parsed # Invalid THEN {parsed} ELSE {}
    BY <1>4, <1>7, <1>8
<1> QED BY <1>9 DEF first, parsed

\* SAMPLE likewise: cut by cut by induction over its numbers.
LEMMA SampleIsExact ==
    ASSUME NEW text \in Seq(STRING)
    PROVE  LET first  == read_token(text, 1)
               parsed == ParseSample(text, first.cursor)
           IN  SampleReadings(text)
                 = IF first.word = "SAMPLE" /\ parsed # Invalid THEN {parsed} ELSE {}
<1> DEFINE n      == Len(SampleFields)
           first  == read_token(text, 1)
           parsed == ParseSample(text, first.cursor)
           result == parse_sample(text, first.cursor)
           ended  == has_only_line_end_after_spaces(text, result[n].cursor)
           Parts(c) == /\ IsWord(text, 0, c[0], {"SAMPLE"})
                       /\ \A i \in 1 .. n : IsNumber(text, c[i - 1], c[i])
                       /\ EndsAfter(text, c[n])
           Sampled(c) == [type   |-> "SET_SAMPLE",
                          sample |-> [ch \in Channel |->
                                        NumeralValue(text, c[FieldOf(ch) - 1], c[FieldOf(ch)])]]
<1>1. Len(text) \in Nat /\ DOMAIN text = 1 .. Len(text)
    BY PositionsOf
<1>2. n \in Nat /\ \A ch \in Channel : FieldOf(ch) \in 1 .. n
    <2>1. n \in Nat /\ DOMAIN SampleFields = 1 .. n
        BY ParserAssumption
    <2>2. \A ch \in Channel : \E i \in DOMAIN SampleFields : SampleFields[i] = ch
        BY ParserAssumption
    <2> QED BY <2>1, <2>2 DEF FieldOf
<1>3. SampleReadings(text) = {Sampled(c) : c \in {d \in [0 .. n -> DOMAIN text] : Parts(d)}}
    BY DEF SampleReadings
<1>4. /\ parsed = IF result[n].ok /\ ended
                  THEN [type |-> "SET_SAMPLE",
                        sample |-> [ch \in Channel |-> result[FieldOf(ch)].value]]
                  ELSE Invalid
      /\ parsed # Invalid <=> result[n].ok /\ ended
    BY DEF ParseSample, Invalid
<1>5. "SAMPLE" \notin {Space, LineEnd, NoWord}
    BY DEF Space, LineEnd, NoWord
<1>6. /\ first.cursor \in 1 .. Len(text) + 1
      /\ first.word = "SAMPLE" => /\ first.cursor - 1 \in 1 .. Len(text)
                                  /\ IsWord(text, 0, first.cursor - 1, {"SAMPLE"})
      /\ \A j \in 1 .. Len(text) :
            IsWord(text, 0, j, {"SAMPLE"}) => first.word = "SAMPLE" /\ first.cursor = j + 1
    BY <1>5, FirstIsWord
<1> HIDE DEF first, parsed, n
<1>7. PICK read \in [0 .. n -> [ok : BOOLEAN, value : Int, cursor : 1 .. Len(text) + 1]] :
        ReadBy(read, text, first.cursor)
    BY <1>6, SampleIsRead DEF n
<1>8. /\ read[0].ok /\ read[0].cursor = first.cursor
      /\ \A i \in 1 .. n : read[i] = IF read[i - 1].ok THEN parse_int32(text, read[i - 1].cursor)
                                     ELSE read[i - 1]
      /\ \A i \in 0 .. n : result[i] = read[i]
      /\ \A i \in 0 .. n : read[i].cursor \in 1 .. Len(text) + 1
    BY <1>7 DEF ReadBy, n
<1>9. n \in 0 .. n
    BY <1>2
<1> HIDE DEF result
\* A way to read the line as SAMPLE is the way the parser reads it.
<1>10. ASSUME NEW c \in [0 .. n -> DOMAIN text], Parts(c)
       PROVE  first.word = "SAMPLE" /\ parsed # Invalid /\ parsed = Sampled(c)
    <2>1. \A i \in 0 .. n : c[i] \in 1 .. Len(text)
        BY <1>1
    <2>2. first.word = "SAMPLE" /\ first.cursor = c[0] + 1
        <3>1. c[0] \in 1 .. Len(text)
            BY <1>2, <2>1
        <3> QED BY <1>6, <1>10, <3>1
    <2> DEFINE Reached(i) == /\ read[i].ok /\ read[i].cursor = c[i] + 1
                             /\ i # 0 => read[i].value = NumeralValue(text, c[i - 1], c[i])
    <2>3. ASSUME NEW i \in 0 .. n - 1, Reached(i) PROVE Reached(i + 1)
        <3> DEFINE p == c[i]
                   q == c[i + 1]
                   number == parse_int32(text, p + 1)
        <3>1. i \in 0 .. n /\ i + 1 \in 0 .. n /\ i + 1 \in 1 .. n /\ (i + 1) - 1 = i
            BY <1>2
        <3>2. p \in 1 .. Len(text) /\ q \in 1 .. Len(text) /\ p \in 0 .. Len(text)
            BY <1>1, <2>1, <3>1
        <3>3. IsNumber(text, p, q)
            BY <1>10, <3>1
        <3>4. read[i + 1] = number
            BY <1>8, <2>3, <3>1
        <3>5. ~ IsDigit(At(text, q + 1))
            <4>1. CASE i + 1 = n
                <5>1. EndsAfter(text, q)
                    BY <1>10, <4>1
                <5> QED BY <3>2, <5>1, NothingRunsOn
            <4>2. CASE i + 1 # n
                <5>1. i + 2 \in 1 .. n /\ (i + 2) - 1 = i + 1
                    BY <1>2, <4>2
                <5>2. IsNumber(text, q, c[i + 2])
                    BY <1>10, <5>1
                <5>3. IsDigit(At(text, q))
                    BY <3>2, <3>3, NothingRunsOn DEF IsNumber
                <5> QED BY <5>2, <5>3 DEF IsNumber
            <4> QED BY <4>1, <4>2
        <3> HIDE DEF p, q
        <3>6. NumberStands(text, p, q) /\ q \in p + 1 .. Len(text)
            <4>1. IsNumeral(text, p, q) /\ InRange(NumeralValue(text, p, q))
                BY <3>3 DEF IsNumber
            <4>2. p < q
                BY <3>2, <4>1, NothingRunsOn
            <4> QED BY <1>1, <3>2, <3>5, <4>1, <4>2 DEF NumberStands
        <3>7. number.ok /\ number.cursor = q + 1
            BY <3>2, <3>6, NumberIsRead
        <3>8. number.value = NumeralValue(text, p, number.cursor - 1)
            BY <3>2, <3>7, NumberIsRead
        <3>9. number.cursor - 1 = q
            BY <3>2, <3>7
        <3> HIDE DEF number
        <3> QED BY <3>1, <3>4, <3>7, <3>8, <3>9 DEF p, q
    <2>4. \A i \in 0 .. n : Reached(i)
        <3> DEFINE S == {i \in Nat : i <= n => Reached(i)}
        <3>1. 0 \in S
            BY <1>8, <2>2
        <3> HIDE DEF Reached
        <3>2. ASSUME NEW i \in Nat, i >= 0, i \in S PROVE i + 1 \in S
            <4> SUFFICES ASSUME i + 1 <= n PROVE Reached(i + 1)
                OBVIOUS
            <4>1. i \in 0 .. n - 1 /\ i <= n
                BY <1>2
            <4>2. Reached(i)
                BY <3>2, <4>1
            <4> QED BY <2>3, <4>1, <4>2
        <3> HIDE DEF S
        <3>3. 0 \in Nat /\ \A i \in Nat : i >= 0 => i \in S
            BY <3>1, <3>2, InductionFrom
        <3> QED BY <1>2, <3>3 DEF S
    <2>5. result[n].ok /\ ended
        <3> DEFINE q == c[n]
        <3>1. result[n].ok /\ result[n].cursor = q + 1
            BY <1>8, <1>9, <2>4
        <3>2. q \in 0 .. Len(text) /\ EndsAfter(text, q)
            BY <1>1, <1>9, <1>10, <2>1
        <3> HIDE DEF q
        <3>3. has_only_line_end_after_spaces(text, q + 1)
            BY <3>2, EndIsTested
        <3> QED BY <3>1, <3>3
    <2>6. \A ch \in Channel :
            result[FieldOf(ch)].value = NumeralValue(text, c[FieldOf(ch) - 1], c[FieldOf(ch)])
        <3> TAKE ch \in Channel
        <3>1. FieldOf(ch) \in 0 .. n /\ FieldOf(ch) # 0
            BY <1>2
        <3> QED BY <1>8, <2>4, <3>1
    <2> HIDE DEF ended
    <2> QED BY <1>4, <2>2, <2>5, <2>6
\* What the parser reads as SAMPLE, can be read so.
<1>11. ASSUME first.word = "SAMPLE", parsed # Invalid
       PROVE  \E c \in [0 .. n -> DOMAIN text] : Parts(c)
    <2>1. result[n].ok /\ ended
        BY <1>4, <1>11
    <2>2. \A i \in 0 .. n : read[i].ok
        <3> SUFFICES ASSUME NEW m \in 0 .. n, ~ read[m].ok PROVE FALSE
            OBVIOUS
        <3> DEFINE S == {i \in Nat : i <= n => ~ read[i].ok}
        <3>1. m \in S /\ m \in Nat
            BY <1>2
        <3>2. ASSUME NEW i \in Nat, i >= m, i \in S PROVE i + 1 \in S
            <4> SUFFICES ASSUME i + 1 <= n PROVE ~ read[i + 1].ok
                OBVIOUS
            <4>1. i + 1 \in 1 .. n /\ (i + 1) - 1 = i /\ ~ read[i].ok
                BY <1>2, <3>2
            <4> QED BY <1>8, <4>1
        <3> HIDE DEF S
        <3>3. \A i \in Nat : i >= m => i \in S
            BY <3>1, <3>2, InductionFrom
        <3>4. ~ read[n].ok
            BY <1>2, <3>3 DEF S
        <3> QED BY <1>8, <1>9, <2>1, <3>4
    <2> DEFINE c == [i \in 0 .. n |-> read[i].cursor - 1]
    <2>3. \A i \in 0 .. n : c[i] = read[i].cursor - 1 /\ c[i] \in Int /\ c[i] + 1 = read[i].cursor
                            /\ c[i] \in 0 .. Len(text)
        BY <1>1, <1>8
    <2>4. DOMAIN c = 0 .. n /\ c = [i \in 0 .. n |-> c[i]]
        OBVIOUS
    <2> HIDE DEF c
    <2>5. \A i \in 1 .. n : /\ NumberStands(text, c[i - 1], c[i])
                            /\ c[i] \in 1 .. Len(text)
        <3> TAKE i \in 1 .. n
        <3> DEFINE p == c[i - 1]
                   number == parse_int32(text, p + 1)
        <3>1. i \in 0 .. n /\ i - 1 \in 0 .. n
            BY <1>2
        <3>2. p \in 0 .. Len(text) /\ p + 1 = read[i - 1].cursor
            BY <2>3, <3>1
        <3>3. read[i] = number /\ read[i].ok
            BY <1>8, <2>2, <3>1, <3>2
        <3> HIDE DEF p
        <3>4. number.ok /\ c[i] = number.cursor - 1
            BY <2>3, <3>1, <3>3
        <3>5. number.cursor - 1 \in p + 1 .. Len(text) /\ NumberStands(text, p, number.cursor - 1)
            BY <3>2, <3>4, NumberIsRead
        <3> HIDE DEF number
        <3> QED BY <1>1, <3>2, <3>4, <3>5 DEF p
    <2>6. c[0] \in 1 .. Len(text) /\ IsWord(text, 0, c[0], {"SAMPLE"})
        <3>1. c[0] = first.cursor - 1
            BY <1>2, <1>8, <2>3
        <3> QED BY <1>6, <1>11, <3>1
    <2>7. \A i \in 0 .. n : c[i] \in 1 .. Len(text)
        BY <1>2, <2>5, <2>6
    <2>8. \A i \in 1 .. n : IsNumber(text, c[i - 1], c[i])
        <3> TAKE i \in 1 .. n
        <3>1. ~ IsDigit(At(text, c[i - 1] + 1))
            <4>1. CASE i = 1
                <5> DEFINE p == c[0]
                <5>1. p \in 1 .. Len(text) /\ IsWord(text, 0, p, {"SAMPLE"})
                    BY <2>6
                <5> HIDE DEF p
                <5>2. ~ IsDigit(At(text, p + 1))
                    BY <5>1, NothingRunsOn
                <5> QED BY <4>1, <5>2 DEF p
            <4>2. CASE i # 1
                <5>1. i - 1 \in 1 .. n
                    BY <1>2, <4>2
                <5> QED BY <2>5, <5>1 DEF NumberStands
            <4> QED BY <4>1, <4>2
        <3> QED BY <2>5, <3>1 DEF IsNumber, NumberStands
    <2>9. EndsAfter(text, c[n])
        <3> DEFINE q == c[n]
        <3>1. q \in 0 .. Len(text) /\ q + 1 = result[n].cursor
            BY <1>8, <1>9, <2>3
        <3> HIDE DEF q
        <3>2. has_only_line_end_after_spaces(text, q + 1)
            BY <2>1, <3>1
        <3>3. EndsAfter(text, q)
            BY <3>1, <3>2, EndIsTested
        <3> QED BY <3>3 DEF q
    <2>10. c \in [0 .. n -> DOMAIN text]
        BY <1>1, <2>4, <2>7
    <2> QED BY <2>6, <2>8, <2>9, <2>10
<1> HIDE DEF ended, Parts, Sampled
<1>12. SampleReadings(text) = IF first.word = "SAMPLE" /\ parsed # Invalid THEN {parsed} ELSE {}
    BY <1>3, <1>10, <1>11
<1> QED BY <1>12 DEF first, parsed

\* Any line is taken for a command exactly if it can be read as one, and for the
\* only one it can be read as.
THEOREM ParserReadsExactly ==
    ASSUME NEW text \in Seq(STRING)
    PROVE  Readings(text) = IF command_parse(text) = Invalid THEN {} ELSE {command_parse(text)}
<1> DEFINE first  == read_token(text, 1)
           word   == first.word
           ended  == has_only_line_end_after_spaces(text, first.cursor)
           plain  == [type |-> Keywords[word]]
           set    == ParseSet(text, first.cursor)
           sample == ParseSample(text, first.cursor)
<1>1. SimpleReadings(text) = IF word \in DOMAIN Keywords /\ ended THEN {plain} ELSE {}
    BY SimpleIsExact
<1>2. SetReadings(text) = IF word = "SET" /\ set # Invalid THEN {set} ELSE {}
    BY SetIsExact
<1>3. SampleReadings(text) = IF word = "SAMPLE" /\ sample # Invalid THEN {sample} ELSE {}
    BY SampleIsExact
<1>4. command_parse(text) = CASE word \in DOMAIN Keywords /\ ended -> plain
                              [] word = "SET"    -> set
                              [] word = "SAMPLE" -> sample
                              [] OTHER -> Invalid
    BY DEF command_parse
<1>5. "SET" \notin DOMAIN Keywords /\ "SAMPLE" \notin DOMAIN Keywords /\ "SET" # "SAMPLE"
    BY DEF Keywords
<1>6. word \in DOMAIN Keywords => plain # Invalid
    BY DEF Keywords, Invalid
<1> HIDE DEF word, ended, plain, set, sample
<1>7. CASE word \in DOMAIN Keywords /\ ended
    BY <1>1, <1>2, <1>3, <1>4, <1>5, <1>6, <1>7 DEF Readings
<1>8. CASE word = "SET"
    BY <1>1, <1>2, <1>3, <1>4, <1>5, <1>8 DEF Readings
<1>9. CASE word = "SAMPLE"
    BY <1>1, <1>2, <1>3, <1>4, <1>5, <1>9 DEF Readings
<1>10. CASE ~ (word \in DOMAIN Keywords /\ ended) /\ word # "SET" /\ word # "SAMPLE"
    BY <1>1, <1>2, <1>3, <1>4, <1>10 DEF Readings
<1> QED BY <1>7, <1>8, <1>9, <1>10

-------------------------------------------------------------------------------
(* The session behind the parser                                           *)

\* Typing lines is issuing the commands they parse to, so what is proved of the
\* session holds of the text protocol (serial_command_service.c:78-103).
THEOREM LinesImplementSession == LineSpec => Spec
<1> DEFINE LineInv == line \in Lines \cup {<<>>}
<1>1. LineInit => Init /\ LineInv
    BY DEF LineInit
<1>2. LineInv /\ [LineNext]_lineVars => LineInv' /\ [Next]_vars
    <2> SUFFICES ASSUME LineInv, [LineNext]_lineVars PROVE LineInv' /\ [Next]_vars
        OBVIOUS
    <2>1. CASE LineCompletes
        BY <2>1 DEF LineCompletes
    <2>2. CASE FeedLine
        <3>1. line \in Lines
            BY <2>2 DEF FeedLine
        <3>2. command_parse(line) \in Commands
            BY <3>1, LinesAssumption
        <3> QED
            BY <2>2, <3>2 DEF FeedLine, Next
    <2>3. CASE UNCHANGED lineVars
        BY <2>3 DEF lineVars
    <2> QED
        BY <2>1, <2>2, <2>3 DEF LineNext
<1> QED
    BY <1>1, <1>2, PTL DEF LineSpec, Spec

\* Whatever is typed: a line is taken for a command exactly if it can be read as
\* one, and no digit is lost or wrapped (command_parser.c:119-265).
THEOREM LinesAreReadExactly == LineSpec => []LineIsReadExactly
<1> DEFINE LineInv == line \in Lines \cup {<<>>}
<1>1. LineInit => LineInv
    BY DEF LineInit
<1>2. LineInv /\ [LineNext]_lineVars => LineInv'
    BY DEF LineNext, LineCompletes, FeedLine, lineVars
<1>3. LineInv => LineIsReadExactly
    <2> SUFFICES ASSUME line \in Lines
                 PROVE  IF command_parse(line) = Invalid THEN ReadingsOf[line] = {}
                        ELSE ReadingsOf[line] = {command_parse(line)}
        BY DEF LineIsReadExactly
    <2>1. ReadingsOf[line] = Readings(line)
        BY DEF ReadingsOf
    <2>2. line \in Seq(STRING)
        BY LinesAssumption
    <2>3. Readings(line)
            = IF command_parse(line) = Invalid THEN {} ELSE {command_parse(line)}
        BY <2>2, ParserReadsExactly
    <2> QED BY <2>1, <2>3
<1> QED BY <1>1, <1>2, <1>3, PTL DEF LineSpec

===============================================================================
