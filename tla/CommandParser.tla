----------------------------- MODULE CommandParser -----------------------------
(***************************************************************************)
(* drivers/src/command_parser.c: the reading of one line as a command_t,   *)
(* from left to right and without going back.                              *)
(*                                                                         *)
(* A line is a sequence of symbols: a blank, a line end, a digit, a sign,  *)
(* or a whole word; the cursor is a position in it.  A token is a run of   *)
(* symbols between blanks, so a word with anything next to it is no        *)
(* command and no name.  The 32 bytes of the token buffer are not          *)
(* modelled: a token that does not fit is longer than every word, and both *)
(* ends of it make the line invalid.                                       *)
(***************************************************************************)
EXTENDS CommandHandler, Sequences

CONSTANTS
    ThresholdNames,     \* what each threshold name of the protocol stands for
    SampleFields,       \* the channels in the order of SAMPLE's numbers
    IntMax              \* INT32_MAX

Space   == " "
LineEnd == "end of line"
Signs   == {"-", "+"}

DigitValue == [d \in {"0", "1", "2", "3", "4", "5", "6", "7", "8", "9"} |->
    CASE d = "0" -> 0 [] d = "1" -> 1 [] d = "2" -> 2 [] d = "3" -> 3 [] d = "4" -> 4
      [] d = "5" -> 5 [] d = "6" -> 6 [] d = "7" -> 7 [] d = "8" -> 8 [] d = "9" -> 9]

IsDigit(symbol) == symbol \in DOMAIN DigitValue

\* What a token is that is no single word: none, or several symbols run together.
NoWord == ""

ASSUME ParserAssumption ==
    /\ \A name \in DOMAIN ThresholdNames :
         /\ name \notin {Space, LineEnd, NoWord}
         /\ ThresholdNames[name] \in [level : {"warning", "alarm"}, channel : Channel]
    /\ SampleFields \in Seq(Channel)
    /\ \A c \in Channel : \E i \in DOMAIN SampleFields :
         \A k \in DOMAIN SampleFields : SampleFields[k] = c <=> k = i
    /\ IntMax \in Nat /\ IntMax >= 9

-------------------------------------------------------------------------------
\* The symbol under the cursor; behind the last one a line ends.
At(text, cursor) == IF cursor \in DOMAIN text THEN text[cursor] ELSE LineEnd

\* Where a loop over these symbols stops that starts at the cursor.
Stop(text, cursor, symbols) ==
    CHOOSE end \in cursor .. Len(text) + 1 :
        /\ At(text, end) \notin symbols
        /\ \A k \in cursor .. end - 1 : At(text, k) \in symbols

skip_spaces(text, cursor) == Stop(text, cursor, {Space})

read_token(text, cursor) ==
    LET start == skip_spaces(text, cursor)
        end   == Stop(text, start, {text[k] : k \in DOMAIN text} \ {Space, LineEnd})
    IN  [word |-> IF end = start + 1 THEN At(text, start) ELSE NoWord, cursor |-> end]

has_only_line_end_after_spaces(text, cursor) == At(text, skip_spaces(text, cursor)) = LineEnd

-------------------------------------------------------------------------------
\* The largest magnitude: the negative numbers have one more.
Limit(negative) == IF negative THEN IntMax + 1 ELSE IntMax

\* Tested before the digit is taken in, so that nothing wraps.
HasRoomFor(parsed, digit, limit) == parsed <= (limit - digit) \div 10

Overflow == -1

\* Faulty variant: one bound for both signs.
AppendOneBound(parsed, digit, negative) ==
    IF parsed = Overflow \/ ~ HasRoomFor(parsed, digit, IntMax) THEN Overflow
    ELSE parsed * 10 + digit

AppendDigit(parsed, digit, negative) ==
    IF parsed = Overflow \/ ~ HasRoomFor(parsed, digit, Limit(negative)) THEN Overflow
    ELSE parsed * 10 + digit

\* The digits from first up to end: what is taken of them with the cursor at k is
\* taken[k].
take_digits(text, first, end, negative) ==
    LET taken[k \in first .. end] ==
            IF k = first THEN 0
            ELSE AppendDigit(taken[k - 1], DigitValue[text[k - 1]], negative)
    IN  taken[end]

\* One number; ends at the first symbol that is no digit, so a sign may follow at
\* once.
parse_int32(text, cursor) ==
    LET start    == skip_spaces(text, cursor)
        negative == At(text, start) = "-"
        first    == IF At(text, start) \in Signs THEN start + 1 ELSE start
        end      == Stop(text, first, DOMAIN DigitValue)
        parsed   == take_digits(text, first, end, negative)
    IN  [ok     |-> first < end /\ parsed # Overflow,
         value  |-> IF negative THEN - parsed ELSE parsed,
         cursor |-> end]

\* SAMPLE's numbers one after the other; the first that fails ends the reading.
parse_sample(text, cursor) ==
    LET read[i \in 0 .. Len(SampleFields)] ==
            IF i = 0 THEN [ok |-> TRUE, value |-> 0, cursor |-> cursor]
            ELSE LET before == read[i - 1]
                 IN  IF before.ok THEN parse_int32(text, before.cursor) ELSE before
    IN  read

FieldOf(channel) == CHOOSE i \in DOMAIN SampleFields : SampleFields[i] = channel

Invalid == [type |-> "INVALID"]

Keywords == [word \in {"STATUS?", "CONFIG?", "CLEAR_ALARM"} |->
    CASE word = "STATUS?" -> "GET_STATUS"
      [] word = "CONFIG?" -> "GET_CONFIG"
      [] word = "CLEAR_ALARM" -> "CLEAR_ALARM"]

ParseSet(text, cursor) ==
    LET name   == read_token(text, cursor)
        number == parse_int32(text, name.cursor)
    IN  IF /\ name.word \in DOMAIN ThresholdNames
           /\ number.ok /\ has_only_line_end_after_spaces(text, number.cursor)
        THEN [type |-> "SET_THRESHOLD", level |-> ThresholdNames[name.word].level,
              channel |-> ThresholdNames[name.word].channel, value |-> number.value]
        ELSE Invalid

ParseSample(text, cursor) ==
    LET read == parse_sample(text, cursor)
        last == read[Len(SampleFields)]
    IN  IF last.ok /\ has_only_line_end_after_spaces(text, last.cursor)
        THEN [type |-> "SET_SAMPLE", sample |-> [c \in Channel |-> read[FieldOf(c)].value]]
        ELSE Invalid

command_parse(text) ==
    LET first == read_token(text, 1)
    IN  CASE /\ first.word \in DOMAIN Keywords
             /\ has_only_line_end_after_spaces(text, first.cursor)
                -> [type |-> Keywords[first.word]]
          [] first.word = "SET"    -> ParseSet(text, first.cursor)
          [] first.word = "SAMPLE" -> ParseSample(text, first.cursor)
          [] OTHER -> Invalid

===============================================================================
