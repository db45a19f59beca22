------------------------------ MODULE CommandLine ------------------------------
(***************************************************************************)
(* The text protocol as its user meets it: the parser in front of the      *)
(* command session.  A line waits in the reader's buffer until the service *)
(* parses it and answers (app/src/serial_command_service.c:78-103).        *)
(***************************************************************************)
EXTENDS CommandSession, CommandParser

CONSTANT Lines      \* what may be typed; serial_line hands over no empty line

ASSUME LinesAssumption ==
    /\ Lines \subseteq Seq(STRING) /\ <<>> \notin Lines
    /\ \A text \in Lines : command_parse(text) \in Commands

VARIABLE line       \* the completed line, empty when there is none

lineVars == <<vars, line>>

LineInit == Init /\ line = <<>>

LineCompletes ==
    /\ line = <<>>
    /\ line' \in Lines
    /\ UNCHANGED vars

FeedLine ==
    /\ line # <<>>
    /\ Feed(command_parse(line))
    /\ line' = <<>>

LineNext == LineCompletes \/ FeedLine

LineSpec == LineInit /\ [][LineNext]_lineVars

-------------------------------------------------------------------------------
(* What a line means, said of the line as a whole and not of a way to read *)
(* it.  A segment is the part of it behind position i up to position j.    *)

Blank(text, i, j) == \A k \in i + 1 .. j : At(text, k) = Space

\* Behind i nothing follows up to the first line end.
EndsAfter(text, i) ==
    \E e \in i + 1 .. Len(text) + 1 : Blank(text, i, e - 1) /\ At(text, e) = LineEnd

\* Blanks and a word with nothing next to it.
IsWord(text, i, j, words) ==
    /\ i < j /\ Blank(text, i, j - 1) /\ At(text, j) \in words
    /\ At(text, j + 1) \in {Space, LineEnd}

AllDigits(text, i, j) == \A k \in i + 1 .. j : IsDigit(At(text, k))

\* Blanks, perhaps a sign, and digits.
IsNumeral(text, i, j) ==
    \E s \in i .. j - 1 : \E t \in {s, s + 1} :
        /\ Blank(text, i, s)
        /\ t = s \/ At(text, t) \in Signs
        /\ t < j /\ AllDigits(text, t, j)

\* The sum of what each digit counts at its place: weight[n] with n digits behind.
Magnitude(text, i, j) ==
    LET weight[n \in 0 .. j - i] == IF n = 0 THEN 1 ELSE 10 * weight[n - 1]
        share(k) == IF IsDigit(text[k]) THEN DigitValue[text[k]] * weight[j - k] ELSE 0
        sum[k \in i .. j] == IF k = i THEN 0 ELSE sum[k - 1] + share(k)
    IN  sum[j]

NumeralValue(text, i, j) ==
    IF \E k \in i + 1 .. j : text[k] = "-" THEN - Magnitude(text, i, j)
    ELSE Magnitude(text, i, j)

InRange(value) == - IntMax - 1 <= value /\ value <= IntMax

\* A numeral for a number of 32 bits, set off from a digit before it.
IsNumber(text, i, j) ==
    /\ IsNumeral(text, i, j) /\ InRange(NumeralValue(text, i, j))
    /\ IsDigit(At(text, i)) => ~ IsDigit(At(text, i + 1))

SimpleReadings(text) ==
    {[type |-> Keywords[word]] : word \in {w \in DOMAIN Keywords :
        \E j \in DOMAIN text : IsWord(text, 0, j, {w}) /\ EndsAfter(text, j)}}

SetReadings(text) ==
    {[type    |-> "SET_THRESHOLD",
      level   |-> ThresholdNames[text[cut[2]]].level,
      channel |-> ThresholdNames[text[cut[2]]].channel,
      value   |-> NumeralValue(text, cut[2], cut[3])] :
     cut \in {c \in [1 .. 3 -> DOMAIN text] :
        /\ IsWord(text, 0, c[1], {"SET"})
        /\ IsWord(text, c[1], c[2], DOMAIN ThresholdNames)
        /\ IsNumber(text, c[2], c[3]) /\ EndsAfter(text, c[3])}}

SampleReadings(text) ==
    LET n == Len(SampleFields)
    IN  {[type   |-> "SET_SAMPLE",
          sample |-> [c \in Channel |->
                        NumeralValue(text, cut[FieldOf(c) - 1], cut[FieldOf(c)])]] :
         cut \in {c \in [0 .. n -> DOMAIN text] :
            /\ IsWord(text, 0, c[0], {"SAMPLE"})
            /\ \A i \in 1 .. n : IsNumber(text, c[i - 1], c[i])
            /\ EndsAfter(text, c[n])}}

Readings(text) == SimpleReadings(text) \cup SetReadings(text) \cup SampleReadings(text)

ReadingsOf == [text \in Lines |-> Readings(text)]

-------------------------------------------------------------------------------
\* A line is taken for a command exactly if it can be read as one, in no other
\* way, and with the number its digits denote: nothing that does not fit 32 bits
\* is taken, nothing that does is refused, the smallest number included
\* (command_parser.c:140-152).
LineIsReadExactly ==
    line # <<>> => IF command_parse(line) = Invalid THEN ReadingsOf[line] = {}
                   ELSE ReadingsOf[line] = {command_parse(line)}

===============================================================================
