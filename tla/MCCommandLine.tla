----------------------------- MODULE MCCommandLine -----------------------------
(***************************************************************************)
(* Values for CommandLine: numbers of five bits, every command of a small  *)
(* grid as text, and lines that are almost commands: digits up to and past *)
(* both bounds, signs in the wrong place, words run together, text after   *)
(* the end.                                                                *)
(***************************************************************************)
EXTENDS CommandLine, MCCommandSession

SmallMaxReading == Both(2, 2)
SmallTypeMax    == Both(3, 3)
SmallConfig == [warning |-> Both(1, 1), alarm |-> Both(2, 0), recovery |-> Both(0, 2)]
SmallSample == Both(0, 2)

MCNames == [name \in {"SMOKE_WARN", "SMOKE_ALARM", "LIGHT_WARN_LOW", "LIGHT_ALARM_LOW"} |->
    [level   |-> IF name \in {"SMOKE_WARN", "LIGHT_WARN_LOW"} THEN "warning" ELSE "alarm",
     channel |-> IF name \in {"SMOKE_WARN", "SMOKE_ALARM"} THEN "smoke" ELSE "light"]]

MCFields == <<"light", "smoke">>

Small == {<<d>> : d \in {"0", "1", "2", "3"}}
Words == {<<w>> : w \in DOMAIN MCNames}
Gap   == <<" ">>

\* Every SET and SAMPLE of the grid, and the words without numbers.
PlainLines ==
    {<<w>> : w \in {"STATUS?", "CONFIG?", "CLEAR_ALARM", "SET", "SAMPLE", "SMOKE_WARN"}}
    \cup {<<"SET">> \o Gap \o w \o Gap \o d : w \in Words, d \in Small}
    \cup {<<"SAMPLE">> \o Gap \o d \o Gap \o e : d \in Small, e \in Small}

\* Around 15 and -16, with zeros in front and digits behind.
Digits == {"0", "1", "5", "6"}
Numbers == UNION {[1 .. n -> Digits] : n \in 0 .. 3}
EdgeLines ==
    {<<"SET">> \o Gap \o <<"SMOKE_WARN">> \o Gap \o sign \o n :
        sign \in {<<>>, <<"-">>, <<"+">>}, n \in Numbers}

Pieces == {<<>>, <<" ">>, <<"-">>, <<"1">>, <<"SET">>, <<"end of line">>}
OddLines ==
    {a \o <<"STATUS?">> \o b : a \in Pieces, b \in Pieces}
    \cup {<<"SET">> \o a \o <<"SMOKE_WARN">> \o b \o <<"2">> \o c :
            a \in Pieces, b \in Pieces, c \in Pieces}
    \cup {<<"SAMPLE">> \o a \o <<"2">> \o b \o <<"3">> \o c :
            a \in Pieces, b \in Pieces, c \in Pieces}

\* What these lines can parse to.
ParsedCommands ==
    [type : {"INVALID", "GET_STATUS", "GET_CONFIG", "CLEAR_ALARM"}]
    \cup [type : {"SET_THRESHOLD"}, level : {"warning", "alarm"},
          channel : {"smoke", "light"}, value : -16 .. 15]
    \cup [type : {"SET_SAMPLE"}, sample : [{"smoke", "light"} -> -16 .. 15]]

MCLines == PlainLines \cup EdgeLines \cup OddLines

===============================================================================
