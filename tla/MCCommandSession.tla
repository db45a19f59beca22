---------------------------- MODULE MCCommandSession ----------------------------
(***************************************************************************)
(* Values for CommandSession: a rising and a falling channel, every SET    *)
(* and SAMPLE of a small grid, and the lengths of the answers' lines as    *)
(* app/src/response_format.c writes them.                                  *)
(***************************************************************************)
EXTENDS CommandSession

MCRising  == {"smoke"}
MCFalling == {"light"}
Both(s, l) == [c \in {"smoke", "light"} |-> IF c = "smoke" THEN s ELSE l]

MCMinReading == Both(0, 0)
MCMaxReading == Both(4, 4)
MCTypeMax    == Both(5, 5)

MCDefaultConfig == [warning |-> Both(2, 2), alarm |-> Both(3, 1), recovery |-> Both(1, 3)]
MCInitialSample == Both(0, 4)

EveryCommand ==
    [type : {"INVALID", "GET_STATUS", "GET_CONFIG", "CLEAR_ALARM"}]
    \cup [type : {"SET_THRESHOLD"}, level : {"warning", "alarm"},
          channel : {"smoke", "light"}, value : 0 .. 6]
    \cup [type : {"SET_SAMPLE"}, sample : [{"smoke", "light"} -> 0 .. 5]]

\* The longest lines: 6-character temperatures, 5- and 10-digit thresholds.
LongestLines == [result |-> 27, config |-> 248, status |-> 155, clear_alarm |-> 22]
\* OK, CONFIG and STATUS with the values the firmware starts from.
DefaultLines == [result |-> 13, config |-> 205, status |-> 132, clear_alarm |-> 22]

===============================================================================
