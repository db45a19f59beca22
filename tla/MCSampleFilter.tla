----------------------------- MODULE MCSampleFilter -----------------------------
(***************************************************************************)
(* Values for SampleFilter: a rising and a falling channel, readings from  *)
(* 0 to 5 of which 6 would be invalid, and three thresholds, one of them   *)
(* without any distance between the levels.                                *)
(***************************************************************************)
EXTENDS SampleFilter

MCRising  == {"smoke"}
MCFalling == {"light"}
Both(s, l) == [c \in {"smoke", "light"} |-> IF c = "smoke" THEN s ELSE l]

MCMinReading == Both(0, 0)
MCMaxReading == Both(5, 5)

\* The firmware's 1/2, no smoothing, and shares with dead zones of 1 and 2.
SomeAlphas == {<<1, 1>>, <<1, 2>>, <<2, 3>>, <<1, 3>>}

SomeConfigs ==
    {[warning |-> Both(3, 2), alarm |-> Both(4, 1), recovery |-> Both(2, 3)],
     [warning |-> Both(3, 1), alarm |-> Both(3, 1), recovery |-> Both(3, 1)],
     [warning |-> Both(2, 3), alarm |-> Both(5, 0), recovery |-> Both(0, 5)]}

GridAndInvalid == [{"smoke", "light"} -> 0 .. 5] \cup {Both(6, 0), Both(6, 5)}

===============================================================================
