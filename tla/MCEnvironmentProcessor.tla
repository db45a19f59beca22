------------------------ MODULE MCEnvironmentProcessor ------------------------
(***************************************************************************)
(* One rising and one falling channel, readings 0..6 of which the extreme  *)
(* ones are outside the valid range 1..5, and every configuration over     *)
(* three threshold values, valid or not.                                   *)
(***************************************************************************)
EXTENDS EnvironmentProcessor

MCRising  == {"smoke"}
MCFalling == {"light"}
MCMin == [c \in {"smoke", "light"} |-> 1]
MCMax == [c \in {"smoke", "light"} |-> 5]

MCSamples == [Channel -> 0..6]
Thresholds == [Channel -> 2..4]
MCConfigs == [warning : Thresholds, alarm : Thresholds, recovery : Thresholds]
MCInitialConfig ==
    [warning  |-> [c \in Channel |-> 3],
     alarm    |-> [c \in Channel |-> IF c \in Rising THEN 4 ELSE 2],
     recovery |-> [c \in Channel |-> IF c \in Rising THEN 2 ELSE 4]]

===============================================================================
