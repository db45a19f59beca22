---------------------------- MODULE MCFirmwareEntry ----------------------------
(***************************************************************************)
(* Values for FirmwareEntry: every combination of build options, the reset *)
(* values of GPIOA and GPIOB of the STM32F401 (the debugger's pins), the   *)
(* states env_process announces, and a counter of milliseconds that like   *)
(* 2^32 is no multiple of a blink or refresh period.                       *)
(***************************************************************************)
EXTENDS FirmwareEntry

Announced == {"NORMAL", "WARNING", "ALARM"}

AllBuilds ==
    {b \in Build : /\ b.start_scheduler => b.freertos
                   /\ b.reader \/ b.writer => b.freertos}

AfterReset == [port \in Ports |->
    IF port = "PA"
    THEN [moder |-> {31, 29, 27}, otyper |-> {}, ospeedr |-> {27, 26}, pupdr |-> {30, 29, 26},
          afr |-> {}]
    ELSE [moder |-> {9, 7}, otyper |-> {}, ospeedr |-> {7, 6}, pupdr |-> {8}, afr |-> {}]]

===============================================================================
