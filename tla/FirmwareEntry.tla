----------------------------- MODULE FirmwareEntry -----------------------------
(***************************************************************************)
(* firmware/src/main.c from reset to the scheduler or to the bare command  *)
(* loop, and alarm_output_task behind it.  main first installs what the    *)
(* tasks will use, then checks itself on variables in the place of the     *)
(* registers, and starts only after a good verdict.  The checks share with *)
(* what they check: the alarm sink, the pin functions and, on the bare     *)
(* path, the context through which the USART is read and written.          *)
(***************************************************************************)
EXTENDS AlarmOutput, Stm32Board

CONSTANTS
    Builds,         \* the combinations of build options
    ResetGpio       \* the registers of each port after a reset

Build == [freertos : BOOLEAN, start_scheduler : BOOLEAN, real_gpio : BOOLEAN,
          command_loop : BOOLEAN, reader : BOOLEAN, writer : BOOLEAN]

ASSUME FirmwareAssumption ==
    /\ Builds \subseteq Build
    /\ \A b \in Builds : b.start_scheduler => b.freertos
    /\ ResetGpio \in [Ports -> [GpioRegisters -> SUBSET (0 .. 63)]]

VARIABLES
    build,
    step,                   \* where main is
    real, simulated,        \* the chip, and firmware_rcc_*, firmware_gpio*_registers, ...
    serial_io,              \* the registers each stm32_usart_serial_io_context_t points to
    callbacks,              \* the context of the tasks' command_read and response_write
    created,                \* the heap had room for the queues and the tasks
    freertos_ready, real_gpio_ready, base_self_check_ready,
    command_loop_ready,
    firmware_self_check     \* 0, 1, -1 or -2

bootVars == <<build, step, real, simulated, serial_io, callbacks, created, freertos_ready,
              real_gpio_ready, base_self_check_ready, command_loop_ready, firmware_self_check>>

firmwareVars == <<vars, bootVars>>

-------------------------------------------------------------------------------
\* After Reset_Handler: static data as initialised, outputs low.
FirmwareInit ==
    /\ Init /\ level = [o \in Outputs |-> FALSE]
    /\ build \in Builds
    /\ step = "queues"
    /\ real = Chip(FALSE, ResetGpio)
    /\ simulated = Chip(TRUE, [port \in Ports |-> Cleared])
    /\ serial_io = [usart2 |-> None, freertos |-> None]
    /\ callbacks = [command_read |-> None, response_write |-> None]
    /\ created = FALSE
    /\ freertos_ready = TRUE /\ real_gpio_ready = TRUE
    /\ base_self_check_ready = FALSE
    /\ command_loop_ready = FALSE
    /\ firmware_self_check = 0

\* Faulty variant: the tasks use the context of the bare command loop.
SharesIoContext(done) ==
    /\ serial_io' = [serial_io EXCEPT !.usart2 = IF done.ok THEN "real" ELSE @]
    /\ callbacks' = [command_read   |-> IF done.ok /\ build.reader THEN "usart2" ELSE None,
                     response_write |-> IF done.ok /\ build.writer THEN "usart2" ELSE None]

\* The end of firmware_stm32f401re_freertos_usart2_io_init.
InstallsIoContext(done) ==
    /\ serial_io' = [serial_io EXCEPT !.freertos = IF done.ok THEN "real" ELSE @]
    /\ callbacks' = [command_read   |-> IF done.ok /\ build.reader THEN "freertos" ELSE None,
                     response_write |-> IF done.ok /\ build.writer THEN "freertos" ELSE None]

\* firmware_freertos_queue_self_check: the runtime context, then the port; its
\* messages stay in the queues (MCFreeRtosPort).
QueueSelfCheck ==
    /\ step = "queues" /\ step' = "gpio"
    /\ created' \in IF build.freertos THEN BOOLEAN ELSE {FALSE}
    /\ LET uses_usart == build.freertos /\ (build.reader \/ build.writer)
           done == IF uses_usart THEN stm32_board_usart2_init(real, Ports) ELSE Begun(real)
       IN  /\ real' = done.chip
           /\ IF uses_usart THEN InstallsIoContext(done) ELSE UNCHANGED <<serial_io, callbacks>>
           /\ freertos_ready' = (build.freertos => done.ok /\ created')
    /\ UNCHANGED <<vars, build, simulated, real_gpio_ready, base_self_check_ready,
                   command_loop_ready, firmware_self_check>>

RealGpioInit ==
    /\ step = "gpio" /\ step' = "alarm output check"
    /\ LET done == IF build.real_gpio THEN stm32_board_gpio_init_alarm_outputs(real, Ports)
                   ELSE Begun(real)
       IN  real' = done.chip /\ real_gpio_ready' = done.ok
    /\ UNCHANGED <<vars, build, simulated, serial_io, callbacks, created, freertos_ready,
                   base_self_check_ready, command_loop_ready, firmware_self_check>>

\* The checks are joined by &&: one that fails is the last.
CheckEnds(passed, next) ==
    /\ step' = IF passed THEN next ELSE "command loop"
    /\ UNCHANGED <<build, real, callbacks, created, freertos_ready, real_gpio_ready,
                   command_loop_ready, firmware_self_check>>

\* board_digital_output_init puts the outputs low, the check drives them high, and
\* so they stay until the tasks' first event.
AlarmOutputSelfCheck ==
    /\ step = "alarm output check"
    /\ alarm_output_sink_apply(Rendered("ALARM", 0))
    /\ CheckEnds(applied' /\ \A o \in Outputs : level'[o], "gpio check")
    /\ UNCHANGED <<state, elapsed, failing, simulated, serial_io, base_self_check_ready>>

\* The alternate functions keep what they had.
GpioSelfCheck ==
    /\ step = "gpio check"
    /\ LET clean == [simulated EXCEPT !.ahb1enr = {},
                         !.gpio = [port \in Ports |->
                             [Cleared EXCEPT !.afr = simulated.gpio[port].afr]]]
           done  == stm32_board_gpio_init_alarm_outputs(clean, Ports)
       IN  /\ simulated' = done.chip
           /\ CheckEnds(/\ done.ok
                        /\ {0, 1} \subseteq done.chip.ahb1enr
                        /\ \A i \in DOMAIN AlarmPins :
                             PinIs(done.chip, AlarmPins[i], [moder |-> 1]), "usart2 check")
    /\ UNCHANGED <<vars, serial_io, base_self_check_ready>>

Usart2SelfCheck ==
    /\ step = "usart2 check"
    /\ LET clean == [Chip(TRUE, simulated.gpio) EXCEPT !.gpio["PA"] = Cleared]
           done  == stm32_board_usart2_init(clean, {"PA"})
       IN  /\ simulated' = done.chip
           /\ CheckEnds(/\ done.ok
                        /\ 0 \in done.chip.ahb1enr /\ Usart2ClockBit \in done.chip.apb1enr
                        /\ \A i \in DOMAIN UsartPins :
                             PinIs(done.chip, UsartPins[i], [moder |-> 2, afr |-> 7])
                        /\ done.chip.usart.brr = 1667
                        /\ CR1_8N1 \subseteq done.chip.usart.cr1, "service check")
    /\ UNCHANGED <<vars, serial_io, base_self_check_ready>>

\* STATUS? through a service of its own; the transmitter is always free.
ServiceSelfCheck ==
    /\ step = "service check"
    /\ serial_io' = [serial_io EXCEPT !.usart2 = "simulated"]
    /\ base_self_check_ready' = (freertos_ready /\ real_gpio_ready)
    /\ CheckEnds(TRUE, "command loop")
    /\ UNCHANGED <<vars, simulated>>

CommandLoopInit ==
    /\ step = "command loop" /\ step' = "verdict"
    /\ IF build.command_loop /\ base_self_check_ready
       THEN LET done == stm32_board_usart2_init(real, Ports)
            IN  /\ real' = done.chip
                /\ serial_io' = [serial_io EXCEPT !.usart2 = IF done.ok THEN "real" ELSE @]
                /\ command_loop_ready' = done.ok
       ELSE UNCHANGED <<real, serial_io, command_loop_ready>>
    /\ UNCHANGED <<vars, build, simulated, callbacks, created, freertos_ready,
                   real_gpio_ready, base_self_check_ready, firmware_self_check>>

Verdict ==
    /\ step = "verdict" /\ step' = "scheduler"
    /\ firmware_self_check' =
           IF base_self_check_ready /\ (build.command_loop => command_loop_ready) THEN 1 ELSE -1
    /\ UNCHANGED <<vars, build, real, simulated, serial_io, callbacks, created, freertos_ready,
                   real_gpio_ready, base_self_check_ready, command_loop_ready>>

\* A scheduler that starts does not return; one that does leaves the bare loop.
StartScheduler ==
    /\ step = "scheduler"
    /\ IF build.start_scheduler /\ firmware_self_check = 1 /\ freertos_ready
       THEN \/ step' = "tasks" /\ UNCHANGED firmware_self_check
            \/ step' = "loop" /\ firmware_self_check' = -2
       ELSE step' = "loop" /\ UNCHANGED firmware_self_check
    /\ UNCHANGED <<vars, build, real, simulated, serial_io, callbacks, created, freertos_ready,
                   real_gpio_ready, base_self_check_ready, command_loop_ready>>

Boot ==
    \/ QueueSelfCheck \/ RealGpioInit
    \/ AlarmOutputSelfCheck \/ GpioSelfCheck \/ Usart2SelfCheck \/ ServiceSelfCheck
    \/ CommandLoopInit \/ Verdict \/ StartScheduler

TaskRuns   == step = "tasks" /\ ((\E s \in Published : Event(s)) \/ Refresh) /\ UNCHANGED bootVars
SinkFails  == step = "tasks" /\ SinkChanges /\ UNCHANGED bootVars

FirmwareNext == Boot \/ TaskRuns \/ SinkFails

FirmwareSpec == FirmwareInit /\ [][FirmwareNext]_firmwareVars /\ WF_firmwareVars(TaskRuns)

-------------------------------------------------------------------------------
\* Only a heap without room for the queues and tasks can fail the verdict: no
\* check is spoilt by what another one left behind (main.c:578-601).
OnlyMemoryFailsTheCheck ==
    firmware_self_check = -1 => build.freertos /\ ~ created

\* Whoever polls or answers at run time does so on the real USART, not on the
\* variables of the self check (main.c:448-449).
SerialIoIsReal ==
    /\ step \in {"tasks", "loop"} /\ command_loop_ready => serial_io.usart2 = "real"
    /\ step = "tasks" => \A use \in DOMAIN callbacks :
         callbacks[use] # None => serial_io[callbacks[use]] = "real"

\* At the verdict every pin that the build uses has its whole configuration in a
\* port that has its clock, whichever of the two initialisations came first.
PinsHaveTheirRoles ==
    firmware_self_check = 1 =>
        /\ build.real_gpio =>
             \A i \in DOMAIN AlarmPins : PinIs(real, AlarmPins[i], OutputConfig)
        /\ command_loop_ready \/ callbacks.command_read # None \/ callbacks.response_write # None
             => UsartIsReady(real)

UsedPins == {AlarmPins[i] : i \in DOMAIN AlarmPins} \cup {UsartPins[i] : i \in DOMAIN UsartPins}

UsedBits == [port \in Ports |-> [register \in GpioRegisters |->
    UNION {Place(0 .. Width[register] - 1, p.pin, Width[register]) :
           p \in {used \in UsedPins : used.port = port}}]]

\* Every other pin keeps its reset configuration, that of the debugger included.
OtherPinsKeepTheirReset ==
    \A port \in Ports : \A register \in GpioRegisters :
        real.gpio[port][register] \ UsedBits[port][register]
            = ResetGpio[port][register] \ UsedBits[port][register]

===============================================================================
