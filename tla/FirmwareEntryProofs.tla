-------------------------- MODULE FirmwareEntryProofs --------------------------
(***************************************************************************)
(* What FirmwareEntry promises for any builds, any reset values of the     *)
(* registers, any set of announced states, and any refresh period and      *)
(* range of elapsed_ms: the alarm outputs from reset on, the contexts      *)
(* through which the USART is read and written, the registers of the chip  *)
(* and the verdict of the self checks.                                     *)
(***************************************************************************)
EXTENDS FirmwareEntry, TLAPS

-------------------------------------------------------------------------------
(* The alarm outputs                                                       *)

\* What is rendered is a level for each output.
LEMMA RenderedType ==
    ASSUME NEW s, NEW ms
    PROVE  /\ Rendered(s, ms) \in [Outputs -> BOOLEAN]
           /\ Rendered(s, ms) = [o \in Outputs |-> Rendered(s, ms)[o]]
<1>1. alarm_output_indicator_is_on(alarm_output_command_for_state(s), ms) \in BOOLEAN
    BY DEF alarm_output_indicator_is_on
<1>2. /\ alarm_output_command_for_state(s).buzzer \in BOOLEAN
      /\ alarm_output_command_for_state(s).actuator \in BOOLEAN
    BY DEF alarm_output_command_for_state
<1>3. Rendered(s, ms) \in [lamp : BOOLEAN, buzzer : BOOLEAN, actuator : BOOLEAN]
    BY <1>1, <1>2 DEF Rendered
<1> QED
    BY <1>3 DEF Outputs

\* One call of alarm_output_sink_apply: levels stay levels, and true is only
\* returned when all three outputs are as wanted.
LEMMA ApplyIsHonest ==
    ASSUME NEW s, NEW ms, level \in [Outputs -> BOOLEAN],
           alarm_output_sink_apply(Rendered(s, ms))
    PROVE  /\ level' \in [Outputs -> BOOLEAN]
           /\ applied' \in BOOLEAN
           /\ applied' => level' = Rendered(s, ms)
<1> DEFINE reached == CASE "lamp"     \in failing -> {}
                        [] "buzzer"   \in failing -> {"lamp"}
                        [] "actuator" \in failing -> {"lamp", "buzzer"}
                        [] OTHER -> Outputs
           levels == Rendered(s, ms)
<1>1. /\ level' = [o \in Outputs |-> IF o \in reached THEN levels[o] ELSE level[o]]
      /\ applied' = (reached = Outputs)
    BY DEF alarm_output_sink_apply
<1>2. levels \in [Outputs -> BOOLEAN] /\ levels = [o \in Outputs |-> levels[o]]
    BY RenderedType
<1> HIDE DEF reached, levels
<1>3. level' \in [Outputs -> BOOLEAN]
    BY <1>1, <1>2
<1>4. ASSUME applied' PROVE level' = levels
    <2>1. level' = [o \in Outputs |-> levels[o]]
        BY <1>1, <1>4
    <2> QED BY <2>1, <1>2
<1> QED
    BY <1>1, <1>3, <1>4 DEF levels

\* Elapsed time stays within its range, wrap included.
LEMMA ElapsedStays ==
    ASSUME elapsed \in 0 .. ElapsedModulus - 1
    PROVE  /\ 0 \in 0 .. ElapsedModulus - 1
           /\ (elapsed + RefreshPeriod) % ElapsedModulus \in 0 .. ElapsedModulus - 1
<1>1. ElapsedModulus \in Nat /\ ElapsedModulus > 0 /\ RefreshPeriod \in Nat
    BY OutputAssumption
<1> QED BY <1>1

OutputInv == TypeOK /\ StrayOutputIsReported

LEMMA TaskKeepsOutputs == OutputInv /\ [Next]_vars => OutputInv'
<1> SUFFICES ASSUME OutputInv, [Next]_vars PROVE OutputInv'
    OBVIOUS
<1>1. CASE \E s \in Published : Event(s)
    <2> PICK s \in Published : Event(s)
        BY <1>1
    <2>1. /\ level' \in [Outputs -> BOOLEAN] /\ applied' \in BOOLEAN
          /\ applied' => level' = Rendered(s, 0)
        BY ApplyIsHonest DEF Event, OutputInv, TypeOK
    <2> QED
        BY <2>1, ElapsedStays DEF Event, OutputInv, TypeOK, StrayOutputIsReported
<1>2. CASE Refresh
    <2>1. /\ level' \in [Outputs -> BOOLEAN] /\ applied' \in BOOLEAN
          /\ applied' => level' = Rendered(state, elapsed')
        BY <1>2, ApplyIsHonest DEF Refresh, OutputInv, TypeOK
    <2>2. elapsed' \in 0 .. ElapsedModulus - 1
        BY <1>2, ElapsedStays DEF Refresh, OutputInv, TypeOK
    <2> QED
        BY <1>2, <2>1, <2>2 DEF Refresh, OutputInv, TypeOK, StrayOutputIsReported
<1>3. CASE SinkChanges \/ UNCHANGED vars
    BY <1>3 DEF SinkChanges, vars, OutputInv, TypeOK, StrayOutputIsReported
<1> QED
    BY <1>1, <1>2, <1>3 DEF Next

-------------------------------------------------------------------------------
(* The firmware from reset on                                              *)

\* The tasks have no event before they run, so main's own writes to the outputs
\* belong to no state.
BootInv ==
    /\ OutputInv
    /\ step # "tasks" => state = None

LEMMA BootInvInit == FirmwareInit => BootInv
<1> SUFFICES ASSUME FirmwareInit PROVE BootInv
    OBVIOUS
<1>1. 0 \in 0 .. ElapsedModulus - 1
    BY OutputAssumption
<1> QED
    BY <1>1 DEF FirmwareInit, Init, BootInv, OutputInv, TypeOK, StrayOutputIsReported

LEMMA BootInvStep == BootInv /\ [FirmwareNext]_firmwareVars => BootInv'
<1> SUFFICES ASSUME BootInv, [FirmwareNext]_firmwareVars PROVE BootInv'
    OBVIOUS
<1> USE DEF BootInv
<1>1. CASE AlarmOutputSelfCheck
    <2>1. level' \in [Outputs -> BOOLEAN] /\ applied' \in BOOLEAN
        BY <1>1, ApplyIsHonest DEF AlarmOutputSelfCheck, OutputInv, TypeOK
    <2>2. state = None
        BY <1>1 DEF AlarmOutputSelfCheck
    <2> QED
        BY <1>1, <2>1, <2>2 DEF AlarmOutputSelfCheck, OutputInv, TypeOK, StrayOutputIsReported
<1>2. CASE UNCHANGED vars /\ (state # None => step = "tasks" /\ step' = "tasks")
    BY <1>2 DEF vars, OutputInv, TypeOK, StrayOutputIsReported
<1>3. CASE \/ QueueSelfCheck \/ RealGpioInit \/ GpioSelfCheck \/ Usart2SelfCheck
           \/ ServiceSelfCheck \/ CommandLoopInit \/ Verdict \/ StartScheduler
    <2>1. UNCHANGED vars /\ step # "tasks"
        BY <1>3 DEF QueueSelfCheck, RealGpioInit, GpioSelfCheck, Usart2SelfCheck,
                    ServiceSelfCheck, CommandLoopInit, Verdict, StartScheduler
    <2> QED BY <1>2, <2>1
<1>4. CASE TaskRuns \/ SinkFails
    <2>1. Next /\ step' = "tasks"
        BY <1>4 DEF TaskRuns, SinkFails, Next, bootVars
    <2> QED BY <2>1, TaskKeepsOutputs
<1>5. CASE UNCHANGED firmwareVars
    BY <1>5, <1>2 DEF firmwareVars, bootVars
<1> QED
    BY <1>1, <1>3, <1>4, <1>5 DEF FirmwareNext, Boot

LEMMA BootInvHolds == FirmwareSpec => []BootInv
BY BootInvInit, BootInvStep, PTL DEF FirmwareSpec

\* The millisecond counter stays in its range and the outputs are levels, for any
\* refresh period below any modulus (rtos_port_freertos.c:335).
THEOREM FirmwareTypeOK == FirmwareSpec => []TypeOK
<1>1. BootInv => TypeOK
    BY DEF BootInv, OutputInv
<1> QED BY <1>1, BootInvHolds, PTL

\* From reset on, whatever the self checks left on the outputs: an output that is
\* not as the state in force wants it has been reported (alarm_output_sink.c:24-25).
THEOREM FirmwareReportsStrayOutput == FirmwareSpec => []StrayOutputIsReported
<1>1. BootInv => StrayOutputIsReported
    BY DEF BootInv, OutputInv
<1> QED BY <1>1, BootInvHolds, PTL

-------------------------------------------------------------------------------
(* The contexts of the serial line                                         *)

\* Behind the last check that points a context at variables, a command loop that
\* is ready has pointed it back; the tasks' context was set once and for all.
SerialInv ==
    /\ command_loop_ready =>
         /\ serial_io.usart2 = "real"
         /\ step \in {"verdict", "scheduler", "tasks", "loop"}
    /\ DOMAIN serial_io = {"usart2", "freertos"}
    /\ DOMAIN callbacks = {"command_read", "response_write"}
    /\ \A use \in DOMAIN callbacks :
         callbacks[use] # None => callbacks[use] = "freertos" /\ serial_io.freertos = "real"

LEMMA SerialInvStep == SerialInv /\ [FirmwareNext]_firmwareVars => SerialInv'
<1> SUFFICES ASSUME SerialInv, [FirmwareNext]_firmwareVars PROVE SerialInv'
    OBVIOUS
<1> USE DEF SerialInv
<1>1. CASE QueueSelfCheck
    <2> PICK done : \/ InstallsIoContext(done)
                    \/ UNCHANGED <<serial_io, callbacks>>
        BY <1>1 DEF QueueSelfCheck
    <2>1. ~ command_loop_ready /\ ~ command_loop_ready'
        BY <1>1 DEF QueueSelfCheck
    <2>2. CASE InstallsIoContext(done)
        BY <2>1, <2>2 DEF InstallsIoContext
    <2> QED BY <2>1, <2>2
<1>2. CASE ServiceSelfCheck
    <2>1. ~ command_loop_ready /\ ~ command_loop_ready'
        BY <1>2 DEF ServiceSelfCheck, CheckEnds
    <2>2. serial_io'.freertos = serial_io.freertos /\ DOMAIN serial_io' = DOMAIN serial_io
          /\ UNCHANGED callbacks
        BY <1>2 DEF ServiceSelfCheck, CheckEnds
    <2> QED BY <2>1, <2>2
<1>3. CASE CommandLoopInit
    <2>1. /\ step = "command loop" /\ step' = "verdict" /\ UNCHANGED callbacks
          /\ ~ command_loop_ready
        BY <1>3 DEF CommandLoopInit
    <2> PICK done : \/ /\ serial_io' = [serial_io EXCEPT !.usart2 = IF done.ok THEN "real" ELSE @]
                       /\ command_loop_ready' = done.ok
                    \/ UNCHANGED <<serial_io, command_loop_ready>>
        BY <1>3 DEF CommandLoopInit
    <2>2. /\ DOMAIN serial_io' = DOMAIN serial_io
          /\ serial_io'.freertos = serial_io.freertos
        OBVIOUS
    <2>3. ASSUME command_loop_ready' PROVE serial_io'.usart2 = "real"
        <3>1. command_loop_ready' = done.ok
            BY <2>1, <2>3
        <3> QED BY <2>1, <2>3, <3>1
    <2> QED BY <2>1, <2>2, <2>3
<1>4. CASE \/ RealGpioInit \/ AlarmOutputSelfCheck \/ GpioSelfCheck \/ Usart2SelfCheck
           \/ Verdict \/ StartScheduler
    <2>1. UNCHANGED <<serial_io, callbacks, command_loop_ready>>
        BY <1>4 DEF RealGpioInit, AlarmOutputSelfCheck, GpioSelfCheck, Usart2SelfCheck,
                    CheckEnds, Verdict, StartScheduler
    <2>2. command_loop_ready => step' \in {"verdict", "scheduler", "tasks", "loop"}
        BY <1>4 DEF RealGpioInit, AlarmOutputSelfCheck, GpioSelfCheck, Usart2SelfCheck,
                    CheckEnds, Verdict, StartScheduler
    <2> QED BY <2>1, <2>2
<1>5. CASE TaskRuns \/ SinkFails \/ UNCHANGED firmwareVars
    BY <1>5 DEF TaskRuns, SinkFails, firmwareVars, bootVars
<1> QED
    BY <1>1, <1>2, <1>3, <1>4, <1>5 DEF FirmwareNext, Boot

\* In every build, with every outcome of the checks, whoever polls or answers at
\* run time does so on the registers of the chip (main.c:274, 448-449).
THEOREM FirmwareSerialIoIsReal == FirmwareSpec => []SerialIoIsReal
<1>1. FirmwareInit => SerialInv
    BY DEF FirmwareInit, SerialInv
<1>2. SerialInv => SerialIoIsReal
    BY DEF SerialInv, SerialIoIsReal
<1> QED
    BY <1>1, <1>2, SerialInvStep, PTL DEF FirmwareSpec

-------------------------------------------------------------------------------
(* Fields of registers                                                     *)

\* Two pins have no bit in common.
LEMMA FieldsApart ==
    ASSUME NEW w \in {1, 2, 4}, NEW f \in Nat, NEW g \in Nat, f # g,
           NEW b \in 0 .. w - 1, NEW c \in 0 .. w - 1
    PROVE  b + f * w # c + g * w
<1>1. CASE w = 1
    BY <1>1
<1>2. CASE w = 2
    BY <1>2
<1>3. CASE w = 4
    BY <1>3
<1> QED BY <1>1, <1>2, <1>3

\* The field has the value, and no other bit of the register has changed.
Wrote(new, register, f, w, value) ==
    /\ Field(new, f, w) = Bits(value, w)
    /\ \A g \in Nat : g # f => Field(new, g, w) = Field(register, g, w)
    /\ new \ Place(0 .. w - 1, f, w) = register \ Place(0 .. w - 1, f, w)
    /\ new \in SUBSET Int

LEMMA FieldWritten ==
    ASSUME NEW register \in SUBSET Int, NEW w \in {1, 2, 4}, NEW f \in Nat, NEW value
    PROVE  Wrote(write_field(register, f, w, value), register, f, w, value)
<1> DEFINE mask == Place(0 .. w - 1, f, w)
           set == Place(Bits(value, w), f, w)
           new == write_field(register, f, w, value)
<1>1. new = (register \ mask) \cup set
    BY DEF write_field
<1>2. Bits(value, w) \subseteq 0 .. w - 1
    BY DEF Bits
<1>3. set \subseteq mask
    BY <1>2 DEF Place
<1>4. w \in Nat
    OBVIOUS
<1>5. \A b \in 0 .. w - 1 : (b + f * w \in mask) /\ (b + f * w \in set <=> b \in Bits(value, w))
    <2> TAKE b \in 0 .. w - 1
    <2>1. b + f * w \in mask
        BY DEF Place
    <2>2. b \in Bits(value, w) => b + f * w \in set
        BY DEF Place
    <2>3. ASSUME b + f * w \in set PROVE b \in Bits(value, w)
        <3>1. PICK c \in Bits(value, w) : b + f * w = c + f * w
            BY <2>3 DEF Place
        <3>2. f * w \in Int /\ b \in Int /\ c \in Int
            BY <1>2, <1>4
        <3>3. b = c
            BY <3>1, <3>2
        <3> QED BY <3>3
    <2> QED BY <2>1, <2>2, <2>3
<1>6. \A g \in Nat : g # f => \A b \in 0 .. w - 1 : b + g * w \notin mask
    BY FieldsApart DEF Place
<1>7. mask \subseteq Int
    <2>1. f * w \in Int
        BY <1>4
    <2> QED BY <2>1 DEF Place
<1> HIDE DEF mask, set, new
<1>8. \A b \in 0 .. w - 1 : b + f * w \in new <=> b \in Bits(value, w)
    BY <1>1, <1>5
<1>9. \A g \in Nat : g # f => \A b \in 0 .. w - 1 : b + g * w \in new <=> b + g * w \in register
    BY <1>1, <1>3, <1>6
<1>10. Field(new, f, w) = Bits(value, w)
    BY <1>2, <1>8 DEF Field
<1>11. \A g \in Nat : g # f => Field(new, g, w) = Field(register, g, w)
    BY <1>9 DEF Field
<1>12. new \ mask = register \ mask
    BY <1>1, <1>3
<1>13. new \in SUBSET Int
    BY <1>1, <1>3, <1>7
<1>14. Wrote(new, register, f, w, value)
    BY <1>10, <1>11, <1>12, <1>13 DEF Wrote, mask
<1> QED BY <1>14 DEF new

-------------------------------------------------------------------------------
(* Setting up pins and clocks                                              *)

Registers == [GpioRegisters -> SUBSET Int]

Chips ==
    [memory : BOOLEAN, ahb1enr : SUBSET Int, apb1enr : SUBSET Int, gpio : [Ports -> Registers],
     usart : [brr : Int, cr1 : SUBSET Int, cr2 : SUBSET Int, cr3 : SUBSET Int]]

Configs == {OutputConfig, UsartPinConfig}

\* What came later left the clocks on, and the bits of unused pins as they were.
Spares(before, after) ==
    /\ after \in Chips
    /\ after.memory = before.memory
    /\ before.ahb1enr \subseteq after.ahb1enr
    /\ before.apb1enr \subseteq after.apb1enr
    /\ \A port \in Ports : \A register \in GpioRegisters :
         after.gpio[port][register] \ UsedBits[port][register]
           = before.gpio[port][register] \ UsedBits[port][register]

\* It left this pin's configuration as it was.
Keeps(before, after, pin) ==
    \A config \in Configs : PinIs(before, pin, config) => PinIs(after, pin, config)

LEMMA RegisterNames ==
    /\ GpioRegisters = {"moder", "otyper", "ospeedr", "pupdr", "afr"}
    /\ \A register \in GpioRegisters : Width[register] \in {1, 2, 4}
    /\ \A config \in Configs : DOMAIN config \subseteq GpioRegisters
    /\ Width \in [GpioRegisters -> {1, 2, 4}]
BY DEF GpioRegisters, Width, Configs, OutputConfig, UsartPinConfig

LEMMA PinNames ==
    /\ UsedPins \subseteq [port : Ports, pin : Nat]
    /\ \A i \in 1 .. 3 : AlarmPins[i] \in UsedPins
    /\ \A i \in 1 .. 2 : UsartPins[i] \in UsedPins
    /\ DOMAIN AlarmPins = 1 .. 3 /\ DOMAIN UsartPins = 1 .. 2
    /\ \A i \in 1 .. 3, j \in 1 .. 2 : AlarmPins[i] # UsartPins[j]
    /\ \A i, j \in 1 .. 3 : i # j => AlarmPins[i] # AlarmPins[j]
    /\ \A i, j \in 1 .. 2 : i # j => UsartPins[i] # UsartPins[j]
<1>1. DOMAIN AlarmPins = 1 .. 3 /\ DOMAIN UsartPins = 1 .. 2
    BY DEF AlarmPins, UsartPins
<1>2. /\ AlarmPins[1] = [port |-> "PA", pin |-> 5] /\ AlarmPins[2] = [port |-> "PB", pin |-> 6]
      /\ AlarmPins[3] = [port |-> "PB", pin |-> 7]
      /\ UsartPins[1] = [port |-> "PA", pin |-> 2] /\ UsartPins[2] = [port |-> "PA", pin |-> 3]
    BY DEF AlarmPins, UsartPins
<1>3. \A i \in 1 .. 3 : i = 1 \/ i = 2 \/ i = 3
    OBVIOUS
<1>4. \A i \in 1 .. 2 : i = 1 \/ i = 2
    OBVIOUS
<1>5. UsedPins = {AlarmPins[1], AlarmPins[2], AlarmPins[3], UsartPins[1], UsartPins[2]}
    BY <1>1, <1>3, <1>4 DEF UsedPins
<1>6. UsedPins \subseteq [port : Ports, pin : Nat]
    BY <1>2, <1>5 DEF Ports
<1>7. (\A i \in 1 .. 3 : AlarmPins[i] \in UsedPins) /\ (\A i \in 1 .. 2 : UsartPins[i] \in UsedPins)
    BY <1>3, <1>4, <1>5
<1>8. \A i \in 1 .. 3, j \in 1 .. 2 : AlarmPins[i].pin # UsartPins[j].pin
    BY <1>2, <1>3, <1>4
<1>9. (\A i, j \in 1 .. 3 : i # j => AlarmPins[i].pin # AlarmPins[j].pin)
      /\ (\A i, j \in 1 .. 2 : i # j => UsartPins[i].pin # UsartPins[j].pin)
    BY <1>2, <1>3, <1>4
<1> QED BY <1>1, <1>6, <1>7, <1>8, <1>9

\* Setting up one pin.
LEMMA ConfigurePin ==
    ASSUME NEW chip \in Chips, NEW pin \in UsedPins, NEW config \in Configs,
           GpioHasClock(chip, pin.port)
    PROVE  LET after == configure_pin(chip, pin, config)
           IN  /\ Spares(chip, after)
               /\ PinIs(after, pin, config)
               /\ \A other \in UsedPins : other # pin => Keeps(chip, after, other)
               /\ after.usart = chip.usart /\ after.ahb1enr = chip.ahb1enr
<1> DEFINE after == configure_pin(chip, pin, config)
           port == pin.port
           written(register) == write_field(chip.gpio[port][register], pin.pin,
                                            Width[register], config[register])
           new == [register \in GpioRegisters |->
                    IF register \in DOMAIN config THEN written(register)
                    ELSE chip.gpio[port][register]]
<1>1. after = [chip EXCEPT !.gpio[port] = new]
    BY DEF configure_pin
<1>2. port \in Ports /\ pin.pin \in Nat /\ chip.gpio \in [Ports -> Registers]
    BY PinNames DEF Chips
<1>3. \A register \in GpioRegisters :
         Wrote(written(register), chip.gpio[port][register], pin.pin, Width[register],
               config[register])
    <2> TAKE register \in GpioRegisters
    <2>1. Width[register] \in {1, 2, 4} /\ chip.gpio[port][register] \in SUBSET Int
        BY <1>2, RegisterNames DEF Registers
    <2> QED BY <1>2, <2>1, FieldWritten
<1> HIDE DEF written
<1>4. new \in Registers
    BY <1>2, <1>3 DEF Registers, Wrote
<1>5. \A register \in GpioRegisters :
         /\ new[register] = IF register \in DOMAIN config THEN written(register)
                            ELSE chip.gpio[port][register]
         /\ Place(0 .. Width[register] - 1, pin.pin, Width[register]) \subseteq UsedBits[port][register]
    <2> TAKE register \in GpioRegisters
    <2>1. new[register] = IF register \in DOMAIN config THEN written(register)
                          ELSE chip.gpio[port][register]
        OBVIOUS
    <2>2. pin \in {used \in UsedPins : used.port = port}
        OBVIOUS
    <2>3. UsedBits[port][register]
            = UNION {Place(0 .. Width[register] - 1, p.pin, Width[register]) :
                     p \in {used \in UsedPins : used.port = port}}
        BY <1>2 DEF UsedBits
    <2> HIDE DEF port
    <2> QED BY <2>1, <2>2, <2>3
<1> HIDE DEF new, port, after
<1>6. after.gpio = [chip.gpio EXCEPT ![port] = new] /\ after \in Chips
      /\ after.memory = chip.memory /\ after.ahb1enr = chip.ahb1enr
      /\ after.apb1enr = chip.apb1enr /\ after.usart = chip.usart
    BY <1>1, <1>2, <1>4 DEF Chips
<1>7. after.gpio[port] = new /\ \A p \in Ports : p # port => after.gpio[p] = chip.gpio[p]
    BY <1>2, <1>6
<1>8. \A register \in GpioRegisters :
         new[register] \ UsedBits[port][register] = chip.gpio[port][register] \ UsedBits[port][register]
    BY <1>3, <1>5 DEF Wrote
<1>9. Spares(chip, after)
    BY <1>6, <1>7, <1>8 DEF Spares
<1>10. \A p : GpioHasClock(after, p) <=> GpioHasClock(chip, p)
    BY <1>6 DEF GpioHasClock
<1>11. PinIs(after, pin, config)
    <2>1. \A register \in DOMAIN config :
            Field(new[register], pin.pin, Width[register]) = Bits(config[register], Width[register])
        BY <1>3, <1>5, RegisterNames DEF Wrote
    <2> QED BY <1>7, <1>10, <2>1 DEF PinIs, port
<1>12. ASSUME NEW other \in UsedPins, other # pin PROVE Keeps(chip, after, other)
    <2>1. other.port \in Ports /\ other.pin \in Nat
        BY PinNames
    <2>2. ASSUME NEW register \in GpioRegisters
          PROVE  Field(after.gpio[other.port][register], other.pin, Width[register])
                    = Field(chip.gpio[other.port][register], other.pin, Width[register])
        <3>1. CASE other.port # port
            BY <1>7, <2>1, <3>1
        <3>2. CASE other.port = port
            <4>1. other.pin # pin.pin
                BY <1>12, <3>2, PinNames DEF port
            <4>2. Field(new[register], other.pin, Width[register])
                    = Field(chip.gpio[port][register], other.pin, Width[register])
                BY <1>3, <1>5, <2>1, <4>1 DEF Wrote
            <4> QED BY <1>7, <3>2, <4>2
        <3> QED BY <3>1, <3>2
    <2> QED BY <1>10, <2>2, RegisterNames DEF Keeps, PinIs
<1> QED BY <1>6, <1>9, <1>11, <1>12 DEF after

LEMMA ClockOn ==
    ASSUME NEW chip \in Chips, NEW bit \in Int
    PROVE  /\ LET after == [chip EXCEPT !.ahb1enr = @ \cup {bit}]
              IN  /\ Spares(chip, after) /\ \A pin \in UsedPins : Keeps(chip, after, pin)
                  /\ after.ahb1enr = chip.ahb1enr \cup {bit} /\ after.usart = chip.usart
           /\ LET after == [chip EXCEPT !.apb1enr = @ \cup {bit}]
              IN  /\ Spares(chip, after) /\ \A pin \in UsedPins : Keeps(chip, after, pin)
                  /\ after.ahb1enr = chip.ahb1enr /\ after.apb1enr = chip.apb1enr \cup {bit}
<1> DEFINE a == [chip EXCEPT !.ahb1enr = @ \cup {bit}]
           b == [chip EXCEPT !.apb1enr = @ \cup {bit}]
<1>1. a \in Chips /\ a.memory = chip.memory /\ a.ahb1enr = chip.ahb1enr \cup {bit}
      /\ a.apb1enr = chip.apb1enr /\ a.gpio = chip.gpio /\ a.usart = chip.usart
    BY DEF Chips
<1>2. b \in Chips /\ b.memory = chip.memory /\ b.ahb1enr = chip.ahb1enr
      /\ b.apb1enr = chip.apb1enr \cup {bit} /\ b.gpio = chip.gpio
    BY DEF Chips
<1> HIDE DEF a, b
<1>3. Spares(chip, a) /\ Spares(chip, b)
    BY <1>1, <1>2 DEF Spares
<1>4. \A pin \in UsedPins : Keeps(chip, a, pin) /\ Keeps(chip, b, pin)
    BY <1>1, <1>2 DEF Keeps, PinIs, GpioHasClock
<1> QED BY <1>1, <1>2, <1>3, <1>4 DEF a, b

\* One operation after another spares and keeps what both do.
LEMMA SparesOn ==
    ASSUME NEW a, NEW b, NEW c, Spares(a, b), Spares(b, c)
    PROVE  /\ Spares(a, c)
           /\ \A pin : Keeps(a, b, pin) /\ Keeps(b, c, pin) => Keeps(a, c, pin)
BY DEF Spares, Keeps

\* One output pin: its port gets a clock, then the pin its configuration.
LEMMA OutputPinSetUp ==
    ASSUME NEW chip \in Chips, NEW table \in SUBSET Ports, NEW pin \in UsedPins,
           pin.port \in table
    PROVE  LET done == init_output_pin(Begun(chip), table, pin)
           IN  /\ done = Begun(done.chip)
               /\ Spares(chip, done.chip)
               /\ GpioClockBit[pin.port] \in done.chip.ahb1enr
               /\ done.chip.usart = chip.usart
               /\ PinIs(done.chip, pin, OutputConfig)
               /\ \A other \in UsedPins : other # pin => Keeps(chip, done.chip, other)
<1> DEFINE bit == GpioClockBit[pin.port]
           clocked == [chip EXCEPT !.ahb1enr = @ \cup {bit}]
           after == configure_pin(clocked, pin, OutputConfig)
<1>1. bit \in Int
    BY PinNames DEF GpioClockBit
<1> HIDE DEF bit
<1>2. /\ Spares(chip, clocked) /\ \A p \in UsedPins : Keeps(chip, clocked, p)
      /\ clocked.ahb1enr = chip.ahb1enr \cup {bit} /\ clocked.usart = chip.usart
    BY <1>1, ClockOn
<1>3. init_output_pin(Begun(chip), table, pin) = Begun(after)
    BY DEF init_output_pin, stm32_gpio_configure, stm32_rcc_enable_gpio_port_clock, Then,
           Begun, bit
<1> HIDE DEF clocked
<1>4. clocked \in Chips /\ GpioHasClock(clocked, pin.port)
    BY <1>2 DEF Spares, GpioHasClock, bit
<1>5. /\ Spares(clocked, after) /\ PinIs(after, pin, OutputConfig)
      /\ \A other \in UsedPins : other # pin => Keeps(clocked, after, other)
      /\ after.usart = clocked.usart /\ after.ahb1enr = clocked.ahb1enr
    BY <1>4, ConfigurePin DEF Configs
<1> HIDE DEF after
<1>6. Spares(chip, after) /\ \A other \in UsedPins : other # pin => Keeps(chip, after, other)
    BY <1>2, <1>5, SparesOn
<1> DEFINE done == init_output_pin(Begun(chip), table, pin)
<1>7. done = Begun(after) /\ done.chip = after
    BY <1>3 DEF Begun
<1> HIDE DEF done
<1>8. bit \in after.ahb1enr /\ after.usart = chip.usart
    BY <1>2, <1>5
<1> QED BY <1>5, <1>6, <1>7, <1>8 DEF bit, done

\* The three alarm outputs, whatever the chip was like: the USART's pins, if they
\* are set up already, stay so.
LEMMA AlarmOutputsSetUp ==
    ASSUME NEW chip \in Chips
    PROVE  LET done == stm32_board_gpio_init_alarm_outputs(chip, Ports)
           IN  /\ done.ok /\ Spares(chip, done.chip)
               /\ {0, 1} \subseteq done.chip.ahb1enr
               /\ done.chip.usart = chip.usart
               /\ \A i \in 1 .. 3 : PinIs(done.chip, AlarmPins[i], OutputConfig)
               /\ \A i \in 1 .. 2 : Keeps(chip, done.chip, UsartPins[i])
<1> DEFINE p(i) == AlarmPins[i]
           led == init_output_pin(Begun(chip), Ports, p(1))
           buzzer == init_output_pin(led, Ports, p(2))
           done == init_output_pin(buzzer, Ports, p(3))
<1>1. stm32_board_gpio_init_alarm_outputs(chip, Ports) = done
    BY DEF stm32_board_gpio_init_alarm_outputs
<1>2. \A i \in 1 .. 3 : p(i) \in UsedPins /\ p(i).port \in Ports
    BY PinNames
<1>3. p(1) # p(2) /\ p(1) # p(3) /\ p(2) # p(3) /\ Ports \in SUBSET Ports
      /\ \A i \in 1 .. 3, j \in 1 .. 2 : p(i) # UsartPins[j] /\ UsartPins[j] \in UsedPins
    BY PinNames
<1>4. GpioClockBit[p(1).port] = 0 /\ GpioClockBit[p(2).port] = 1
    BY DEF AlarmPins, GpioClockBit, Ports
<1> HIDE DEF p
<1>5. /\ led = Begun(led.chip) /\ Spares(chip, led.chip) /\ 0 \in led.chip.ahb1enr
      /\ led.chip.usart = chip.usart /\ PinIs(led.chip, p(1), OutputConfig)
      /\ \A other \in UsedPins : other # p(1) => Keeps(chip, led.chip, other)
    BY <1>2, <1>3, <1>4, OutputPinSetUp
<1> HIDE DEF led
<1>6. led.chip \in Chips
    BY <1>5 DEF Spares
<1>7. /\ buzzer = Begun(buzzer.chip) /\ Spares(led.chip, buzzer.chip)
      /\ 1 \in buzzer.chip.ahb1enr
      /\ buzzer.chip.usart = led.chip.usart /\ PinIs(buzzer.chip, p(2), OutputConfig)
      /\ \A other \in UsedPins : other # p(2) => Keeps(led.chip, buzzer.chip, other)
    BY <1>2, <1>3, <1>4, <1>5, <1>6, OutputPinSetUp
<1> HIDE DEF buzzer
<1>8. buzzer.chip \in Chips
    BY <1>7 DEF Spares
<1>9. /\ done = Begun(done.chip) /\ Spares(buzzer.chip, done.chip)
      /\ done.chip.usart = buzzer.chip.usart /\ PinIs(done.chip, p(3), OutputConfig)
      /\ \A other \in UsedPins : other # p(3) => Keeps(buzzer.chip, done.chip, other)
    BY <1>2, <1>3, <1>7, <1>8, OutputPinSetUp
<1> HIDE DEF done
<1>10. Spares(chip, done.chip) /\ Spares(chip, buzzer.chip)
    BY <1>5, <1>7, <1>9, SparesOn
<1>11. {0, 1} \subseteq done.chip.ahb1enr
    BY <1>5, <1>7, <1>9 DEF Spares
<1>12. OutputConfig \in Configs
    BY DEF Configs
<1>13. PinIs(done.chip, p(1), OutputConfig) /\ PinIs(done.chip, p(2), OutputConfig)
    BY <1>2, <1>3, <1>5, <1>7, <1>9, <1>12 DEF Keeps
<1>14. \A i \in 1 .. 3 : PinIs(done.chip, p(i), OutputConfig)
    <2>1. \A i \in 1 .. 3 : i = 1 \/ i = 2 \/ i = 3
        OBVIOUS
    <2> QED BY <1>9, <1>13, <2>1
<1>15. \A j \in 1 .. 2 : Keeps(chip, done.chip, UsartPins[j])
    <2> TAKE j \in 1 .. 2
    <2>1. UsartPins[j] \in UsedPins /\ UsartPins[j] # p(1) /\ UsartPins[j] # p(2)
          /\ UsartPins[j] # p(3)
        BY <1>3
    <2> QED BY <1>5, <1>7, <1>9, <2>1 DEF Keeps
<1>16. done.ok
    BY <1>9 DEF Begun
<1> QED BY <1>1, <1>5, <1>7, <1>9, <1>10, <1>11, <1>14, <1>15, <1>16 DEF p

\* USART2 and its pins: it is ready, and the alarm outputs stay as they were.
LEMMA Usart2SetUp ==
    ASSUME NEW chip \in Chips, NEW table \in SUBSET Ports, "PA" \in table
    PROVE  LET done == stm32_board_usart2_init(chip, table)
           IN  /\ done.ok /\ Spares(chip, done.chip)
               /\ 0 \in done.chip.ahb1enr /\ Usart2ClockBit \in done.chip.apb1enr
               /\ UsartIsReady(done.chip)
               /\ \A i \in 1 .. 3 : Keeps(chip, done.chip, AlarmPins[i])
<1> DEFINE p(i) == UsartPins[i]
           clocked == [chip EXCEPT !.ahb1enr = @ \cup {0}]
           tx == configure_pin(clocked, p(1), UsartPinConfig)
           rx == configure_pin(tx, p(2), UsartPinConfig)
           fed == [rx EXCEPT !.apb1enr = @ \cup {Usart2ClockBit}]
           ready == configure_usart(fed)
<1>1. p(1) \in UsedPins /\ p(2) \in UsedPins /\ p(1) # p(2)
      /\ p(1).port = "PA" /\ p(2).port = "PA" /\ GpioClockBit["PA"] = 0
    <2>1. p(1).port = "PA" /\ p(2).port = "PA" /\ GpioClockBit["PA"] = 0
        BY DEF UsartPins, GpioClockBit, Ports
    <2> QED BY <2>1, PinNames
<1>2. \A i \in 1 .. 3 : AlarmPins[i] \in UsedPins /\ AlarmPins[i] # p(1) /\ AlarmPins[i] # p(2)
    BY PinNames
<1>3. UsartPinConfig \in Configs
    BY DEF Configs
<1> HIDE DEF p
<1>4. stm32_board_usart2_init(chip, table) = Begun(ready)
    <2>1. stm32_rcc_enable_gpio_port_clock(Begun(chip), table, p(1).port) = Begun(clocked)
        BY <1>1 DEF stm32_rcc_enable_gpio_port_clock, Then, Begun
    <2>2. stm32_gpio_configure(Begun(clocked), table, p(1), UsartPinConfig) = Begun(tx)
        BY <1>1 DEF stm32_gpio_configure, Then, Begun
    <2>3. stm32_gpio_configure(Begun(tx), table, p(2), UsartPinConfig) = Begun(rx)
        BY <1>1 DEF stm32_gpio_configure, Then, Begun
    <2>4. stm32_usart_configure_8n1(stm32_rcc_enable_usart_clock(Begun(rx))) = Begun(ready)
        BY DEF stm32_usart_configure_8n1, stm32_rcc_enable_usart_clock, Then, Begun
    <2> HIDE DEF clocked, tx, rx, fed, ready
    <2> QED BY <2>1, <2>2, <2>3, <2>4 DEF stm32_board_usart2_init, p
<1>5. /\ Spares(chip, clocked) /\ \A pin \in UsedPins : Keeps(chip, clocked, pin)
      /\ clocked.ahb1enr = chip.ahb1enr \cup {0}
    <2> DEFINE bit == 0
    <2>1. bit \in Int
        OBVIOUS
    <2> HIDE DEF bit
    <2>2. LET on == [chip EXCEPT !.ahb1enr = @ \cup {bit}]
          IN  /\ Spares(chip, on) /\ \A pin \in UsedPins : Keeps(chip, on, pin)
              /\ on.ahb1enr = chip.ahb1enr \cup {bit}
        BY <2>1, ClockOn
    <2> QED BY <2>2 DEF bit
<1> HIDE DEF clocked
<1>6. clocked \in Chips /\ GpioHasClock(clocked, "PA")
    BY <1>1, <1>5 DEF Spares, GpioHasClock
<1>7. /\ Spares(clocked, tx) /\ PinIs(tx, p(1), UsartPinConfig)
      /\ \A other \in UsedPins : other # p(1) => Keeps(clocked, tx, other)
      /\ tx.ahb1enr = clocked.ahb1enr
    BY <1>1, <1>3, <1>6, ConfigurePin
<1> HIDE DEF tx
<1>8. tx \in Chips /\ GpioHasClock(tx, "PA")
    BY <1>6, <1>7 DEF Spares, GpioHasClock
<1>9. /\ Spares(tx, rx) /\ PinIs(rx, p(2), UsartPinConfig)
      /\ \A other \in UsedPins : other # p(2) => Keeps(tx, rx, other)
      /\ rx.ahb1enr = tx.ahb1enr
    BY <1>1, <1>3, <1>8, ConfigurePin
<1> HIDE DEF rx
<1>10. rx \in Chips /\ Usart2ClockBit \in Int
    BY <1>9 DEF Spares, Usart2ClockBit
<1>11. /\ Spares(rx, fed) /\ \A pin \in UsedPins : Keeps(rx, fed, pin)
       /\ fed.ahb1enr = rx.ahb1enr /\ fed.apb1enr = rx.apb1enr \cup {Usart2ClockBit}
    BY <1>10, ClockOn
<1> HIDE DEF fed
<1>12. fed \in Chips /\ UsartHasClock(fed)
    BY <1>11 DEF Spares, UsartHasClock
<1>13. /\ ready \in Chips
       /\ ready.memory = fed.memory /\ ready.gpio = fed.gpio
       /\ ready.ahb1enr = fed.ahb1enr /\ ready.apb1enr = fed.apb1enr
       /\ ready.usart.brr = BaudDivisor /\ CR1_8N1 \subseteq ready.usart.cr1
    <2>1. BaudDivisor \in Int /\ CR1_8N1 \subseteq Int
        BY DEF BaudDivisor, CR1_8N1
    <2> DEFINE u == fed.usart
               after == [brr |-> BaudDivisor,
                         cr1 |-> (u.cr1 \ {2, 3, 9, 10, 12, 13, 15}) \cup CR1_8N1,
                         cr2 |-> u.cr2 \ {12, 13},
                         cr3 |-> u.cr3 \ {8, 9}]
    <2>2. u \in [brr : Int, cr1 : SUBSET Int, cr2 : SUBSET Int, cr3 : SUBSET Int]
        BY <1>12 DEF Chips
    <2> HIDE DEF u
    <2>3. after \in [brr : Int, cr1 : SUBSET Int, cr2 : SUBSET Int, cr3 : SUBSET Int]
          /\ after.brr = BaudDivisor /\ CR1_8N1 \subseteq after.cr1
        BY <2>1, <2>2
    <2>4. ready = [fed EXCEPT !.usart = after]
        BY <1>12 DEF configure_usart, u
    <2> HIDE DEF after, ready
    <2> QED BY <1>12, <2>3, <2>4 DEF Chips
<1> HIDE DEF ready
<1>14. Spares(fed, ready) /\ \A pin \in UsedPins : Keeps(fed, ready, pin)
    BY <1>13 DEF Spares, Keeps, PinIs, GpioHasClock
<1>15. Spares(chip, ready)
    <2>1. Spares(chip, tx) /\ Spares(tx, fed)
        BY <1>5, <1>7, <1>9, <1>11, SparesOn
    <2> QED BY <1>14, <2>1, SparesOn
<1>16. \A i \in 1 .. 3 : Keeps(chip, ready, AlarmPins[i])
    BY <1>2, <1>5, <1>7, <1>9, <1>11, <1>14 DEF Keeps
<1>17. PinIs(ready, p(1), UsartPinConfig) /\ PinIs(ready, p(2), UsartPinConfig)
    BY <1>1, <1>3, <1>7, <1>9, <1>11, <1>14 DEF Keeps
<1>18. 0 \in ready.ahb1enr /\ Usart2ClockBit \in ready.apb1enr
    BY <1>5, <1>7, <1>9, <1>11, <1>13
<1>19. UsartIsReady(ready)
    <2>1. UsartHasClock(ready)
        BY <1>18 DEF UsartHasClock
    <2>2. \A i \in 1 .. 2 : i = 1 \/ i = 2
        OBVIOUS
    <2> QED BY <1>13, <1>17, <2>1, <2>2, PinNames DEF UsartIsReady, p
<1> DEFINE done == stm32_board_usart2_init(chip, table)
<1>20. done.ok /\ done.chip = ready
    BY <1>4 DEF Begun
<1> HIDE DEF done
<1> QED BY <1>15, <1>16, <1>18, <1>19, <1>20 DEF done

\* Setting up the alarm outputs behind it leaves the USART ready.
LEMMA UsartStaysReady ==
    ASSUME NEW chip \in Chips, NEW after, Spares(chip, after), after.usart = chip.usart,
           \A i \in 1 .. 2 : Keeps(chip, after, UsartPins[i]), UsartIsReady(chip)
    PROVE  UsartIsReady(after)
<1>1. UsartPinConfig \in Configs
    BY DEF Configs
<1>2. \A i \in DOMAIN UsartPins : PinIs(after, UsartPins[i], UsartPinConfig)
    BY <1>1, PinNames DEF UsartIsReady, Keeps
<1> QED BY <1>2 DEF UsartIsReady, UsartHasClock, Spares

-------------------------------------------------------------------------------
(* The chip from reset on                                                  *)

\* Whatever main has set up so far stays set up.
BoardInv ==
    /\ real \in Chips /\ simulated \in Chips
    /\ OtherPinsKeepTheirReset
    /\ step \notin {"queues", "gpio"} /\ build.real_gpio =>
         \A i \in 1 .. 3 : PinIs(real, AlarmPins[i], OutputConfig)
    /\ command_loop_ready \/ callbacks.command_read # None \/ callbacks.response_write # None
         => UsartIsReady(real)
    /\ firmware_self_check = 1 => step \in {"scheduler", "tasks", "loop"}

LEMMA ChipType ==
    ASSUME NEW memory \in BOOLEAN, NEW gpio \in [Ports -> Registers]
    PROVE  Chip(memory, gpio) \in Chips
BY DEF Chip, Chips

LEMMA ClearedType == Cleared \in Registers
BY DEF Cleared, Registers

LEMMA BoardInvInit == FirmwareInit => BoardInv
<1> SUFFICES ASSUME FirmwareInit PROVE BoardInv
    OBVIOUS
<1>1. ResetGpio \in [Ports -> Registers]
    <2>1. SUBSET (0 .. 63) \subseteq SUBSET Int
        OBVIOUS
    <2> QED BY <2>1, FirmwareAssumption DEF Registers
<1>2. real = Chip(FALSE, ResetGpio) /\ simulated = Chip(TRUE, [port \in Ports |-> Cleared])
    BY DEF FirmwareInit
<1>3. real \in Chips /\ simulated \in Chips
    BY <1>1, <1>2, ChipType, ClearedType
<1>4. OtherPinsKeepTheirReset
    BY <1>2 DEF OtherPinsKeepTheirReset, Chip
<1>5. /\ step = "queues" /\ firmware_self_check = 0 /\ ~ command_loop_ready
      /\ callbacks.command_read = None /\ callbacks.response_write = None
    BY DEF FirmwareInit
<1> QED BY <1>3, <1>4, <1>5 DEF BoardInv

\* The chip is left alone, or something is set up on it that leaves the other pins
\* alone.
LEMMA OthersKeepTheirReset ==
    ASSUME OtherPinsKeepTheirReset, Spares(real, real')
    PROVE  OtherPinsKeepTheirReset'
BY DEF OtherPinsKeepTheirReset, Spares, UsedBits

\* The chip that the GPIO check starts from.
LEMMA GpioCheckChip ==
    ASSUME simulated \in Chips
    PROVE  [simulated EXCEPT !.ahb1enr = {},
               !.gpio = [port \in Ports |-> [Cleared EXCEPT !.afr = simulated.gpio[port].afr]]]
             \in Chips
<1> DEFINE gpio == [port \in Ports |-> [Cleared EXCEPT !.afr = simulated.gpio[port].afr]]
<1>1. ASSUME NEW port \in Ports PROVE [Cleared EXCEPT !.afr = simulated.gpio[port].afr] \in Registers
    <2>1. simulated.gpio[port].afr \in SUBSET Int
        BY RegisterNames DEF Chips, Registers
    <2> QED BY <2>1, ClearedType DEF Registers
<1>2. gpio \in [Ports -> Registers]
    BY <1>1
<1> HIDE DEF gpio
<1>3. [simulated EXCEPT !.ahb1enr = {}, !.gpio = gpio] \in Chips
    BY <1>2 DEF Chips
<1> QED BY <1>3 DEF gpio

LEMMA Usart2CheckChip ==
    ASSUME simulated \in Chips
    PROVE  [Chip(TRUE, simulated.gpio) EXCEPT !.gpio["PA"] = Cleared] \in Chips
<1>1. Chip(TRUE, simulated.gpio) \in Chips
    BY ChipType DEF Chips
<1> DEFINE chip == Chip(TRUE, simulated.gpio)
<1> HIDE DEF chip
<1>2. [chip EXCEPT !.gpio["PA"] = Cleared] \in Chips
    BY <1>1, ClearedType DEF chip, Chips
<1> QED BY <1>2 DEF chip

\* The self checks on variables in the place of the registers always pass.
LEMMA GpioCheckPasses ==
    ASSUME GpioSelfCheck, simulated \in Chips
    PROVE  /\ step = "gpio check" /\ simulated' \in Chips
           /\ CheckEnds(TRUE, "usart2 check") /\ UNCHANGED <<vars, serial_io, base_self_check_ready>>
<1> DEFINE clean == [simulated EXCEPT !.ahb1enr = {}, !.gpio = [port \in Ports |->
                        [Cleared EXCEPT !.afr = simulated.gpio[port].afr]]]
           done == stm32_board_gpio_init_alarm_outputs(clean, Ports)
           passed == /\ done.ok
                     /\ {0, 1} \subseteq done.chip.ahb1enr
                     /\ \A i \in DOMAIN AlarmPins :
                          PinIs(done.chip, AlarmPins[i], [moder |-> 1])
<1>1. clean \in Chips
    BY GpioCheckChip
<1>2. /\ step = "gpio check" /\ simulated' = done.chip /\ CheckEnds(passed, "usart2 check")
      /\ UNCHANGED <<vars, serial_io, base_self_check_ready>>
    BY DEF GpioSelfCheck
<1> HIDE DEF clean
<1>3. /\ done.ok /\ Spares(clean, done.chip) /\ {0, 1} \subseteq done.chip.ahb1enr
      /\ \A i \in 1 .. 3 : PinIs(done.chip, AlarmPins[i], OutputConfig)
    BY <1>1, AlarmOutputsSetUp
<1> HIDE DEF done
<1>4. ASSUME NEW pin, PinIs(done.chip, pin, OutputConfig)
      PROVE  PinIs(done.chip, pin, [moder |-> 1])
    BY <1>4 DEF PinIs, OutputConfig
<1>5. passed = TRUE
    BY <1>3, <1>4, PinNames
<1> HIDE DEF passed
<1> QED BY <1>2, <1>3, <1>5 DEF Spares

LEMMA Usart2CheckPasses ==
    ASSUME Usart2SelfCheck, simulated \in Chips
    PROVE  /\ step = "usart2 check" /\ simulated' \in Chips
           /\ CheckEnds(TRUE, "service check") /\ UNCHANGED <<vars, serial_io, base_self_check_ready>>
<1> DEFINE clean == [Chip(TRUE, simulated.gpio) EXCEPT !.gpio["PA"] = Cleared]
           done == stm32_board_usart2_init(clean, {"PA"})
           passed == /\ done.ok
                     /\ 0 \in done.chip.ahb1enr /\ Usart2ClockBit \in done.chip.apb1enr
                     /\ \A i \in DOMAIN UsartPins :
                          PinIs(done.chip, UsartPins[i], [moder |-> 2, afr |-> 7])
                     /\ done.chip.usart.brr = 1667
                     /\ CR1_8N1 \subseteq done.chip.usart.cr1
<1>1. clean \in Chips /\ {"PA"} \in SUBSET Ports
    BY Usart2CheckChip DEF Ports
<1>2. /\ step = "usart2 check" /\ simulated' = done.chip /\ CheckEnds(passed, "service check")
      /\ UNCHANGED <<vars, serial_io, base_self_check_ready>>
    BY DEF Usart2SelfCheck
<1> HIDE DEF clean
<1>3. /\ done.ok /\ Spares(clean, done.chip)
      /\ 0 \in done.chip.ahb1enr /\ Usart2ClockBit \in done.chip.apb1enr
      /\ UsartIsReady(done.chip)
    BY <1>1, Usart2SetUp
<1> HIDE DEF done
<1>4. ASSUME NEW pin, PinIs(done.chip, pin, UsartPinConfig)
      PROVE  PinIs(done.chip, pin, [moder |-> 2, afr |-> 7])
    BY <1>4 DEF PinIs, UsartPinConfig
<1>5. BaudDivisor = 1667
    BY DEF BaudDivisor
<1>6. passed = TRUE
    BY <1>3, <1>4, <1>5 DEF UsartIsReady
<1> HIDE DEF passed
<1> QED BY <1>2, <1>3, <1>6 DEF Spares

LEMMA BoardInvStep == BoardInv /\ [FirmwareNext]_firmwareVars => BoardInv'
<1> SUFFICES ASSUME BoardInv, [FirmwareNext]_firmwareVars PROVE BoardInv'
    OBVIOUS
<1>0. real \in Chips /\ simulated \in Chips /\ OtherPinsKeepTheirReset
    BY DEF BoardInv
<1>1. CASE QueueSelfCheck
    <2> DEFINE uses == build.freertos /\ (build.reader \/ build.writer)
               done == stm32_board_usart2_init(real, Ports)
    <2>1. /\ step = "queues" /\ step' = "gpio"
          /\ UNCHANGED <<build, simulated, command_loop_ready, firmware_self_check>>
        BY <1>1 DEF QueueSelfCheck
    <2>2. CASE uses
        <3>1. real' = done.chip
            BY <1>1, <2>2 DEF QueueSelfCheck
        <3> HIDE DEF done
        <3>2. "PA" \in Ports /\ Ports \in SUBSET Ports
            BY DEF Ports
        <3>3. Spares(real, real') /\ UsartIsReady(real')
            BY <1>0, <3>1, <3>2, Usart2SetUp DEF done
        <3>4. OtherPinsKeepTheirReset' /\ real' \in Chips
            BY <1>0, <3>3, OthersKeepTheirReset DEF Spares
        <3>5. UsartIsReady(real)'
            BY <3>3 DEF UsartIsReady, UsartHasClock, PinIs, GpioHasClock
        <3> QED BY <1>0, <2>1, <3>4, <3>5 DEF BoardInv
    <2>3. CASE ~ uses
        <3>1. UNCHANGED <<real, callbacks>>
            BY <1>1, <2>3 DEF QueueSelfCheck, Begun
        <3> QED BY <1>0, <2>1, <3>1 DEF BoardInv, OtherPinsKeepTheirReset, UsedBits
    <2> QED BY <2>2, <2>3
<1>2. CASE RealGpioInit
    <2> DEFINE done == stm32_board_gpio_init_alarm_outputs(real, Ports)
    <2>1. /\ step = "gpio" /\ step' = "alarm output check"
          /\ UNCHANGED <<build, simulated, callbacks, command_loop_ready, firmware_self_check>>
        BY <1>2 DEF RealGpioInit
    <2>2. CASE build.real_gpio
        <3>1. real' = done.chip
            BY <1>2, <2>2 DEF RealGpioInit
        <3> HIDE DEF done
        <3>2. /\ Spares(real, real') /\ real'.usart = real.usart
              /\ \A i \in 1 .. 3 : PinIs(real', AlarmPins[i], OutputConfig)
              /\ \A i \in 1 .. 2 : Keeps(real, real', UsartPins[i])
            BY <1>0, <3>1, AlarmOutputsSetUp DEF done
        <3>3. OtherPinsKeepTheirReset' /\ real' \in Chips
            BY <1>0, <3>2, OthersKeepTheirReset DEF Spares
        <3>4. UsartIsReady(real) => UsartIsReady(real')
            BY <1>0, <3>2, UsartStaysReady
        <3> QED BY <1>0, <2>1, <3>2, <3>3, <3>4 DEF BoardInv
    <2>3. CASE ~ build.real_gpio
        <3>1. real' = real
            BY <1>2, <2>3 DEF RealGpioInit, Begun
        <3> QED BY <1>0, <2>1, <2>3, <3>1 DEF BoardInv, OtherPinsKeepTheirReset, UsedBits
    <2> QED BY <2>2, <2>3
<1>3. CASE CommandLoopInit
    <2> DEFINE done == stm32_board_usart2_init(real, Ports)
    <2>1. /\ step = "command loop" /\ step' = "verdict"
          /\ UNCHANGED <<build, simulated, callbacks, firmware_self_check>>
        BY <1>3 DEF CommandLoopInit
    <2>2. CASE build.command_loop /\ base_self_check_ready
        <3>1. real' = done.chip
            BY <1>3, <2>2 DEF CommandLoopInit
        <3> HIDE DEF done
        <3>2. "PA" \in Ports /\ Ports \in SUBSET Ports
            BY DEF Ports
        <3>3. Spares(real, real') /\ UsartIsReady(real')
              /\ \A i \in 1 .. 3 : Keeps(real, real', AlarmPins[i])
            BY <1>0, <3>1, <3>2, Usart2SetUp DEF done
        <3>4. OtherPinsKeepTheirReset' /\ real' \in Chips
            BY <1>0, <3>3, OthersKeepTheirReset DEF Spares
        <3>5. OutputConfig \in Configs
            BY DEF Configs
        <3>6. build.real_gpio => \A i \in 1 .. 3 : PinIs(real', AlarmPins[i], OutputConfig)
            BY <2>1, <3>3, <3>5 DEF BoardInv, Keeps
        <3> QED BY <1>0, <2>1, <3>3, <3>4, <3>6 DEF BoardInv
    <2>3. CASE ~ (build.command_loop /\ base_self_check_ready)
        <3>1. UNCHANGED <<real, command_loop_ready>>
            BY <1>3, <2>3 DEF CommandLoopInit
        <3> QED BY <1>0, <2>1, <3>1 DEF BoardInv, OtherPinsKeepTheirReset, UsedBits
    <2> QED BY <2>2, <2>3
<1>4. CASE GpioSelfCheck \/ Usart2SelfCheck
    <2>1. /\ step \in {"gpio check", "usart2 check"}
          /\ step' \in {"usart2 check", "service check", "command loop"}
          /\ UNCHANGED <<build, real, callbacks, command_loop_ready, firmware_self_check>>
        BY <1>0, <1>4, GpioCheckPasses, Usart2CheckPasses DEF CheckEnds
    <2>2. simulated' \in Chips
        BY <1>0, <1>4, GpioCheckPasses, Usart2CheckPasses
    <2> QED BY <1>0, <2>1, <2>2 DEF BoardInv, OtherPinsKeepTheirReset, UsedBits
<1>5. CASE \/ AlarmOutputSelfCheck \/ ServiceSelfCheck \/ Verdict \/ StartScheduler
           \/ TaskRuns \/ SinkFails \/ UNCHANGED firmwareVars
    <2>1. /\ UNCHANGED <<build, real, simulated, callbacks, command_loop_ready>>
          /\ step' \in {"queues", "gpio"} => step' = step
          /\ step \in {"queues", "gpio"} => step' = step
          /\ firmware_self_check' = 1 => step' \in {"scheduler", "tasks", "loop"}
        BY <1>5 DEF AlarmOutputSelfCheck, ServiceSelfCheck, CheckEnds, Verdict, StartScheduler,
                    TaskRuns, SinkFails, firmwareVars, bootVars, BoardInv
    <2> QED BY <1>0, <2>1 DEF BoardInv, OtherPinsKeepTheirReset, UsedBits
<1> QED BY <1>1, <1>2, <1>3, <1>4, <1>5 DEF FirmwareNext, Boot

\* At the verdict the pins that the build uses have their roles, in whatever order and
\* build the two initialisations came (stm32_board_usart2_init.c:35-40, main.c:578-601).
THEOREM FirmwarePinsHaveTheirRoles == FirmwareSpec => []PinsHaveTheirRoles
<1>1. BoardInv => PinsHaveTheirRoles
    BY PinNames DEF BoardInv, PinsHaveTheirRoles
<1> QED BY <1>1, BoardInvInit, BoardInvStep, PTL DEF FirmwareSpec

\* Whatever the registers hold after a reset, in every build: no bit of another pin is
\* ever changed (stm32_gpio_config.c:88-126).
THEOREM FirmwareOtherPinsKeepTheirReset == FirmwareSpec => []OtherPinsKeepTheirReset
<1>1. BoardInv => OtherPinsKeepTheirReset
    BY DEF BoardInv
<1> QED BY <1>1, BoardInvInit, BoardInvStep, PTL DEF FirmwareSpec

-------------------------------------------------------------------------------
(* The verdict                                                             *)

\* Every check passes and every setup succeeds; only the heap is left to decide.
Verdicts ==
    /\ failing # {} => step = "tasks"
    /\ real_gpio_ready = TRUE
    /\ step # "queues" => freertos_ready = (build.freertos => created)
    /\ step \in {"command loop", "verdict"} => base_self_check_ready = freertos_ready
    /\ step = "verdict" /\ build.command_loop /\ base_self_check_ready => command_loop_ready
    /\ step \notin {"scheduler", "tasks", "loop"} => firmware_self_check = 0
    /\ OnlyMemoryFailsTheCheck

VerdictInv == BootInv /\ BoardInv /\ Verdicts

LEMMA VerdictInvInit == FirmwareInit => VerdictInv
<1> SUFFICES ASSUME FirmwareInit PROVE VerdictInv
    OBVIOUS
<1>1. /\ step = "queues" /\ firmware_self_check = 0 /\ failing = {} /\ real_gpio_ready = TRUE
    BY DEF FirmwareInit, Init
<1>2. BoardInv /\ BootInv
    BY BoardInvInit, BootInvInit
<1> QED BY <1>1, <1>2 DEF VerdictInv, Verdicts, OnlyMemoryFailsTheCheck

\* With no output failing, ALARM drives all three.
LEMMA AlarmDrivesAll ==
    ASSUME failing = {}, alarm_output_sink_apply(Rendered("ALARM", 0))
    PROVE  applied' = TRUE /\ \A o \in Outputs : level'[o] = TRUE
<1>1. \A o \in Outputs : Rendered("ALARM", 0)[o] = TRUE
    <2> DEFINE command == alarm_output_command_for_state("ALARM")
    <2>1. command.period = 250 /\ command.lamp /\ command.buzzer = TRUE /\ command.actuator = TRUE
        BY DEF alarm_output_command_for_state
    <2>2. alarm_output_indicator_is_on(command, 0) = TRUE
        BY <2>1 DEF alarm_output_indicator_is_on
    <2> HIDE DEF command
    <2> QED BY <2>1, <2>2 DEF Rendered, Outputs, command
<1> DEFINE levels == Rendered("ALARM", 0)
<1> HIDE DEF levels
<1>2. level' = [o \in Outputs |-> levels[o]] /\ applied' = TRUE
    BY DEF alarm_output_sink_apply, levels
<1> QED BY <1>1, <1>2 DEF levels

LEMMA VerdictInvStep == VerdictInv /\ [FirmwareNext]_firmwareVars => VerdictInv'
<1> SUFFICES ASSUME VerdictInv, [FirmwareNext]_firmwareVars PROVE VerdictInv'
    OBVIOUS
<1>0. BootInv' /\ BoardInv'
    BY BootInvStep, BoardInvStep DEF VerdictInv
<1>p. real \in Chips /\ simulated \in Chips
    BY DEF VerdictInv, BoardInv
<1> USE DEF Verdicts
<1>r. Verdicts
    BY DEF VerdictInv
<1> SUFFICES Verdicts'
    BY <1>0 DEF VerdictInv
<1>1. CASE QueueSelfCheck
    <2> DEFINE uses == build.freertos /\ (build.reader \/ build.writer)
               done == IF uses THEN stm32_board_usart2_init(real, Ports) ELSE Begun(real)
    <2>1. "PA" \in Ports /\ Ports \in SUBSET Ports
        BY DEF Ports
    <2>2. done.ok
        <3>1. stm32_board_usart2_init(real, Ports).ok
            BY <1>p, <2>1, Usart2SetUp
        <3>2. Begun(real).ok
            BY DEF Begun
        <3> QED BY <3>1, <3>2
    <2>3. /\ step = "queues" /\ step' = "gpio"
          /\ freertos_ready' = (build.freertos => done.ok /\ created')
          /\ UNCHANGED <<vars, build, real_gpio_ready, firmware_self_check>>
        BY <1>1 DEF QueueSelfCheck
    <2> HIDE DEF done
    <2> QED BY <1>r, <2>2, <2>3 DEF OnlyMemoryFailsTheCheck, vars
<1>2. CASE RealGpioInit
    <2> DEFINE done == IF build.real_gpio THEN stm32_board_gpio_init_alarm_outputs(real, Ports)
                       ELSE Begun(real)
    <2>1. done.ok = TRUE
        <3>1. stm32_board_gpio_init_alarm_outputs(real, Ports).ok = TRUE
            BY <1>p, AlarmOutputsSetUp
        <3>2. Begun(real).ok = TRUE
            BY DEF Begun
        <3> QED BY <3>1, <3>2
    <2>2. /\ step = "gpio" /\ step' = "alarm output check" /\ real_gpio_ready' = done.ok
          /\ UNCHANGED <<vars, build, created, freertos_ready, firmware_self_check>>
        BY <1>2 DEF RealGpioInit
    <2> HIDE DEF done
    <2> QED BY <1>r, <2>1, <2>2 DEF OnlyMemoryFailsTheCheck, vars
<1>3. ASSUME NEW next \in {"gpio check", "usart2 check", "service check"},
             CheckEnds(TRUE, next), UNCHANGED failing,
             step \in {"alarm output check", "gpio check", "usart2 check"}
      PROVE  Verdicts'
    BY <1>r, <1>3 DEF CheckEnds, OnlyMemoryFailsTheCheck
<1>4. CASE AlarmOutputSelfCheck
    <2> DEFINE passed == applied' /\ \A o \in Outputs : level'[o]
    <2>1. /\ step = "alarm output check" /\ CheckEnds(passed, "gpio check") /\ UNCHANGED failing
          /\ alarm_output_sink_apply(Rendered("ALARM", 0))
        BY <1>4 DEF AlarmOutputSelfCheck
    <2>2. failing = {}
        BY <1>r, <2>1
    <2>3. passed = TRUE
        BY <2>1, <2>2, AlarmDrivesAll
    <2> HIDE DEF passed
    <2>4. CheckEnds(TRUE, "gpio check")
        BY <2>1, <2>3
    <2> QED BY <1>3, <2>1, <2>4
<1>5. CASE GpioSelfCheck
    BY <1>p, <1>3, <1>5, GpioCheckPasses DEF vars
<1>6. CASE Usart2SelfCheck
    BY <1>p, <1>3, <1>6, Usart2CheckPasses DEF vars
<1>7. CASE ServiceSelfCheck
    <2>1. /\ step = "service check" /\ step' = "command loop"
          /\ base_self_check_ready' = (freertos_ready /\ real_gpio_ready)
          /\ UNCHANGED <<failing, build, created, freertos_ready, real_gpio_ready,
                         command_loop_ready, firmware_self_check>>
        BY <1>7 DEF ServiceSelfCheck, CheckEnds, vars
    <2>2. freertos_ready = (build.freertos => created) /\ real_gpio_ready = TRUE
        BY <1>r, <2>1
    <2> QED BY <1>r, <2>1, <2>2 DEF OnlyMemoryFailsTheCheck
<1>8. CASE CommandLoopInit
    <2> DEFINE done == stm32_board_usart2_init(real, Ports)
    <2>1. /\ step = "command loop" /\ step' = "verdict"
          /\ build.command_loop /\ base_self_check_ready => command_loop_ready' = done.ok
          /\ UNCHANGED <<failing, build, created, freertos_ready, real_gpio_ready,
                         base_self_check_ready, firmware_self_check>>
        BY <1>8 DEF CommandLoopInit, vars
    <2>2. "PA" \in Ports /\ Ports \in SUBSET Ports
        BY DEF Ports
    <2>3. done.ok
        BY <1>p, <2>2, Usart2SetUp
    <2> HIDE DEF done
    <2> QED BY <1>r, <2>1, <2>3 DEF OnlyMemoryFailsTheCheck
<1>9. CASE Verdict
    <2>1. /\ step = "verdict" /\ step' = "scheduler"
          /\ firmware_self_check' =
               IF base_self_check_ready /\ (build.command_loop => command_loop_ready) THEN 1 ELSE -1
          /\ UNCHANGED <<failing, build, created, freertos_ready, real_gpio_ready>>
        BY <1>9 DEF Verdict, vars
    <2>2. OnlyMemoryFailsTheCheck'
        <3> SUFFICES ASSUME firmware_self_check' = -1 PROVE build'.freertos /\ ~ created'
            BY DEF OnlyMemoryFailsTheCheck
        <3>1. ~ base_self_check_ready
            BY <1>r, <2>1
        <3>2. base_self_check_ready = (build.freertos => created)
            BY <1>r, <2>1
        <3>3. build.freertos /\ ~ created
            BY <3>1, <3>2, Zenon
        <3> QED BY <2>1, <3>3
    <2> QED BY <1>r, <2>1, <2>2
<1>10. CASE StartScheduler
    <2>1. /\ step = "scheduler" /\ step' \in {"tasks", "loop"}
          /\ firmware_self_check' = firmware_self_check \/ firmware_self_check' = -2
          /\ UNCHANGED <<failing, build, created, freertos_ready, real_gpio_ready>>
        BY <1>10 DEF StartScheduler, vars
    <2>2. OnlyMemoryFailsTheCheck'
        BY <1>r, <2>1 DEF OnlyMemoryFailsTheCheck
    <2> QED BY <1>r, <2>1, <2>2
<1>11. CASE TaskRuns \/ SinkFails \/ UNCHANGED firmwareVars
    <2>1. UNCHANGED bootVars /\ (step = "tasks" \/ UNCHANGED vars)
        BY <1>11 DEF TaskRuns, SinkFails, firmwareVars
    <2> QED BY <1>r, <2>1 DEF OnlyMemoryFailsTheCheck, bootVars, vars
<1> QED BY <1>1, <1>2, <1>4, <1>5, <1>6, <1>7, <1>8, <1>9, <1>10, <1>11 DEF FirmwareNext, Boot

\* Whatever a register holds after a reset and in whatever build: -1 means a heap
\* without room, never a check spoilt by what main did before (main.c:578-601).
THEOREM FirmwareOnlyMemoryFailsTheCheck == FirmwareSpec => []OnlyMemoryFailsTheCheck
<1>1. VerdictInv => OnlyMemoryFailsTheCheck
    BY DEF VerdictInv, Verdicts
<1> QED BY <1>1, VerdictInvInit, VerdictInvStep, PTL DEF FirmwareSpec

-------------------------------------------------------------------------------
(* The lamp                                                                *)

\* One wrap, taken apart: what is at most twice the modulus loses it once.
LEMMA WrapsOnce ==
    ASSUME NEW M \in Nat \ {0}, NEW x \in 0 .. 2 * M - 1
    PROVE  x % M = IF x < M THEN x ELSE x - M
<1>1. CASE x < M
    BY <1>1
<1>2. CASE x >= M
    <2>1. x - M \in 0 .. M - 1
        BY <1>2
    <2>2. (x - M) % M = x - M
        BY <2>1
    <2>3. x % M = (x - M) % M
        OBVIOUS
    <2> QED BY <1>2, <2>2, <2>3
<1> QED BY <1>1, <1>2

\* The phase moves on with the counter.
LEMMA PhaseMovesOn ==
    ASSUME NEW p \in {250, 500, 1000}, NEW e \in Nat, NEW d \in Nat, (e % p) + d < 2 * p
    PROVE  (e + d) % p = IF (e % p) + d < p THEN (e % p) + d ELSE (e % p) + d - p
<1>1. CASE p = 250
    BY <1>1
<1>2. CASE p = 500
    BY <1>2
<1>3. CASE p = 1000
    BY <1>3
<1> QED BY <1>1, <1>2, <1>3

\* Within 2n refreshes the lamp is the other way round.
LeavesItsHalf(M, e, p, h, n) ==
    \E k \in 1 .. 2 * n : (((e + k * 50) % M) % p < h) # (e % p < h)

\* Steps of 50 ms leave the lit half and the dark half, h ms each; the wrap of the
\* counter leads into the lit half.
LEMMA HalvesAreLeft ==
    ASSUME NEW M \in Nat, M >= 550, NEW e \in 0 .. M - 1,
           NEW p \in {250, 500, 1000}, NEW h \in {125, 250, 500}, p = 2 * h,
           NEW n \in 3 .. 10, 50 * n \in h .. h + 49
    PROVE  LeavesItsHalf(M, e, p, h, n)
<1> USE DEF LeavesItsHalf
<1> DEFINE phase == e % p
           wrap == (M - e + 49) \div 50
           rest == e + 50 * wrap - M
           k == IF phase < h THEN (h - phase + 49) \div 50 ELSE (p - phase + 49) \div 50
           more == (h - rest + 49) \div 50
<1>1. phase \in 0 .. p - 1 /\ e \in Nat
    OBVIOUS
<1>2. wrap \in Nat \ {0} /\ rest \in 0 .. 49
    OBVIOUS
<1>3. k \in 1 .. n /\ 50 * k \in Nat
    BY <1>1
<1>4. more \in 1 .. n /\ rest + 50 * more \in h .. h + 49
    BY <1>2
<1>5. CASE e + 50 * k < M
    <2>1. (e + k * 50) % M = e + 50 * k
        BY <1>1, <1>3, <1>5
    <2>2. (e + 50 * k) % p = IF phase + 50 * k < p THEN phase + 50 * k ELSE phase + 50 * k - p
        <3>1. phase + 50 * k < 2 * p
            BY <1>1
        <3> HIDE DEF k
        <3> QED BY <1>1, <1>3, <3>1, PhaseMovesOn
    <2>3. CASE phase < h
        <3>1. phase + 50 * k \in h .. h + 49
            BY <1>1, <2>3
        <3> HIDE DEF k, phase
        <3>2. ~ ((e + 50 * k) % p < h)
            BY <2>2, <3>1
        <3> QED BY <1>3, <2>1, <2>3, <3>2 DEF phase
    <2>4. CASE ~ (phase < h)
        <3>1. phase + 50 * k \in p .. p + 49
            BY <1>1, <2>4
        <3> HIDE DEF k, phase
        <3>2. (e + 50 * k) % p < h
            BY <1>1, <1>3, <2>2, <3>1
        <3> QED BY <1>3, <2>1, <2>4, <3>2 DEF phase
    <2> QED BY <2>3, <2>4
<1>6. CASE ~ (e + 50 * k < M)
    <2>1. wrap <= k
        BY <1>3, <1>6
    <2>2. CASE phase < h
        <3>1. wrap + more \in 1 .. 2 * n
            BY <1>2, <1>3, <1>4, <2>1
        <3>2. e + (wrap + more) * 50 = M + (rest + 50 * more)
            BY <1>2, <1>4
        <3> HIDE DEF wrap, more, rest, k, phase
        <3>3. (e + (wrap + more) * 50) % M = rest + 50 * more
            <4> DEFINE x == M + (rest + 50 * more)
            <4>1. x \in 0 .. 2 * M - 1 /\ ~ (x < M) /\ x - M = rest + 50 * more
                BY <1>4
            <4> HIDE DEF x
            <4>2. x % M = x - M
                BY <4>1, WrapsOnce, M \in Nat \ {0}
            <4> QED BY <3>2, <4>1, <4>2 DEF x
        <3>4. ~ ((rest + 50 * more) % p < h)
            BY <1>4
        <3> QED BY <2>2, <3>1, <3>3, <3>4 DEF phase
    <2>3. CASE ~ (phase < h)
        <3>1. wrap \in 1 .. 2 * n
            BY <1>2, <1>3, <2>1
        <3>2. e + wrap * 50 = M + rest
            BY <1>2
        <3> HIDE DEF wrap, more, rest, k, phase
        <3>3. (e + wrap * 50) % M = rest
            <4> DEFINE x == M + rest
            <4>1. x \in 0 .. 2 * M - 1 /\ ~ (x < M) /\ x - M = rest
                BY <1>2
            <4> HIDE DEF x
            <4>2. x % M = x - M
                BY <4>1, WrapsOnce, M \in Nat \ {0}
            <4> QED BY <3>2, <4>1, <4>2 DEF x
        <3>4. rest % p < h
            BY <1>2
        <3> QED BY <2>3, <3>1, <3>3, <3>4 DEF phase
    <2> QED BY <2>2, <2>3
<1> QED BY <1>5, <1>6

\* With its refresh period of 50 ms and any range of the counter that holds half the
\* longest period and one refresh more, a blinking lamp changes within one period,
\* also while the counter wraps (alarm_output_timing.c:20-39, rtos_port_freertos.c:330-348).
THEOREM FirmwareLampWillChange ==
    ASSUME RefreshPeriod = 50, ElapsedModulus >= 550
    PROVE  FirmwareSpec => []LampWillChange
<1>1. TypeOK => LampWillChange
    <2> SUFFICES ASSUME elapsed \in 0 .. ElapsedModulus - 1, state # None,
                        alarm_output_command_for_state(state).lamp, state \in Published
                 PROVE  LampWillChange
        BY DEF TypeOK, LampWillChange
    <2> DEFINE command == alarm_output_command_for_state(state)
               p == command.period
               h == p \div 2
               n == (h + 49) \div 50
               On(k) == alarm_output_indicator_is_on(
                            command, (elapsed + k * RefreshPeriod) % ElapsedModulus)
    <2>1. command.lamp /\ p \in {250, 500, 1000}
        <3>1. state \in {"WARNING", "ALARM", "SENSOR_FAULT"}
            BY OutputAssumption DEF alarm_output_command_for_state, States
        <3> QED BY <3>1 DEF alarm_output_command_for_state
    <2>2. ASSUME NEW ms \in Nat
          PROVE  alarm_output_indicator_is_on(command, ms) = (ms % p < h)
        <3> HIDE DEF command
        <3>1. p # 0 /\ (p + 1) \div 2 = h
            BY <2>1
        <3>2. alarm_output_indicator_is_on(command, ms)
                  = (command.lamp /\ (p = 0 \/ ms % p < (p + 1) \div 2))
            BY DEF alarm_output_indicator_is_on
        <3> HIDE DEF p, h
        <3> QED BY <2>1, <3>1, <3>2
    <2> HIDE DEF p
    <2>3. /\ h \in {125, 250, 500} /\ p = 2 * h /\ n \in 3 .. 10 /\ 50 * n \in h .. h + 49
          /\ 2 * n <= p \div 50 + 1
        BY <2>1
    <2>4. /\ ElapsedModulus \in Nat /\ elapsed % ElapsedModulus = elapsed /\ elapsed \in Nat
          /\ ElapsedModulus >= 550 /\ elapsed \in 0 .. ElapsedModulus - 1
        BY OutputAssumption
    <2> HIDE DEF h, n, command
    <2>5. PICK k \in 1 .. 2 * n :
              (((elapsed + k * 50) % ElapsedModulus) % p < h) # (elapsed % p < h)
        <3>1. LeavesItsHalf(ElapsedModulus, elapsed, p, h, n)
            BY <2>1, <2>3, <2>4, HalvesAreLeft
        <3> QED BY <3>1 DEF LeavesItsHalf
    <2>6. On(k) # On(0)
        <3>1. On(k) = (((elapsed + k * 50) % ElapsedModulus) % p < h)
            <4>1. (elapsed + k * RefreshPeriod) % ElapsedModulus \in Nat
                BY <2>4
            <4> QED BY <2>2, <4>1
        <3>2. On(0) = (elapsed % p < h)
            <4>1. (elapsed + 0 * RefreshPeriod) % ElapsedModulus = elapsed
                BY <2>4
            <4> QED BY <2>2, <4>1
        <3> QED BY <2>5, <3>1, <3>2
    <2>7. k \in 1 .. p \div RefreshPeriod + 1
        BY <2>1, <2>3, <2>5
    <2> QED BY <2>6, <2>7 DEF LampWillChange, command, p
<1> QED BY <1>1, FirmwareTypeOK, PTL

===============================================================================
