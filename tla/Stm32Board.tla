------------------------------- MODULE Stm32Board -------------------------------
(***************************************************************************)
(* The registers that the firmware sets up, and the straight-line programs *)
(* that do it: drivers/src/stm32_gpio_config.c, stm32_rcc_gpio_clock.c,    *)
(* stm32_rcc_usart_clock.c, stm32_usart.c, stm32_board_gpio_init.c and     *)
(* stm32_board_usart2_init.c with the pins of bsp/src/board_profile.c.     *)
(*                                                                         *)
(* A register is the set of its bits that are 1.  A chip is either the     *)
(* microcontroller, which ignores what is written to a peripheral without  *)
(* clock, or the plain variables that the self checks put in its place.    *)
(***************************************************************************)
EXTENDS Integers, Sequences

Ports == {"PA", "PB"}

\* The bits of AHB1ENR and APB1ENR.
GpioClockBit == [port \in Ports |-> IF port = "PA" THEN 0 ELSE 1]
Usart2ClockBit == 17

AlarmPins == <<[port |-> "PA", pin |-> 5], [port |-> "PB", pin |-> 6], [port |-> "PB", pin |-> 7]>>
UsartPins == <<[port |-> "PA", pin |-> 2], [port |-> "PA", pin |-> 3]>>

\* Bits per pin in each register of a port; afr is afrl with afrh behind it.
Width == [moder |-> 2, otyper |-> 1, ospeedr |-> 2, pupdr |-> 2, afr |-> 4]
GpioRegisters == DOMAIN Width

Cleared == [register \in GpioRegisters |-> {}]

-------------------------------------------------------------------------------
Bits(value, width) == {b \in 0 .. width - 1 : (value \div 2 ^ b) % 2 = 1}
Place(bits, field, width) == {b + field * width : b \in bits}
Field(register, field, width) == {b \in 0 .. width - 1 : b + field * width \in register}

\* Faulty variant: the other pins' fields are not read back.
OverwriteField(register, field, width, value) == Place(Bits(value, width), field, width)

\* Read, clear the field, set its new value, write.
write_field(register, field, width, value) ==
    (register \ Place(0 .. width - 1, field, width)) \cup Place(Bits(value, width), field, width)

Chip(memory, gpio) ==
    [memory |-> memory, ahb1enr |-> {}, apb1enr |-> {}, gpio |-> gpio,
     usart |-> [brr |-> 0, cr1 |-> {}, cr2 |-> {}, cr3 |-> {}]]

GpioHasClock(chip, port) == chip.memory \/ GpioClockBit[port] \in chip.ahb1enr
UsartHasClock(chip) == chip.memory \/ Usart2ClockBit \in chip.apb1enr

configure_pin(chip, pin, config) ==
    IF ~ GpioHasClock(chip, pin.port) THEN chip
    ELSE [chip EXCEPT !.gpio[pin.port] = [register \in GpioRegisters |->
             IF register \in DOMAIN config
             THEN write_field(@[register], pin.pin, Width[register], config[register])
             ELSE @[register]]]

OutputConfig == [moder |-> 1, otyper |-> 0, ospeedr |-> 0, pupdr |-> 0]
UsartPinConfig == [moder |-> 2, otyper |-> 0, ospeedr |-> 3, pupdr |-> 1, afr |-> 7]

\* 16 MHz and 9600 baud, rounded to the nearest divisor.
BaudDivisor == (16000000 + 9600 \div 2) \div 9600
CR1_8N1 == {13, 3, 2}

configure_usart(chip) ==
    IF ~ UsartHasClock(chip) THEN chip
    ELSE [chip EXCEPT !.usart =
             [brr |-> BaudDivisor,
              cr1 |-> (@.cr1 \ {2, 3, 9, 10, 12, 13, 15}) \cup CR1_8N1,
              cr2 |-> @.cr2 \ {12, 13},
              cr3 |-> @.cr3 \ {8, 9}]]

-------------------------------------------------------------------------------
\* What a program has done so far, and whether every operation was: they are joined
\* by &&, so the first one on a port that the table does not name ends it.
Begun(chip) == [ok |-> TRUE, chip |-> chip]

Then(done, possible, chip) ==
    IF done.ok /\ possible THEN [ok |-> TRUE, chip |-> chip] ELSE [done EXCEPT !.ok = FALSE]

stm32_rcc_enable_gpio_port_clock(done, table, port) ==
    Then(done, port \in table, [done.chip EXCEPT !.ahb1enr = @ \cup {GpioClockBit[port]}])

stm32_gpio_configure(done, table, pin, config) ==
    Then(done, pin.port \in table, configure_pin(done.chip, pin, config))

stm32_rcc_enable_usart_clock(done) ==
    Then(done, TRUE, [done.chip EXCEPT !.apb1enr = @ \cup {Usart2ClockBit}])

stm32_usart_configure_8n1(done) == Then(done, TRUE, configure_usart(done.chip))

init_output_pin(done, table, pin) ==
    stm32_gpio_configure(stm32_rcc_enable_gpio_port_clock(done, table, pin.port),
                         table, pin, OutputConfig)

stm32_board_gpio_init_alarm_outputs(chip, table) ==
    LET led    == init_output_pin(Begun(chip), table, AlarmPins[1])
        buzzer == init_output_pin(led, table, AlarmPins[2])
    IN  init_output_pin(buzzer, table, AlarmPins[3])

\* Faulty variant: the pins are set up before their port has a clock.
PinsBeforeClock(chip, table) ==
    LET tx      == stm32_gpio_configure(Begun(chip), table, UsartPins[1], UsartPinConfig)
        rx      == stm32_gpio_configure(tx, table, UsartPins[2], UsartPinConfig)
        clocked == stm32_rcc_enable_gpio_port_clock(rx, table, UsartPins[1].port)
    IN  stm32_usart_configure_8n1(stm32_rcc_enable_usart_clock(clocked))

stm32_board_usart2_init(chip, table) ==
    LET clocked == stm32_rcc_enable_gpio_port_clock(Begun(chip), table, UsartPins[1].port)
        tx      == stm32_gpio_configure(clocked, table, UsartPins[1], UsartPinConfig)
        rx      == stm32_gpio_configure(tx, table, UsartPins[2], UsartPinConfig)
    IN  stm32_usart_configure_8n1(stm32_rcc_enable_usart_clock(rx))

-------------------------------------------------------------------------------
PinIs(chip, pin, config) ==
    /\ GpioHasClock(chip, pin.port)
    /\ \A register \in DOMAIN config :
         Field(chip.gpio[pin.port][register], pin.pin, Width[register])
           = Bits(config[register], Width[register])

UsartIsReady(chip) ==
    /\ UsartHasClock(chip)
    /\ chip.usart.brr = BaudDivisor
    /\ CR1_8N1 \subseteq chip.usart.cr1
    /\ \A i \in DOMAIN UsartPins : PinIs(chip, UsartPins[i], UsartPinConfig)

===============================================================================
