# A verification of embedded-workbench in TLA+

This directory models `embedded-workbench`, the STM32/FreeRTOS environment
monitor of this repository, in TLA+: how it boots and checks itself, what its
modules decide, how its text protocol is read, how its four tasks, five queues
and serial line interact, and what happens when creations fail, queues are full,
writes fail, bytes get lost or steps interleave. TLC checks the models on small
instances and TLAPS proves the results that matter most for every instance.

All paths below are relative to `src/`. `PROJECT.json` maps every definition to
the lines it stands for, lists every hazard with the properties that cover it,
and gives for every checked property a plausible bug that breaks it. The bugs
are definitions in the modules marked *Faulty variant*.

## 1. Inventory

| part | state | operations | interacts with |
|---|---|---|---|
| **alarm decision** `app/src/alarm_state.c`, `drivers/src/sensor_sample.c` | none | `alarm_state_update`, `alarm_config_is_valid`, range check | called by the next three |
| **environment processor** `app/src/environment_processor.c` | thresholds, alarm state | `process_sample` (with a publish callback), `update_config` | lives in the `env_process` task |
| **command handler, responder** `app/src/command_handler.c`, `command_responder.c` | the owner's thresholds, state, sample | one per command type | lives in the `communication` task |
| **FreeRTOS port** `app/src/rtos_port_freertos.c`, `rtos_task_model.c`, `rtos_port.c` | five queues, four task loops with their locals, the handles | the task loops, `rtos_port_*`, creation of queues and tasks, start of the scheduler | everything |
| **sensor acquisition** `app/src/sensor_acquisition.c` | counters | `poll` | source -> sample queue |
| **filter and sources** `drivers/src/sensor_sample_filter.c`, `filtered_sensor_source.c`, `sequence_sensor_source.c` | kept sample | `init`, `apply`, `reset`, `read` | in front of acquisition |
| **alarm output** `app/src/alarm_output*.c` | command, elapsed time, three pins | `command_for_state`, `indicator_is_on`, `sink_apply` | rendered by `alarm_output_task` |
| **serial line, ingress, pumps** `drivers/src/serial_line.c`, `app/src/serial_command_*.c` | bytes of the unfinished line | `feed`, `poll` | USART -> parser -> command queue |
| **command session, response format** `app/src/command_session.c`, `response_format.c` | owner's thresholds, state, sample; response buffer | `handle_line` | bare USART2 loop, `host_sim` |
| **command parser** `drivers/src/command_parser.c` | none | `parse` | ingress, session |
| **USART** `drivers/src/stm32_usart.c`, `stm32_usart_serial_io.c` | one byte of room in each direction | read without waiting, write with a bounded wait per byte | below the two readers and the writer |
| **GPIO, clocks, board** `drivers/src/stm32_gpio_config.c`, `stm32_rcc_*.c`, `stm32_board_*.c`, `bsp/` | registers | read-modify-write of fields | run once by `main`, and by its self checks on plain variables |
| **digital outputs** `drivers/src/digital_output.c`, `board_digital_output.c`, `stm32_gpio_output.c` | a level per output | write | below the alarm output |
| **firmware entry** `firmware/src/main.c`, `firmware/startup/` | readiness flags, self-check result, static contexts | self checks, scheduler start, bare loop | assembles all of it |
| **host simulator** `tools/host_sim/main.c` | none of its own | | session |

What is hard in this code:

- *Full queues.* Every `xQueueSend` has timeout 0 and most results are ignored:
  a sample, command, snapshot or announcement can vanish silently.
- *Two copies of the truth.* `env_process` and `communication` each hold
  thresholds and an alarm state; snapshots and samples flow one way only.
- *Publish then commit.* The processor announces a state before it adopts it.
- *Peek, write, receive.* An answer leaves the queue only after a write that succeeded;
  one that was refused, or of which a part went out, must wait there to be sent again.
- *Waking up.* `alarm_output` first waits without timeout; nothing wakes
  `env_process` for a snapshot; `communication` polls its line between waits.
- *Partial failure.* Three pin writes in a row; a command that takes effect
  before its answer is formatted; an answer of which part was written.
- *Creation that fails half way* and is called again, with items already queued.
- *A deaf reader.* The receiver holds one byte; whoever writes or waits loses what
  comes after it.
- *Checks that share what they check.* The self checks of `main` drive the alarm
  sink and borrow a USART context that the bare loop uses afterwards.
- *Boundaries.* Coinciding thresholds, integer truncation in the filter, a
  wrapping 32-bit millisecond counter, overlong lines, CR/LF combinations, the
  largest and the smallest 32-bit number, lines that are almost commands.

## 2. Modules

    AlarmState <- EnvironmentProcessor --implements--> AlarmLatches
        ^  ^
        |  '-- SampleFilter
        |
    CommandHandler <- CommandSession, CommandParser <- CommandLine --implements--> CommandSession
        ^
    FreeRtosPort --implements--> AlarmFeed
        ^
    PortLifecycle --implements--> FreeRtosPort

    SerialLine <- UsartLink --implements--> SerialLine
    AlarmOutput, Stm32Board <- FirmwareEntry

`FreeRtosPort` takes the outcome of a poll from `SerialLine` (a poll submits at
most one command) and hands the announced states over to `AlarmOutput`.

- `AlarmState` - pure operators for `alarm_state.c`. A sample and each threshold
  level is a function from channels to integers; a channel is *rising* or
  *falling* by the side that is dangerous. The four channels of the code are the
  instance in `Workbench`, which also holds the default thresholds and the task
  and queue table of `rtos_task_model.c`.
- `EnvironmentProcessor` - `environment_processor_t`, with a publish callback
  that may refuse. `AlarmLatches` is what hysteresis promises: two set-dominant
  latches over what the samples say.
- `CommandHandler` - pure operators for the effect of a parsed command, the
  responder's re-evaluation, and the lines of the answer.
- `FreeRtosPort` - the four task loops over the five queues. A step of a task
  runs to its next access of a queue or of the writer; `pc` is its place in the
  loop, and locals that outlive a step are variables. The scheduler is modelled
  by ready lists per priority: the head of the most urgent non-empty list runs, a
  send wakes the task blocked on its queue, a tick may rotate equal priorities,
  and delays elapse. `TasksNext` is what the tasks do, `CallersNext` what other
  code does through `rtos_port`. `Spec` is the port open to such code, `ClosedSpec`
  the port of the firmware, which leaves it to the tasks. `AlarmFeed` is the
  abstract alarm path: decide, announce in order without loss, show.
- `PortLifecycle` - the port from an empty context on: `freertos_rtos_port_init`,
  `freertos_start` task by task, `freertos_rtos_port_start_scheduler`. Any creation
  may fail, the caller may call again at any time and may send before the start.
- `AlarmOutput` - what `alarm_output_task` renders: blink phase and three writes.
- `Stm32Board` - registers as sets of bits, field writes, and the two board
  programs as chains of register operations, of which the first impossible one ends
  the chain, on a chip that ignores writes to a peripheral without clock.
- `FirmwareEntry` - `main` from reset: the set-up of the run-time contexts, the
  self checks on variables in the place of registers, the verdict, and the tasks'
  alarm output behind it; one action per stage, for every combination of build
  options.
- `SerialLine` - reader, ingress and pump, byte by byte.
- `UsartLink` - the USART under it: a data register of one byte that overruns, a
  transmitter that may stall, a write that times out; above it either the bare
  loop (poll, answer, poll) or `communication_task` (poll, queue, drain, wait).
- `CommandParser` - `command_parse` over lines of symbols (words, digits, signs,
  blanks, a line end), with integers of any width. The C code's `cursor` is a position
  in the line, `Stop` is where a loop over one kind of symbol leaves it; the digits of
  a number and the numbers of `SAMPLE` are taken in by recursive functions.
- `CommandSession` - the session with its bounded answer, and the service around
  it, as in the bare USART2 loop and `host_sim`. `CommandLine` puts the parser in
  front of it and defines, over the line as a whole, its `Readings`: every way to cut
  it into a keyword, names and numbers, the value of a number being the sum of what
  each digit counts at its place.
- `SampleFilter` - filter, source wrapper with its reset, and the decision behind
  them.
- `*Proofs` - theorems, one module per component. `MC*` - values for TLC only.

Abstractions worth knowing. A command is a record; an answer is its result, effect
and state (`FreeRtosPort`), lines with lengths (`CommandSession`), or numbered
bytes (`UsartLink`). A sensor may deliver any reading of a set at any time, a failed
read is a step without effect. `writer_ready` of `FreeRtosPort` changes at any time;
in `UsartLink` it is the state of the transmitter at each byte. `pc` values are
named for what the task does next.

## 3. What the runs check

| run | question | result |
|---|---|---|
| `env_processor` | Does the hysteresis settle, is it monotone in danger, can it fault, is it two latches? All valid and invalid thresholds and samples of a small grid, publish failing at any time. | holds |
| `firmware` | The firmware as built: its table of priorities, boot items, ingress, failing writer. Do thresholds follow the answers in spite of dropped snapshots, is data in flight valid, is the answer removed the one written, can the sample, command or event queue ever be full when something is sent? | holds |
| `open_port` | The same code in a hostile schedule: priorities turned over, queues of one, delays at any time, foreign users, from the first creation of a queue. Is what comes to run the port of `FreeRtosPort`, whatever failed before? Does a failed publish leave no trace, is the alarm path an ordered feed? | holds |
| `port_liveness` | Is every announced state shown, every snapshot taken, the line polled for ever? | holds under fairness |
| `answers_wedge` | Are answers that the writer refused retried (comment at `rtos_port_freertos.c:215-216`)? | **violated** |
| `stale_status` | Does `STATUS?` report the current state (`command_parser.h:10`)? | **violated** |
| `alarm_output` | Can anything but memory fail the self check, is the USART at run time the real one, do the pins have their roles and the others their reset values? Then: does the lamp keep blinking across the counter's wrap, are partial writes told and repaired? | holds |
| `serial_line` | Does the reader frame exactly the lines of what it received, one per poll at most? Does a terminal that awaits its answers lose a byte to the bare loop? Do the task's answers come out whole, once and in order? | holds |
| `overlong_line` | Is every executed line a whole line (`docs/learning/2026-05-08-串口行缓冲模块.md:47`)? | **violated** |
| `command_session` | Is each line read as the one command it can mean, or refused? Do state, thresholds and sample stay consistent, does only recovery end an ALARM, does every answer fit 512 bytes? | holds |
| `sample_filter` | Is the scaling exact, does smoothing ever invent an alarm, is a steady reading decided on? | holds |
| `small_answer` | Is a successful SET answered (`tests/test_command_session.c:103-104`) with the 256 bytes of `firmware/src/main.c:48`? | **violated** |

The four violations, told in full in `PROJECT.json` under `findings`:

1. `communication_task` drains answers to the writer only after a successful
   send. After four refused answers the response queue is full, no send succeeds,
   and nothing is written again, although the writer works.
2. `STATUS?` is answered from the communication task's private state and sample,
   which no sensor sample reaches.
3. An overlong line resets the buffer but not the line: its tail is executed.
4. In the bare USART2 loop the answer of every SET (350 characters with default
   values) exceeds the buffer; the SET takes effect and nothing is sent.

### Bounds, and why they are enough

- `env_processor`: one rising and one falling channel, a grid of readings with
  values outside the valid range. The decision compares each channel with its own
  thresholds only; two channels of opposite direction cover "any" and "all".
- `firmware`: the lengths of the code except two instead of four answers (the
  sample path does not depend on them, and two suffice for a full queue), one
  channel, three commands of which one is legal only after another, readings that
  are dangerous or invalid. `Schedulable` is `TRUE`: see below.
- `open_port`: queues of one make every send fail in some state; with two
  priority classes, time slicing and free delays, the order of steps is almost
  arbitrary. One command, a SAMPLE, is enough to cross the two paths into the
  sample queue; every subset of the queues may exist beforehand or fail to be
  created, and every task's creation may fail and be tried again.
- `port_liveness`, `answers_wedge`, `stale_status`: as `open_port` or `firmware`,
  with the commands the question needs.
- `alarm_output`: all 36 sensible combinations of build options, the reset values
  of GPIOA and GPIOB of the STM32F401, in which the debugger's pins are not 0. A
  counter that wraps at 1075: like 2^32 it is no multiple of 50, 250 or 1000, so
  the wrap falls inside a period; `LampWillChange` is about one step of the
  counter at a time. The states are those `env_process` announces. The bare loop
  and a build without scheduler stop here, hence no check for deadlock.
- `serial_line`: every stream of up to six bytes over two letters, CR and LF;
  buffers of three and two bytes, so each capacity is exceeded with bytes to spare;
  three bytes per poll, enough for a line end, a letter and a line end. An answer
  of two bytes can be torn, and an answer queue of two can be full and drained.
  The terminal stops at `StreamLength`, the only reason deadlock is not checked.
- `overlong_line`: a line reader alone, with streams of eight bytes.
- `command_session`: numbers of five bits, so that both bounds, the numbers next to
  them, zeros in front and digits behind are all among the lines; every SET and
  SAMPLE of a grid of readings as text; words run together, signs in the wrong
  place, text behind the end. The longest lines `response_format.c` can write (27,
  248, 155, 22 characters).
- `sample_filter`: the shares 1, 1/2 (the firmware's), 2/3 and 1/3, with dead
  zones of 0, 1, 1 and 2 units; a configuration whose levels coincide.

### Fairness

`port_liveness` assumes, of the closed port, that each finite delay elapses and each
task keeps being scheduled. The delays need strong fairness only because
`Schedulable` disables `DelayElapses` while equally or more urgent tasks are ready;
the tick itself never stops. Strong fairness of the tasks says that the work of a
period is short against the period (20 to 1000 ticks against a few microseconds of
work), so that a preempted task runs again and again. `Schedulable` is that same
fact as a constraint on safety runs; `open_port` does without it. No fairness is
assumed of sensors, callers, the terminal or the writer. `alarm_output` assumes
that, once the tasks run, the wait for events ends, by an event or its timeout;
`sample_filter` that valid readings are eventually read.

## 4. What is proved

Each `*Proofs` module works from the named assumption on the constants in the module
it is about; nothing else is assumed unless a theorem says so.

`EnvironmentProcessorProofs`, for any channels, ranges and thresholds: the
thresholds in force stay ordered; the state never becomes `SENSOR_FAULT`; an
unchanged reading settles the state after one decision; a reading at least as
dangerous never yields a milder state; the processor implements `AlarmLatches`.
The invariant is that the state is not a fault and the thresholds are valid; the
remaining work is in lemmas on `alarm_state_update`, which rest on the ordering
of the thresholds (`alarm` reached implies `warning` reached, and neither is
compatible with a full recovery beyond a coincidence).

`CommandHandlerProofs` has lemmas only, used by the next three: a command judged
against valid thresholds and sample leaves both valid, an effect tells of every
change, ALARM is held until recovery.

`FreeRtosPortProofs`, for any priorities, queue lengths, thresholds, commands and
readings (`PortAssumption`), of the open port unless said otherwise:

- `PortTypeOK`. Types alone are not inductive: `EnvCommit` copies `env_next`,
  which is a state only while the task is at `"commit"`. `LocalsInUse` ties each
  local to the places where it is in use, and is part of `TypeOK`.
- `PortImplementsAlarmFeed`. Under `TypeOK`, every step maps to a step of the feed
  or to a stutter: `EnvPublish` to the announcement, `EnvCommit` to a stutter,
  since the mapped `decided` is `env_next` from the publish on.
- `PortOutputFollowsDecision`, an invariant preserved by the steps of the feed.
- `PortDataStaysValid`. Each command is judged against valid thresholds, each
  sample is checked before it is sent.
- `PortConfigFollowsAnswers`, from the one before: an invalid snapshot would be
  taken off the queue and rejected, and the two copies would differ.
- `PortSensorPathNeverDrops`, of the closed port, where `PathFits`: the consumers at
  least as urgent as what feeds them (`env_process` more so), `communication` the
  least urgent, each task ready once, fewer boot items than the command and the event
  queue have room for, and periods long against the work of a cycle (`Schedulable`).
  `rtos_task_model.c:16-31` and `main.c:536-547` are such a table and such items, and
  with every run of the port TLC evaluates that `PathFits` holds of the firmware's
  table (`firmware` and the three runs on `ShortQueues`) and not of the inverted one. The invariant, `PathInv`: a blocked consumer has an
  empty queue; so `communication` runs only while nothing is in flight, and
  `sensor_acquire` polls with at most the boot samples in flight, because its delay
  elapses only when both consumers are blocked. With equal priorities for
  `sensor_acquire` and `alarm_output` the second part needs that count: an
  announcement can still wait while the next sample is read.
- `PortWrittenAnswerIsRemoved`, of the closed port, in which `communication` is the only
  consumer of the response queue. So it is in the firmware: the one other call of
  `rtos_port_receive_response`, `main.c:545`, is made before the scheduler starts. What
  the invariant guards is the order of peek, write and receive; that a write that failed
  loses no answer is `LinkAnswersComeWhole`.

`PortLifecycleProofs`: `LifecycleImplementsPort`, by which all of these but the
last two hold of a port that is first created. Up to the start of the scheduler the mapped
ready lists are those that creation leads to; the invariant, `LifecycleKeepsTable`,
says that the tasks that exist are the first rows of the table, that the ready lists
hold exactly them in that order, and that no task has left its first place. By
`LifecycleReadiesEachTaskOnce` no retry creates a task twice, which is the part of
`PathFits` about the ready lists.

`CommandLineProofs`, for any protocol, thresholds and lines: `SessionTypeOK` and
`SessionAlarmEndsByRecovery`; `SessionStateIsSettled`, if the first sample is settled
and a result line fits the buffer; `SessionChangeIsAnswered`, if the three lines of a
successful SET fit (the bare loop's buffer is the counterexample of `small_answer`);
and `LinesImplementSession`, by which the theorems on the session hold behind the
parser.

`ParserReadsExactly`, in the same module, says of every sequence of symbols of any
length that `command_parse` finds the one reading it has, or refuses it when it has
none; `LinesAreReadExactly` follows for every line of the system, with the invariant
that a waiting line is one of `Lines`. The argument:

- `StopIsFound`: the position where a loop stops exists and is the only one of its
  kind. Hence a token is a segment between blanks, and of the ways to cut the line
  only the parser's is possible (`WordOfItsOwn`, `WordIsRead`).
- `DigitIsAppendedExactly`: at any width a digit is taken in exactly when the number
  it yields is within the limit of its sign. `DigitsAddUp` carries that over the
  digits: what is taken of them so far is what they sum up to, or an overflow, and then
  the sum is beyond the limit and stays there. It relates a parser that multiplies
  from the left to a sum of weights counted from the right, so the statement is on the
  sum up to a digit, scaled by the weight of that digit.
- `NumberIsRead`: `parse_int32` succeeds exactly if a numeral within range starts
  there, with its value, and ends where it ends. A number may end at a sign, where the
  next one starts, but never between two digits.
- `SimpleIsExact`, `SetIsExact` and `SampleIsExact`, one for each form of command; the
  last follows the numbers of `SAMPLE` one by one.

The induction over positions that this needs is not one of the library's theorems,
which take an operator: `InductionFrom` states it for a set of positions and rests on
`LeastElement`, by which every set of numbers has a least one. `RecursionExists`
gives a recursive function over an interval its existence and `AgreeFrom` its
uniqueness.

`SampleFilterProofs`, for every share between 0 and 1: the scaling is the truncated
product, the kept sample stays within range, and no ALARM is invented. The invariant:
unless an alarm reading has been seen, no kept channel has reached its alarm level; a
filtered value lies between its neighbours, by lemmas on division with remainder.
`FilterApproachesReading` holds the steps behind the two `Steady` properties: a read
brings every channel strictly nearer to the reading until it is within the dead
zone and never past it, and a decision on a sample that near is the one the reading
calls for. That there are enough reads is fairness, and left to TLC.

`UsartLinkProofs`, for buffers, polls, answers and streams of any size:

- `LinkImplementsLine`: with the USART in between either reader is the line of
  `SerialLine` on what it received; from an invariant of that line, `LinkTypeOK` and
  `LinkAtMostOneLinePerPoll`.
- `LinkFramingIsExact`. That the lines handed over are the right ones says nothing of
  the line that is under way. `FrameInv` adds that the buffer is what the reference
  definition leaves of it; the step is then one byte, by lemmas on how the length of
  a line grows, how a remainder wraps at the buffer's size, and how one more
  position changes the rank of those before it (not at all).
- `LinkAnswersComeWhole`, with `LinkBytesAreInOrder` as its part on torn answers. The
  byte last sent is the one before `position` in the head answer (`LinkInv`), and
  the accepted answers are those complete on the screen followed by those queued
  (`AnswersInv`): a timeout takes none away, and a queue without room accepts none.
- `LinkPatientTerminalIsHeard`. The loop is writing only with everything fed and the
  answer to the line just completed in its hands (`LoopInv`); so, while an answer is
  awaited, the terminal has sent nothing behind the line but the LF of its CRLF, which
  the data register has room for, and the reader, fed an LF behind a CR, hands
  nothing over (`PatientInv`).

`FirmwareEntryProofs`, for any builds, reset values, refresh period and counter
range:

- `FirmwareTypeOK`, `FirmwareReportsStrayOutput`, and `FirmwareSerialIoIsReal`, the
  last from an invariant on which stage may point which context where.
- `FirmwareOtherPinsKeepTheirReset` and `FirmwarePinsHaveTheirRoles`. `FieldWritten`
  says what a field write leaves in every field of a register, and `ConfigurePin` what
  that means for one pin and all others; the two board programs follow operation by
  operation. `BoardInv` keeps what is already set up through the rest of `main`, in
  particular the outputs' roles through the initialisation of the USART, on the same
  port.
- `FirmwareOnlyMemoryFailsTheCheck`. `Verdicts` records after each stage what must
  have passed: every self check succeeds on variables, whatever is in the real
  registers, and the readiness flags say so.
- `FirmwareLampWillChange`, where `RefreshPeriod` is 50, as in
  `rtos_port_freertos.c:16`, and the counter's range is at least 550, as 2^32 is: half
  the longest period and one refresh. A step of 50 is too short to jump over a half,
  so the refresh that leaves the present half is in the other one, unless the counter
  wraps before. The wrap leads into the lit half; a lamp that was dark is then lit, and
  one that was lit is dark when that half is over, still within one period.

Only model-checked:

- all liveness - `AnnouncedIsShown`, `SnapshotIsTaken`, `LineIsPolledAgain`,
  `FailuresAreRepaired`, `SteadyDangerIsSeen` and `SteadyRecoveryIsSeen` - since the
  prover covers neither fairness nor `ENABLED`. The steps behind the two `Steady`
  properties are in `FilterApproachesReading`.

## 5. What is not modelled

- That `communication_task` hears whole lines at 9600 baud. It waits up to 20 ticks
  between polls, and a byte takes about one (1 ms): of a line typed without pause, `UsartLink`'s
  `"task"` reader loses bytes as a matter of course, and no property of delivery is
  stated for it (`hardware/nucleo-f401re-bringup.md:278` describes the board's
  session). What is checked is that the loss harms neither framing nor answers.
- The pins behind the alarm outputs: the firmware installs the in-memory
  `board_digital_output`, whose writes cannot fail; the models let any write fail.
  `stm32_gpio_output.c` (one store to BSRR per write) is used by tests only.
- The outputs between reset and the first event: the self check leaves them high,
  and `alarm_output_task` drives none before its first event. `FirmwareEntry` has
  that state; no document says what it should be.
- The 32 bytes of the parser's token buffer: a longer token is no word of the
  protocol, and either end of it makes the line invalid.
- `sequence_sensor_source.c`: three samples and then the last for ever, one of the
  behaviours of the models' sensor. Names for printing in `command_parser.c`.
- `Reset_Handler`'s copy loops and `memory.c`, and the self checks that compare
  constants (task table, board profile, one status line).
- `host_sim`: a front end without state of its own.
- Alarm events are announced per sample, so each restarts the blink phase;
  `LampWillChange` speaks of the time between two events.

## 6. Plan

Done, in this order: the decision, the processor, the port with its two
refinements, the components at its edges; then the creation of the port, the USART
under the line, the parser in front of the session, and the firmware's way from
reset to the tasks, with a module of theorems for each, until every invariant and
action property that a passing run checks is a theorem. What is left
is one composition from the wire to the decision, with `UsartLink`'s writer in the
place of `writer_ready`.
