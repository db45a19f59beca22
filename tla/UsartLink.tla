------------------------------- MODULE UsartLink -------------------------------
(***************************************************************************)
(* The serial line with the USART under it: drivers/src/stm32_usart.c has  *)
(* one byte of room in each direction, stm32_usart_serial_io.c reads       *)
(* without waiting and writes byte by byte, waiting for TXE a bounded      *)
(* number of times.  Above it is one of the two readers of the firmware:   *)
(*                                                                         *)
(*   "loop"  main's bare USART2 loop: poll, answer at once, poll again     *)
(*   "task"  communication_task: poll, queue the answer, drain the queue   *)
(*           to the writer, and wait up to 20 ticks when nothing came      *)
(*                                                                         *)
(* Neither reads while it writes or waits; a byte that comes in then stays *)
(* in the data register, and the ones after it are lost.                   *)
(***************************************************************************)
EXTENDS SerialLine

CONSTANTS
    AnswerLength,   \* the bytes of an answer
    AnswerQueue     \* rtos_queue_descriptor_t.length of the response queue

ASSUME LinkAssumption == AnswerLength \in Nat \ {0} /\ AnswerQueue \in Nat \ {0}

VARIABLES
    reader,     \* which of the two readers is built in
    patient,    \* the terminal awaits the answer to a line before it sends the next
    wire,       \* history: every byte the terminal sent
    rdr,        \* the received byte in registers->dr, <<>> while RXNE is 0
    pc,         \* where the reader is: polling, writing or waiting
    answers,    \* the answers not written yet, named by the number of their line
    position,   \* serial_io_write: the bytes of the head answer it has written
    txe,        \* TXE: registers->dr takes a byte to send
    accepted,   \* history: the answers that were formatted and queued
    screen      \* history: the bytes sent, each with its answer and place in it

linkVars == <<reader, patient, wire, rdr, pc, answers, position, txe, accepted, screen>>

Sent(answer, place) == [answer |-> answer, place |-> place]

\* Where on the screen an answer is complete.
Completed == {k \in 1 .. Len(screen) : screen[k].place = AnswerLength}

LinkInit ==
    /\ Init
    /\ reader \in {"loop", "task"} /\ patient \in BOOLEAN
    /\ wire = <<>> /\ rdr = <<>>
    /\ pc = "poll"
    /\ answers = <<>> /\ position = 0 /\ txe = TRUE
    /\ accepted = <<>> /\ screen = <<>>

-------------------------------------------------------------------------------
(* The terminal and the two registers.                                     *)

\* The line the latest byte ended is answered, or there was nothing to answer.
NothingAwaited ==
    (wire # <<>> /\ wire[Len(wire)] \in LineEnd)
        => Cardinality(Completed) = Cardinality(Completing(wire, Len(wire)))

EndsCrlf(byte) == byte = LF /\ wire # <<>> /\ wire[Len(wire)] = CR

\* A turn of the poll is short against a byte on the line: while the reader
\* polls, no second byte comes before it has taken the first.  A patient
\* terminal sends nothing before its answer but the LF of a CRLF.
Arrive(byte) ==
    /\ Len(wire) < StreamLength
    /\ pc = "poll" => rdr = <<>>
    /\ patient => (NothingAwaited \/ EndsCrlf(byte))
    /\ wire' = Append(wire, byte)
    /\ rdr' = IF rdr = <<>> THEN <<byte>> ELSE rdr
    /\ UNCHANGED <<vars, reader, patient, pc, answers, position, txe, accepted, screen>>

\* The byte in the data register has gone to the shift register.
TransmitterEmpties ==
    /\ ~ txe
    /\ txe' = TRUE
    /\ UNCHANGED <<vars, reader, patient, wire, rdr, pc, answers, position, accepted, screen>>

-------------------------------------------------------------------------------
(* Reading.                                                                *)

\* stm32_usart_serial_io_read_byte, called by the pump while its poll has room.
ReadByte ==
    /\ pc = "poll"
    /\ fed = Len(typed) /\ polled < MaxBytesPerPoll
    /\ rdr # <<>>
    /\ Type(Head(rdr))
    /\ rdr' = <<>>
    /\ UNCHANGED <<reader, patient, wire, pc, answers, position, txe, accepted, screen>>

\* Faulty variant: the bare loop sleeps between two polls.
RestsAlways == "wait"

\* Where the reader goes on when a poll brought no command.
Rests == IF reader = "loop" THEN "poll" ELSE "wait"

\* A command that was submitted is answered before the next poll: by the loop at
\* once, by the task through its queue, drained only if this answer had room.
Answered ==
    /\ IF reader = "loop" \/ Len(answers) < AnswerQueue
       THEN /\ answers' = Append(answers, Len(handed'))
            /\ accepted' = Append(accepted, Len(handed'))
            /\ pc' = "write"
       ELSE /\ UNCHANGED <<answers, accepted>>
            /\ pc' = "poll"

FeedByte ==
    /\ pc = "poll"
    /\ Feed
    /\ IF status' = "COMMAND_SUBMITTED" THEN Answered
       ELSE /\ UNCHANGED <<answers, accepted>>
            /\ pc' = IF GoesOn(status') THEN "poll" ELSE Rests
    /\ UNCHANGED <<reader, patient, wire, rdr, position, txe, screen>>

\* The read callback had no byte, or the poll has had its share.
PollRests ==
    /\ pc = "poll"
    /\ rdr = <<>> \/ polled = MaxBytesPerPoll
    /\ \/ PollEnds /\ fed = Len(typed)
       \/ polled = 0 /\ fed = Len(typed) /\ reader = "task" /\ UNCHANGED vars
    /\ pc' = Rests
    /\ UNCHANGED <<reader, patient, wire, rdr, answers, position, txe, accepted, screen>>

\* xQueueReceive of the task gives up after 20 ticks.
WaitEnds ==
    /\ pc = "wait"
    /\ pc' = "poll"
    /\ UNCHANGED <<vars, reader, patient, wire, rdr, answers, position, txe, accepted, screen>>

-------------------------------------------------------------------------------
(* Writing: stm32_usart_serial_io_write within the loop's feed or the      *)
(* task's drain.                                                           *)

WriteByte ==
    /\ pc = "write" /\ txe
    /\ txe' = FALSE
    /\ screen' = Append(screen, Sent(Head(answers), position + 1))
    /\ IF position + 1 < AnswerLength
       THEN /\ position' = position + 1
            /\ UNCHANGED <<answers, pc>>
       ELSE /\ position' = 0
            /\ answers' = Tail(answers)
            /\ pc' = IF answers' = <<>> THEN "poll" ELSE "write"
    /\ UNCHANGED <<vars, reader, patient, wire, rdr, accepted>>

\* Faulty variant: the drain takes the answer off the queue before the write.
TimeoutDropsAnswer ==
    /\ pc = "write" /\ ~ txe
    /\ position' = 0
    /\ answers' = Tail(answers)
    /\ pc' = "poll"
    /\ UNCHANGED <<vars, reader, patient, wire, rdr, txe, accepted, screen>>

\* TXE stayed 0 for max_poll_attempts.  The loop drops the answer, the task keeps
\* it whole for its next drain.
WriteTimesOut ==
    /\ pc = "write" /\ ~ txe
    /\ position' = 0
    /\ answers' = IF reader = "loop" THEN Tail(answers) ELSE answers
    /\ pc' = "poll"
    /\ UNCHANGED <<vars, reader, patient, wire, rdr, txe, accepted, screen>>

LinkNext == \/ (\E byte \in Byte : Arrive(byte)) \/ TransmitterEmpties
            \/ ReadByte \/ FeedByte \/ PollRests \/ WaitEnds
            \/ WriteByte \/ WriteTimesOut

LinkSpec == LinkInit /\ [][LinkNext]_<<vars, linkVars>>

-------------------------------------------------------------------------------
(* Properties                                                              *)

\* A terminal that awaits its answers loses no byte to the bare loop, although
\* the loop is deaf while it writes and the LF of a CRLF comes in just then
\* (stm32_usart.c:95-102, serial_command_service.c:57-104).
PatientTerminalIsHeard ==
    reader = "loop" /\ patient => wire = typed \o rdr

\* Every byte but an answer's first comes right behind the byte before it.
BytesAreInOrder ==
    \A k \in 1 .. Len(screen) :
        screen[k].place > 1 =>
            k > 1 /\ screen[k - 1] = Sent(screen[k].answer, screen[k].place - 1)

\* What comes out of the task is every answer its queue accepted, whole, once and
\* in order; in between there are only abandoned beginnings of the next one, each
\* from its first byte (rtos_port_freertos.c:215-223, stm32_usart_serial_io.c:40-61).
AnswersComeWhole ==
    reader = "task" =>
        /\ Len(accepted) = Cardinality(Completed) + Len(answers)
        /\ \A k \in Completed : screen[k].answer = accepted[Rank(k, Completed)]
        /\ \A n \in 1 .. Len(answers) : answers[n] = accepted[Cardinality(Completed) + n]
        /\ BytesAreInOrder

===============================================================================
