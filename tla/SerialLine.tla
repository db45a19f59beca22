------------------------------- MODULE SerialLine -------------------------------
(***************************************************************************)
(* From bytes to commands: drivers/src/serial_line.c assembles lines,      *)
(* serial_command_ingress.c hands each complete one to the parser and      *)
(* submits the command, serial_command_ingress_pump.c does so for a        *)
(* bounded number of bytes per poll.  (serial_command_service.c and        *)
(* serial_command_pump.c wrap the same reader in the same way.)            *)
(***************************************************************************)
EXTENDS Integers, Sequences, FiniteSets

CONSTANTS
    Printable,          \* the bytes that end no line
    CR, LF,
    RxCapacity,         \* sizeof of the receive buffer, its '\0' included
    LineCapacity,       \* sizeof of the line buffer
    MaxBytesPerPoll,    \* COMMAND_INGRESS_MAX_BYTES_PER_POLL
    StreamLength        \* bound: the bytes a behaviour types

LineEnd == {CR, LF}
Byte == Printable \cup LineEnd

ASSUME LineAssumption ==
    /\ CR # LF /\ Printable \cap LineEnd = {}
    /\ RxCapacity \in Nat \ {0} /\ LineCapacity \in Nat \ {0}
    /\ MaxBytesPerPoll \in Nat \ {0} /\ StreamLength \in Nat

VARIABLES
    typed,              \* history: every byte the terminal sent; with a USART in
                        \* between (UsartLink), every byte the pump read from it
    fed,                \* how many of them the reader has been fed
    buffer,             \* reader->buffer, up to reader->length
    previous_was_cr,    \* reader->previous_was_cr
    status,             \* what the latest serial_command_ingress_feed returned
    polled,             \* bytes_read of the poll that is going on
    handed,             \* the lines given to the parser, in order
    handed_before       \* history: Len(handed) when the latest poll began

vars == <<typed, fed, buffer, previous_was_cr, status, polled, handed, handed_before>>

-------------------------------------------------------------------------------
\* What serial_line_feed does to the reader, and the line it completes, if any.
Fed(line, b, cr, result) == [line |-> line, buffer |-> b, cr |-> cr, status |-> result]

complete_line(cr) ==
    CASE buffer = <<>>               -> Fed(<<>>, buffer, cr, "IDLE")
      [] Len(buffer) >= LineCapacity -> Fed(<<>>, <<>>, FALSE, "OVERFLOW")
      [] OTHER                       -> Fed(buffer, <<>>, FALSE, "LINE_READY")

\* Faulty variant: the byte that did not fit starts the buffer anew.
FeedKeepsTheByte(byte) ==
    IF byte \in LineEnd THEN complete_line(byte = CR)
    ELSE IF Len(buffer) + 1 >= RxCapacity
    THEN Fed(<<>>, <<byte>>, FALSE, "OVERFLOW")
    ELSE Fed(<<>>, Append(buffer, byte), FALSE, "IDLE")

\* Faulty variant: no room is left for the closing '\0'.
FeedFillsTheBuffer(byte) ==
    IF byte \in LineEnd THEN complete_line(byte = CR)
    ELSE IF Len(buffer) >= RxCapacity
    THEN Fed(<<>>, <<>>, FALSE, "OVERFLOW")
    ELSE Fed(<<>>, Append(buffer, byte), FALSE, "IDLE")

\* An overflow drops the buffer and the byte, and keeps nothing to tell that
\* the line it belongs to has not ended.
serial_line_feed(byte) ==
    IF byte = LF /\ previous_was_cr /\ buffer = <<>>
    THEN Fed(<<>>, buffer, FALSE, "IDLE")
    ELSE IF byte \in LineEnd THEN complete_line(byte = CR)
    ELSE IF Len(buffer) + 1 >= RxCapacity THEN Fed(<<>>, <<>>, FALSE, "OVERFLOW")
    ELSE Fed(<<>>, Append(buffer, byte), FALSE, "IDLE")

-------------------------------------------------------------------------------
\* serial_line_reader_init
Init ==
    /\ typed = <<>> /\ fed = 0
    /\ buffer = <<>>
    /\ previous_was_cr = FALSE
    /\ status = "IDLE"
    /\ polled = 0
    /\ handed = <<>> /\ handed_before = 0

Type(byte) ==
    /\ Len(typed) < StreamLength
    /\ typed' = Append(typed, byte)
    /\ UNCHANGED <<fed, buffer, previous_was_cr, status, polled, handed, handed_before>>

\* Faulty variant: the pump goes on after a command was submitted.
GoesOnUnlessError(result) == result \in {"IDLE", "COMMAND_SUBMITTED"}

\* The pump goes on with the next byte.
GoesOn(result) == result = "IDLE"

\* One turn of the pump's loop with serial_command_ingress_feed in it.  A line is
\* submitted as whatever it parses to; submitting fails when the queue is full,
\* and the command is then gone.
Feed ==
    /\ fed < Len(typed)
    /\ polled < MaxBytesPerPoll
    /\ LET reader == serial_line_feed(typed[fed + 1])
           ready  == reader.status = "LINE_READY"
       IN  /\ fed' = fed + 1
           /\ buffer' = reader.buffer
           /\ previous_was_cr' = reader.cr
           /\ status' \in IF ready THEN {"COMMAND_SUBMITTED", "ERROR"} ELSE {reader.status}
           /\ handed' = IF ready THEN Append(handed, reader.line) ELSE handed
           /\ polled' = IF GoesOn(status') THEN polled + 1 ELSE 0
    /\ handed_before' = IF polled = 0 THEN Len(handed) ELSE handed_before
    /\ UNCHANGED typed

\* No byte is waiting, or the poll has had its share: the next one begins.
PollEnds ==
    /\ polled > 0
    /\ fed = Len(typed) \/ polled = MaxBytesPerPoll
    /\ polled' = 0
    /\ UNCHANGED <<typed, fed, buffer, previous_was_cr, status, handed, handed_before>>

Next == (\E byte \in Byte : Type(byte)) \/ Feed \/ PollEnds

Spec == Init /\ [][Next]_vars

-------------------------------------------------------------------------------
TypeOK ==
    /\ typed \in Seq(Byte)
    /\ fed \in 0 .. Len(typed)
    /\ buffer \in Seq(Printable) /\ Len(buffer) < RxCapacity
    /\ previous_was_cr \in BOOLEAN
    /\ status \in {"IDLE", "COMMAND_SUBMITTED", "OVERFLOW", "ERROR"}
    /\ polled \in 0 .. MaxBytesPerPoll
    /\ handed \in Seq(Seq(Printable))
    /\ handed_before \in Nat

\* How many bytes before position i belong to the line that i belongs to, or ends.
LineLength(stream, i) ==
    Cardinality({j \in 1 .. i - 1 : \A k \in j .. i - 1 : stream[k] \notin LineEnd})

TextBefore(stream, i) == SubSeq(stream, i - LineLength(stream, i), i - 1)

\* What the reader has of that text when it has seen all of it: as long as it
\* fits, everything; each time it does not, everything so far is dropped.
Remainder(stream, i) == SubSeq(stream, i - (LineLength(stream, i) % RxCapacity), i - 1)

\* Reference definition over the whole stream: CR, LF, CRLF and empty lines
\* separate the texts, and of each the remainder is handed over if it fits.
\* These are the positions up to n that end such a line.
Completing(stream, n) ==
    {i \in 1 .. n : /\ stream[i] \in LineEnd
                    /\ Remainder(stream, i) # <<>>
                    /\ Len(Remainder(stream, i)) < LineCapacity}

\* Which one of the positions in S is i.
Rank(i, S) == Cardinality({j \in S : j <= i})

\* However the bytes arrive and are polled, the parser gets exactly the lines the
\* reference definition finds in the stream: none twice, merged, lost or empty
\* (serial_line.c:89-114).
FramingIsExact ==
    LET complete == Completing(typed, fed)
    IN  /\ Len(handed) = Cardinality(complete)
        /\ \A i \in complete : handed[Rank(i, complete)] = Remainder(typed, i)

\* A poll hands over at most one line, so no poll can flood the command queue;
\* FreeRtosPort's CommPollIngress rests on it.
AtMostOneLinePerPoll == Len(handed) <= handed_before + 1

\* Claimed by the repository's text on the line buffer: a full buffer is reset so
\* that the broken command does not pollute what follows.  So every line that is
\* executed is a whole line of the terminal.
ExecutedLinesAreWhole ==
    \A n \in 1 .. Len(handed) :
        \E i \in 1 .. Len(typed) :
            typed[i] \in LineEnd /\ handed[n] = TextBefore(typed, i)

===============================================================================
