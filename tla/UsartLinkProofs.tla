----------------------------- MODULE UsartLinkProofs -----------------------------
(***************************************************************************)
(* What the serial line promises for any bytes, buffer sizes, poll sizes   *)
(* and streams: the lines the parser gets are those of the reference       *)
(* definition.  That it promises the same on the USART, where bytes get    *)
(* lost before they reach it; how the answers leave the USART; and that a  *)
(* terminal which awaits them is heard.                                    *)
(***************************************************************************)
EXTENDS UsartLink, SequenceTheorems, FiniteSetTheorems, TLAPS

-------------------------------------------------------------------------------
(* Counting                                                                *)

\* A later position joins a set: the positions before keep their rank, and it is
\* the last.
LEMMA RankGrows ==
    ASSUME NEW n \in Nat, NEW S \in SUBSET (1 .. n)
    PROVE  /\ IsFiniteSet(S) /\ Cardinality(S) \in Nat
           /\ Cardinality(S \cup {n + 1}) = Cardinality(S) + 1
           /\ \A i \in S : /\ Rank(i, S \cup {n + 1}) = Rank(i, S)
                            /\ Rank(i, S) \in 1 .. Cardinality(S)
           /\ Rank(n + 1, S \cup {n + 1}) = Cardinality(S) + 1
<1>1. IsFiniteSet(S)
    <2>1. IsFiniteSet(1 .. n)
        BY FS_Interval
    <2> QED BY <2>1, FS_Subset
<1>2. Cardinality(S) \in Nat
    BY <1>1, FS_CardinalityType
<1>3. Cardinality(S \cup {n + 1}) = Cardinality(S) + 1
    BY <1>1, FS_AddElement
<1>4. ASSUME NEW i \in S
      PROVE  Rank(i, S \cup {n + 1}) = Rank(i, S) /\ Rank(i, S) \in 1 .. Cardinality(S)
    <2> DEFINE upTo == {j \in S : j <= i}
    <2>1. {j \in S \cup {n + 1} : j <= i} = upTo
        BY <1>4
    <2>2. upTo \in SUBSET S /\ i \in upTo
        BY <1>4
    <2>3. IsFiniteSet(upTo) /\ Cardinality(upTo) <= Cardinality(S)
        BY <1>1, <2>2, FS_Subset
    <2>4. Cardinality(upTo) \in Nat /\ Cardinality(upTo) # 0
        BY <2>2, <2>3, FS_CardinalityType, FS_EmptySet
    <2> HIDE DEF upTo
    <2>5. Cardinality(upTo) \in 1 .. Cardinality(S)
        BY <1>2, <2>3, <2>4
    <2> QED BY <2>1, <2>5 DEF Rank, upTo
<1>5. {j \in S \cup {n + 1} : j <= n + 1} = S \cup {n + 1}
    <2>1. \A j \in S \cup {n + 1} : j <= n + 1
        OBVIOUS
    <2> QED BY <2>1
<1> QED BY <1>1, <1>2, <1>3, <1>4, <1>5 DEF Rank

LEMMA DivMod ==
    ASSUME NEW n \in Nat, NEW d \in Nat \ {0}
    PROVE  /\ n \div d \in Nat /\ n % d \in 0 .. d - 1
           /\ n = (n \div d) * d + (n % d)
<1>1. n \div d \in Nat /\ n % d \in 0 .. d - 1
    OBVIOUS
<1>2. \A x \in Int, y \in Int : y > 0 => x = (x \div y) * y + (x % y)
    BY SMTT(30)
<1> QED BY <1>1, <1>2

LEMMA ProductGrows ==
    ASSUME NEW x \in Nat, NEW y \in Nat, NEW z \in Nat, x <= y
    PROVE  x * z \in Nat /\ x * z <= y * z
OBVIOUS

LEMMA ModUnique ==
    ASSUME NEW d \in Nat \ {0}, NEW k \in Nat, NEW u \in 0 .. d - 1
    PROVE  (k * d + u) % d = u
<1> DEFINE n == k * d + u
           j == n \div d
           e == n % d
<1>1. n \in Nat
    OBVIOUS
<1>2. j \in Nat /\ e \in 0 .. d - 1 /\ n = j * d + e
    BY <1>1, DivMod
<1>3. k * d + u = j * d + e
    BY <1>2
<1> HIDE DEF j, e, n
<1>4. ASSUME k < j PROVE FALSE
    <2>1. (k + 1) * d <= j * d
        BY <1>2, <1>4, ProductGrows
    <2>2. (k + 1) * d = k * d + d
        OBVIOUS
    <2> QED BY <1>2, <1>3, <2>1, <2>2
<1>5. ASSUME j < k PROVE FALSE
    <2>1. (j + 1) * d <= k * d
        BY <1>2, <1>5, ProductGrows
    <2>2. (j + 1) * d = j * d + d
        BY <1>2
    <2> QED BY <1>2, <1>3, <2>1, <2>2
<1>6. j = k
    BY <1>2, <1>4, <1>5
<1>7. e = u
    BY <1>2, <1>3, <1>6
<1> QED BY <1>7 DEF e, n

LEMMA ModAtMost ==
    ASSUME NEW n \in Nat, NEW d \in Nat \ {0}
    PROVE  n % d \in 0 .. n
<1> DEFINE k == n \div d
           u == n % d
<1>1. k \in Nat /\ u \in 0 .. d - 1 /\ n = k * d + u
    BY DivMod
<1> HIDE DEF k, u
<1>2. k * d \in Nat
    BY <1>1, ProductGrows
<1> QED BY <1>1, <1>2 DEF u

\* Counting one further, modulo d.
LEMMA ModNext ==
    ASSUME NEW d \in Nat \ {0}, NEW n \in Nat
    PROVE  (n + 1) % d = IF (n % d) + 1 >= d THEN 0 ELSE (n % d) + 1
<1> DEFINE k == n \div d
           u == n % d
<1>1. k \in Nat /\ u \in 0 .. d - 1 /\ n = k * d + u
    BY DivMod
<1> HIDE DEF k, u
<1>2. CASE u + 1 >= d
    <2>1. n + 1 = (k + 1) * d + 0
        BY <1>1, <1>2
    <2>2. k + 1 \in Nat /\ 0 \in 0 .. d - 1
        BY <1>1
    <2> QED BY <1>2, <2>1, <2>2, ModUnique DEF u
<1>3. CASE ~ (u + 1 >= d)
    <2>1. n + 1 = k * d + (u + 1)
        BY <1>1
    <2>2. u + 1 \in 0 .. d - 1
        BY <1>1, <1>3
    <2> QED BY <1>1, <1>3, <2>1, <2>2, ModUnique DEF u
<1> QED BY <1>2, <1>3

-------------------------------------------------------------------------------
(* The reference definition                                                *)

\* One position further: a line end starts the count anew, every other byte adds one.
LEMMA LineGrows ==
    ASSUME NEW stream, NEW i \in Nat \ {0}
    PROVE  /\ LineLength(stream, i) \in 0 .. i - 1
           /\ LineLength(stream, 1) = 0
           /\ LineLength(stream, i + 1)
                = IF stream[i] \in LineEnd THEN 0 ELSE LineLength(stream, i) + 1
<1> DEFINE tail(n) == {j \in 1 .. n - 1 : \A k \in j .. n - 1 : stream[k] \notin LineEnd}
<1>1. \A n : LineLength(stream, n) = Cardinality(tail(n))
    BY DEF LineLength
<1>2. tail(i) \in SUBSET (1 .. i - 1)
    OBVIOUS
<1>3. IsFiniteSet(1 .. i - 1) /\ Cardinality(1 .. i - 1) = i - 1
    BY FS_Interval
<1>4. IsFiniteSet(tail(i)) /\ Cardinality(tail(i)) <= i - 1
    BY <1>2, <1>3, FS_Subset
<1>5. Cardinality(tail(i)) \in Nat
    BY <1>4, FS_CardinalityType
<1>6. tail(1) = {}
    OBVIOUS
<1>7. Cardinality({}) = 0
    BY FS_EmptySet
<1>8. ASSUME stream[i] \in LineEnd PROVE tail(i + 1) = {}
    <2>1. \A j \in 1 .. (i + 1) - 1 : i \in j .. (i + 1) - 1
        OBVIOUS
    <2> QED BY <1>8, <2>1
<1>9. ASSUME stream[i] \notin LineEnd PROVE tail(i + 1) = tail(i) \cup {i} /\ i \notin tail(i)
    <2>1. \A j \in 1 .. i : (\A k \in j .. i : stream[k] \notin LineEnd)
                <=> (j = i \/ \A k \in j .. i - 1 : stream[k] \notin LineEnd)
        BY <1>9
    <2> QED BY <2>1
<1>10. LineLength(stream, i) \in 0 .. i - 1
    BY <1>1, <1>4, <1>5
<1>11. LineLength(stream, 1) = 0
    BY <1>1, <1>6, <1>7
<1>12. stream[i] \in LineEnd => LineLength(stream, i + 1) = 0
    BY <1>1, <1>7, <1>8
<1>13. ASSUME stream[i] \notin LineEnd
       PROVE  LineLength(stream, i + 1) = LineLength(stream, i) + 1
    <2>1. Cardinality(tail(i) \cup {i}) = Cardinality(tail(i)) + 1
        BY <1>4, <1>9, <1>13, FS_AddElement
    <2> QED BY <1>1, <1>9, <1>13, <2>1
<1> HIDE DEF tail
<1> QED BY <1>10, <1>11, <1>12, <1>13

\* What the reader has kept of a line is shorter than its buffer.
LEMMA RemainderTyped ==
    ASSUME NEW stream \in Seq(Byte), NEW i \in 1 .. Len(stream) + 1
    PROVE  /\ LineLength(stream, i) % RxCapacity \in 0 .. i - 1
           /\ Remainder(stream, i) \in Seq(Byte)
           /\ Len(Remainder(stream, i)) = LineLength(stream, i) % RxCapacity
<1> DEFINE l == LineLength(stream, i)
           r == l % RxCapacity
<1>1. l \in 0 .. i - 1 /\ i \in Nat \ {0}
    <2>1. Len(stream) \in Nat
        OBVIOUS
    <2>2. i \in Nat \ {0}
        BY <2>1
    <2> QED BY <2>2, LineGrows
<1>2. r \in 0 .. l
    BY <1>1, LineAssumption, ModAtMost
<1>3. r \in 0 .. i - 1
    BY <1>1, <1>2
<1> HIDE DEF l, r
<1>4. \A j \in i - r .. i - 1 : stream[j] \in Byte
    BY <1>3
<1>5. /\ SubSeq(stream, i - r, i - 1) \in Seq(Byte)
      /\ Len(SubSeq(stream, i - r, i - 1)) = IF i - r <= i - 1 THEN (i - 1) - (i - r) + 1 ELSE 0
    BY <1>3, <1>4, SubSeqProperties
<1> QED BY <1>3, <1>5 DEF Remainder, l, r

\* The text before a position and whether it is handed over is a matter of the
\* bytes up to it.
LEMMA PrefixDecides ==
    ASSUME NEW s \in Seq(Byte), NEW t \in Seq(Byte), NEW n \in Nat,
           n <= Len(s), n <= Len(t), \A k \in 1 .. n : s[k] = t[k]
    PROVE  /\ \A i \in 1 .. n + 1 : LineLength(s, i) = LineLength(t, i)
           /\ \A i \in 1 .. n + 1 : Remainder(s, i) = Remainder(t, i)
           /\ Completing(s, n) = Completing(t, n)
<1>1. ASSUME NEW i \in 1 .. n + 1
      PROVE  LineLength(s, i) = LineLength(t, i) /\ Remainder(s, i) = Remainder(t, i)
    <2>1. LineLength(s, i) = LineLength(t, i)
        <3>1. \A j \in 1 .. i - 1 : \A k \in j .. i - 1 : s[k] = t[k]
            OBVIOUS
        <3>2. {j \in 1 .. i - 1 : \A k \in j .. i - 1 : s[k] \notin LineEnd}
                = {j \in 1 .. i - 1 : \A k \in j .. i - 1 : t[k] \notin LineEnd}
            BY <3>1
        <3> QED BY <3>2 DEF LineLength
    <2> DEFINE r == LineLength(s, i) % RxCapacity
    <2>2. i \in 1 .. Len(s) + 1 /\ i \in 1 .. Len(t) + 1
        OBVIOUS
    <2>3. r \in 0 .. i - 1
        BY <2>2, RemainderTyped
    <2>4. Remainder(s, i) = SubSeq(s, i - r, i - 1) /\ Remainder(t, i) = SubSeq(t, i - r, i - 1)
        BY <2>1 DEF Remainder
    <2> HIDE DEF r
    <2>5. \A j \in i - r .. i - 1 : j \in 1 .. n /\ s[j] \in Byte /\ t[j] \in Byte
        BY <2>3
    <2>6. /\ SubSeq(s, i - r, i - 1) \in Seq(Byte)
          /\ Len(SubSeq(s, i - r, i - 1)) = IF i - r <= i - 1 THEN (i - 1) - (i - r) + 1 ELSE 0
          /\ \A j \in 1 .. (i - 1) - (i - r) + 1 : SubSeq(s, i - r, i - 1)[j] = s[i - r + j - 1]
        BY <2>3, <2>5, SubSeqProperties
    <2>7. /\ SubSeq(t, i - r, i - 1) \in Seq(Byte)
          /\ Len(SubSeq(t, i - r, i - 1)) = IF i - r <= i - 1 THEN (i - 1) - (i - r) + 1 ELSE 0
          /\ \A j \in 1 .. (i - 1) - (i - r) + 1 : SubSeq(t, i - r, i - 1)[j] = t[i - r + j - 1]
        BY <2>3, <2>5, SubSeqProperties
    <2>8. \A j \in 1 .. (i - 1) - (i - r) + 1 : s[i - r + j - 1] = t[i - r + j - 1]
        BY <2>3, <2>5
    <2>9. Len(SubSeq(s, i - r, i - 1)) = r /\ Len(SubSeq(t, i - r, i - 1)) = r
          /\ (i - 1) - (i - r) + 1 = r
        BY <2>3, <2>6, <2>7
    <2>10. SubSeq(s, i - r, i - 1) = SubSeq(t, i - r, i - 1)
        <3> DEFINE u == SubSeq(s, i - r, i - 1)
                   v == SubSeq(t, i - r, i - 1)
        <3>1. u \in Seq(Byte) /\ v \in Seq(Byte) /\ Len(u) = Len(v)
              /\ \A j \in 1 .. Len(u) : u[j] = v[j]
            BY <2>6, <2>7, <2>8, <2>9
        <3> HIDE DEF u, v
        <3>2. u = v
            BY <3>1, SeqEqual
        <3> QED BY <3>2 DEF u, v
    <2> QED BY <2>1, <2>4, <2>10
<1>2. \A i \in 1 .. n : s[i] = t[i] /\ Remainder(s, i) = Remainder(t, i)
    BY <1>1
<1>3. Completing(s, n) = Completing(t, n)
    BY <1>2 DEF Completing
<1> QED BY <1>1, <1>3

-------------------------------------------------------------------------------
(* The reader                                                              *)

\* One byte: a line that is handed over holds no line end, and what is kept of the
\* line that is coming in leaves room for the closing '\0'.
LEMMA ReaderTyped ==
    ASSUME buffer \in Seq(Printable), Len(buffer) < RxCapacity,
           previous_was_cr \in BOOLEAN, NEW byte \in Byte
    PROVE  LET reads == serial_line_feed(byte)
           IN  /\ reads.buffer \in Seq(Printable) /\ Len(reads.buffer) < RxCapacity
               /\ reads.line \in Seq(Printable)
               /\ reads.cr \in BOOLEAN
               /\ reads.status \in {"IDLE", "OVERFLOW", "LINE_READY"}
<1>1. <<>> \in Seq(Printable) /\ Len(<<>>) = 0 /\ 0 < RxCapacity
    BY LineAssumption
<1>2. CASE byte \in LineEnd
    BY <1>1, <1>2 DEF serial_line_feed, complete_line, Fed
<1>3. CASE byte \notin LineEnd
    <2>1. byte \in Printable
        BY <1>3 DEF Byte
    <2>2. /\ Append(buffer, byte) \in Seq(Printable)
          /\ Len(Append(buffer, byte)) = Len(buffer) + 1
        BY <2>1
    <2>3. Len(buffer) \in Nat /\ RxCapacity \in Nat
        BY LineAssumption
    <2> QED
        BY <1>1, <1>3, <2>2, <2>3 DEF serial_line_feed, Fed, LineEnd
<1> QED
    BY <1>2, <1>3

\* A line is handed over at the end of a poll: as long as the poll goes on, none
\* has been.
LineInv ==
    /\ TypeOK
    /\ AtMostOneLinePerPoll
    /\ polled > 0 => Len(handed) = handed_before

LEMMA LineInvInit == Init => LineInv
<1> SUFFICES ASSUME Init PROVE LineInv
    OBVIOUS
<1>1. \A S : <<>> \in Seq(S) /\ Len(<<>>) = 0
    OBVIOUS
<1>2. TypeOK
    <2>1. typed \in Seq(Byte) /\ fed \in 0 .. Len(typed)
        BY <1>1 DEF Init
    <2>2. buffer \in Seq(Printable) /\ Len(buffer) < RxCapacity
        BY <1>1, LineAssumption DEF Init
    <2>3. handed \in Seq(Seq(Printable)) /\ handed_before \in Nat
        BY <1>1 DEF Init
    <2>4. polled \in 0 .. MaxBytesPerPoll
        BY LineAssumption DEF Init
    <2> QED
        BY <2>1, <2>2, <2>3, <2>4 DEF Init, TypeOK
<1>3. Len(handed) = 0 /\ handed_before = 0 /\ polled = 0
    BY <1>1 DEF Init
<1> QED
    BY <1>2, <1>3 DEF LineInv, AtMostOneLinePerPoll

LEMMA FeedKeepsLineInv == LineInv /\ Feed => LineInv'
<1> SUFFICES ASSUME LineInv, Feed PROVE LineInv'
    OBVIOUS
<1> DEFINE reads == serial_line_feed(typed[fed + 1])
           ready == reads.status = "LINE_READY"
<1>1. /\ fed < Len(typed) /\ polled < MaxBytesPerPoll
      /\ fed' = fed + 1
      /\ buffer' = reads.buffer
      /\ previous_was_cr' = reads.cr
      /\ status' \in IF ready THEN {"COMMAND_SUBMITTED", "ERROR"} ELSE {reads.status}
      /\ handed' = IF ready THEN Append(handed, reads.line) ELSE handed
      /\ polled' = IF GoesOn(status') THEN polled + 1 ELSE 0
      /\ handed_before' = IF polled = 0 THEN Len(handed) ELSE handed_before
      /\ UNCHANGED typed
    BY DEF Feed
<1>2. /\ typed \in Seq(Byte) /\ fed \in 0 .. Len(typed)
      /\ buffer \in Seq(Printable) /\ Len(buffer) < RxCapacity
      /\ previous_was_cr \in BOOLEAN
      /\ polled \in 0 .. MaxBytesPerPoll /\ MaxBytesPerPoll \in Nat
      /\ handed \in Seq(Seq(Printable)) /\ handed_before \in Nat
    BY LineAssumption DEF LineInv, TypeOK
<1>3. typed[fed + 1] \in Byte
    BY <1>1, <1>2
<1>4. /\ reads.buffer \in Seq(Printable) /\ Len(reads.buffer) < RxCapacity
      /\ reads.line \in Seq(Printable)
      /\ reads.cr \in BOOLEAN
      /\ reads.status \in {"IDLE", "OVERFLOW", "LINE_READY"}
    BY <1>2, <1>3, ReaderTyped
<1> HIDE DEF reads
<1>5. Len(handed) \in Nat /\ \A line \in Seq(Printable) :
            /\ Append(handed, line) \in Seq(Seq(Printable))
            /\ Len(Append(handed, line)) = Len(handed) + 1
    BY <1>2
<1>6. handed' \in Seq(Seq(Printable)) /\ Len(handed') \in {Len(handed), Len(handed) + 1}
    BY <1>1, <1>4, <1>5
<1>7. ready => status' # "IDLE"
    BY <1>1
<1>8. polled' > 0 => Len(handed') = Len(handed)
    BY <1>1, <1>5, <1>7 DEF GoesOn
<1>9. TypeOK'
    BY <1>1, <1>2, <1>4, <1>5, <1>6 DEF TypeOK
<1>10. Len(handed) = IF polled = 0 THEN Len(handed) ELSE handed_before
    BY <1>2 DEF LineInv
<1> QED
    BY <1>1, <1>5, <1>6, <1>8, <1>9, <1>10 DEF LineInv, AtMostOneLinePerPoll

LEMMA LineInvStep == LineInv /\ [Next]_vars => LineInv'
<1> SUFFICES ASSUME LineInv, [Next]_vars PROVE LineInv'
    OBVIOUS
<1>1. ASSUME NEW byte \in Byte, Type(byte) PROVE LineInv'
    <2>1. typed' \in Seq(Byte) /\ Len(typed') = Len(typed) + 1 /\ Len(typed) \in Nat
        BY <1>1 DEF Type, LineInv, TypeOK
    <2>2. fed' \in 0 .. Len(typed')
        BY <1>1, <2>1 DEF Type, LineInv, TypeOK
    <2> QED
        BY <1>1, <2>1, <2>2 DEF Type, LineInv, TypeOK, AtMostOneLinePerPoll
<1>2. CASE PollEnds
    BY <1>2, LineAssumption DEF PollEnds, LineInv, TypeOK, AtMostOneLinePerPoll
<1>3. CASE UNCHANGED vars
    BY <1>3 DEF vars, LineInv, TypeOK, AtMostOneLinePerPoll
<1> QED
    BY <1>1, <1>2, <1>3, FeedKeepsLineInv DEF Next

LEMMA LineInvHolds == Spec => []LineInv
BY LineInvInit, LineInvStep, PTL DEF Spec


\* What the reader keeps is what the reference definition leaves of the line.
FrameInv ==
    /\ buffer = Remainder(typed, fed + 1)
    /\ FramingIsExact

LEMMA FrameInvInit == Init => FrameInv
<1> SUFFICES ASSUME Init PROVE FrameInv
    OBVIOUS
<1>1. typed = <<>> /\ fed = 0 /\ buffer = <<>> /\ handed = <<>>
    BY DEF Init
<1>2. <<>> \in Seq(Byte) /\ Len(<<>>) = 0
    OBVIOUS
<1>3. Remainder(typed, fed + 1) = buffer
    <2>1. LineLength(typed, 1) = 0
        BY LineGrows
    <2>2. 0 % RxCapacity = 0
        BY LineAssumption, ModAtMost
    <2>3. SubSeq(typed, 1, 0) = <<>>
        BY SubSeqEmpty
    <2> QED BY <1>1, <2>1, <2>2, <2>3 DEF Remainder
<1>4. Completing(typed, fed) = {}
    BY <1>1 DEF Completing
<1>5. Len(handed) = 0
    BY <1>1
<1> QED BY <1>3, <1>4, <1>5, FS_EmptySet DEF FrameInv, FramingIsExact

LEMMA FeedKeepsFrame == LineInv /\ FrameInv /\ Feed => FrameInv'
<1> SUFFICES ASSUME LineInv, FrameInv, Feed PROVE FrameInv'
    OBVIOUS
<1> DEFINE i == fed + 1
           reads == serial_line_feed(typed[i])
           r == LineLength(typed, i) % RxCapacity
           before == Completing(typed, fed)
           after == Completing(typed, i)
           fits == buffer # <<>> /\ Len(buffer) < LineCapacity
<1>1. /\ fed < Len(typed) /\ fed' = i /\ buffer' = reads.buffer
      /\ handed' = IF reads.status = "LINE_READY" THEN Append(handed, reads.line) ELSE handed
      /\ UNCHANGED typed
    BY DEF Feed
<1>2. /\ typed \in Seq(Byte) /\ fed \in 0 .. Len(typed) /\ Len(typed) \in Nat
      /\ buffer \in Seq(Printable) /\ Len(buffer) < RxCapacity
      /\ handed \in Seq(Seq(Printable))
      /\ RxCapacity \in Nat \ {0} /\ LineCapacity \in Nat \ {0}
    BY LineAssumption DEF LineInv, TypeOK
<1>3. i \in 1 .. Len(typed) /\ i \in Nat \ {0} /\ i - 1 = fed /\ i + 1 = fed' + 1
      /\ typed[i] \in Byte /\ fed \in Nat
    BY <1>1, <1>2
<1>4. buffer = Remainder(typed, i)
    BY DEF FrameInv
<1>5. r \in 0 .. i - 1 /\ Len(buffer) = r
    BY <1>2, <1>3, <1>4, RemainderTyped
<1>6. LineLength(typed, i) \in Nat /\ LineLength(typed, i + 1)
        = IF typed[i] \in LineEnd THEN 0 ELSE LineLength(typed, i) + 1
    <2> HIDE DEF i
    <2>1. LineLength(typed, i) \in 0 .. i - 1
        BY <1>3, LineGrows
    <2>2. LineLength(typed, i + 1)
            = IF typed[i] \in LineEnd THEN 0 ELSE LineLength(typed, i) + 1
        BY <1>3, LineGrows
    <2> QED BY <2>1, <2>2
<1>7. after = IF typed[i] \in LineEnd /\ fits THEN before \cup {i} ELSE before
    <2>1. \A k \in 1 .. i : k \in 1 .. fed \/ k = i
        BY <1>3
    <2>2. \A k \in 1 .. fed : k \in 1 .. i /\ k # i
        BY <1>3
    <2>3. (i \in after) <=> (typed[i] \in LineEnd /\ fits)
        BY <1>3, <1>4 DEF Completing
    <2>4. \A k : k \in before <=> k # i /\ k \in after
        BY <2>1, <2>2 DEF Completing
    <2> HIDE DEF before, after, fits
    <2> QED BY <2>3, <2>4
<1>8. ASSUME buffer' = Remainder(typed, i + 1),
             handed' = IF typed[i] \in LineEnd /\ fits THEN Append(handed, buffer) ELSE handed
      PROVE  FrameInv'
    <2>1. Len(handed) = Cardinality(before)
          /\ \A k \in before : handed[Rank(k, before)] = Remainder(typed, k)
        BY DEF FrameInv, FramingIsExact
    <2>2. before \in SUBSET (1 .. fed)
        BY DEF Completing
    <2>4. CASE typed[i] \in LineEnd /\ fits
        <3>1. after = before \cup {fed + 1} /\ handed' = Append(handed, buffer)
            BY <1>7, <1>8, <2>4
        <3> HIDE DEF before, after
        <3>2. Cardinality(before) \in Nat /\ Cardinality(after) = Cardinality(before) + 1
              /\ Rank(fed + 1, after) = Cardinality(before) + 1
            BY <1>3, <2>2, <3>1, RankGrows
        <3>3. \A k \in before : Rank(k, after) = Rank(k, before)
                                /\ Rank(k, before) \in 1 .. Cardinality(before)
            BY <1>3, <2>2, <3>1, RankGrows
        <3>4. Len(handed') = Len(handed) + 1 /\ handed'[Len(handed) + 1] = buffer
              /\ \A k \in 1 .. Len(handed) : handed'[k] = handed[k]
            BY <1>2, <3>1
        <3>5. \A k \in after : handed'[Rank(k, after)] = Remainder(typed, k)
            <4>1. handed'[Rank(fed + 1, after)] = Remainder(typed, fed + 1)
                BY <1>4, <2>1, <3>2, <3>4
            <4>2. \A k \in before : handed'[Rank(k, after)] = Remainder(typed, k)
                BY <2>1, <3>3, <3>4
            <4> QED BY <3>1, <4>1, <4>2
        <3>6. Len(handed') = Cardinality(after)
            BY <2>1, <3>2, <3>4
        <3> QED BY <1>1, <1>8, <3>5, <3>6 DEF FrameInv, FramingIsExact, after
    <2>5. CASE ~ (typed[i] \in LineEnd /\ fits)
        <3>1. after = before /\ handed' = handed
            BY <1>7, <1>8, <2>5
        <3> QED BY <1>1, <1>8, <2>1, <3>1 DEF FrameInv, FramingIsExact
    <2> QED BY <2>4, <2>5
<1>9. CASE typed[i] \in LineEnd
    <2>1. buffer' = <<>> /\ handed' = IF fits THEN Append(handed, buffer) ELSE handed
        BY <1>1, <1>2, <1>9 DEF serial_line_feed, complete_line, Fed
    <2>2. Remainder(typed, i + 1) = <<>>
        <3>1. LineLength(typed, i + 1) % RxCapacity = 0
            BY <1>2, <1>6, <1>9, ModAtMost
        <3>2. SubSeq(typed, i + 1, i) = <<>>
            BY <1>3, SubSeqEmpty
        <3> QED BY <1>3, <3>1, <3>2 DEF Remainder
    <2> QED BY <1>8, <1>9, <2>1, <2>2
<1>10. CASE typed[i] \notin LineEnd
    <2>1. /\ buffer' = IF Len(buffer) + 1 >= RxCapacity THEN <<>> ELSE Append(buffer, typed[i])
          /\ handed' = handed
        BY <1>1, <1>10 DEF serial_line_feed, Fed, LineEnd
    <2>2. LineLength(typed, i + 1) % RxCapacity = IF r + 1 >= RxCapacity THEN 0 ELSE r + 1
        BY <1>2, <1>6, <1>10, ModNext
    <2>3. buffer' = Remainder(typed, i + 1)
        <3>1. CASE r + 1 >= RxCapacity
            <4>1. SubSeq(typed, i + 1, i) = <<>>
                BY <1>3, SubSeqEmpty
            <4> QED BY <1>3, <1>5, <2>1, <2>2, <3>1, <4>1 DEF Remainder
        <3>2. CASE ~ (r + 1 >= RxCapacity)
            <4>1. Remainder(typed, i + 1) = SubSeq(typed, i - r, i)
                <5>1. LineLength(typed, i + 1) % RxCapacity = r + 1
                    BY <2>2, <3>2
                <5>2. (i + 1) - (r + 1) = i - r /\ (i + 1) - 1 = i
                    BY <1>3, <1>5
                <5> HIDE DEF i, r
                <5> QED BY <5>1, <5>2 DEF Remainder
            <4>2. buffer = SubSeq(typed, i - r, i - 1)
                BY <1>4 DEF Remainder
            <4> HIDE DEF r, i
            <4>3. SubSeq(typed, i - r, i) = SubSeq(typed, i - r, i - 1) \o <<typed[i]>>
                <5>1. i - r \in 1 .. Len(typed) /\ i \in i - r .. Len(typed)
                    BY <1>2, <1>3, <1>5
                <5> QED BY <1>2, <5>1, SubSeqRecursiveSecond
            <4>4. SubSeq(typed, i - r, i - 1) \o <<typed[i]>> = Append(buffer, typed[i])
                <5>1. typed[i] \in Printable
                    BY <1>3, <1>10 DEF Byte
                <5> QED BY <1>2, <4>2, <5>1, AppendIsConcat
            <4> QED BY <1>5, <2>1, <3>2, <4>1, <4>3, <4>4
        <3> QED BY <3>1, <3>2
    <2> QED BY <1>8, <1>10, <2>1, <2>3
<1> QED BY <1>9, <1>10

LEMMA FrameInvStep == LineInv /\ FrameInv /\ [Next]_vars => FrameInv'
<1> SUFFICES ASSUME LineInv, FrameInv, [Next]_vars PROVE FrameInv'
    OBVIOUS
<1>1. ASSUME NEW byte \in Byte, Type(byte) PROVE FrameInv'
    <2>1. /\ typed \in Seq(Byte) /\ fed \in Nat /\ fed <= Len(typed)
          /\ typed' = Append(typed, byte)
          /\ UNCHANGED <<fed, buffer, handed>>
        BY <1>1 DEF Type, LineInv, TypeOK
    <2>2. typed' \in Seq(Byte) /\ fed <= Len(typed') /\ \A k \in 1 .. fed : typed[k] = typed'[k]
        BY <2>1
    <2>3. /\ Remainder(typed', fed + 1) = Remainder(typed, fed + 1)
          /\ Completing(typed', fed) = Completing(typed, fed)
          /\ \A k \in Completing(typed, fed) : Remainder(typed', k) = Remainder(typed, k)
        <3>1. fed + 1 \in 1 .. fed + 1 /\ Completing(typed, fed) \subseteq 1 .. fed + 1
            BY <2>1 DEF Completing
        <3> QED BY <2>1, <2>2, <3>1, PrefixDecides
    <2> QED BY <2>1, <2>3 DEF FrameInv, FramingIsExact
<1>2. CASE PollEnds
    BY <1>2 DEF PollEnds, FrameInv, FramingIsExact
<1>3. CASE UNCHANGED vars
    BY <1>3 DEF vars, FrameInv, FramingIsExact
<1> QED BY <1>1, <1>2, <1>3, FeedKeepsFrame DEF Next

-------------------------------------------------------------------------------
(* The link                                                                *)

\* The place of an answer's next byte is that behind the last one on the screen;
\* only a writer that has an answer writes.
LinkInv ==
    /\ rdr \in Seq(Byte)
    /\ pc \in {"poll", "wait", "write"}
    /\ answers \in Seq(Nat)
    /\ screen \in Seq([answer : Nat, place : Nat])
    /\ position \in Nat
    /\ pc = "write" => answers # <<>>
    /\ pc # "write" => position = 0
    /\ position > 0 => /\ screen # <<>>
                       /\ screen[Len(screen)] = Sent(Head(answers), position)
    /\ BytesAreInOrder

LEMMA LinkInvInit == LinkInit => LinkInv
<1> SUFFICES ASSUME LinkInit PROVE LinkInv
    OBVIOUS
<1>1. \A S : <<>> \in Seq(S) /\ Len(<<>>) = 0
    OBVIOUS
<1> QED
    BY <1>1 DEF LinkInit, LinkInv, BytesAreInOrder

\* On the wire, in the reader and while waiting nothing of the writer changes.
LEMMA ReadingKeepsLinkInv ==
    ASSUME LinkInv, UNCHANGED <<answers, position, screen>>, rdr' \in Seq(Byte),
           (pc' \in {"poll", "wait"} /\ pc # "write") \/ pc' = pc
    PROVE  LinkInv'
BY DEF LinkInv, BytesAreInOrder

LEMMA WritingKeepsLinkInv == LinkInv /\ WriteByte => LinkInv'
<1> SUFFICES ASSUME LinkInv, WriteByte PROVE LinkInv'
    OBVIOUS
<1> DEFINE byte == Sent(Head(answers), position + 1)
<1>1. /\ pc = "write" /\ answers \in Seq(Nat) /\ answers # <<>>
      /\ position \in Nat /\ screen \in Seq([answer : Nat, place : Nat])
      /\ screen' = Append(screen, byte)
      /\ UNCHANGED rdr
    BY DEF LinkInv, WriteByte
<1>2. Head(answers) \in Nat /\ Tail(answers) \in Seq(Nat)
    BY <1>1
<1>3. byte \in [answer : Nat, place : Nat] /\ byte.answer = Head(answers)
      /\ byte.place = position + 1
    BY <1>1, <1>2 DEF Sent
<1> HIDE DEF byte
<1>4. /\ screen' \in Seq([answer : Nat, place : Nat])
      /\ Len(screen) \in Nat /\ Len(screen') = Len(screen) + 1 /\ screen' # <<>>
      /\ screen'[Len(screen) + 1] = byte
      /\ \A k \in 1 .. Len(screen) : screen'[k] = screen[k]
    BY <1>1, <1>3
<1>5. BytesAreInOrder'
    <2> SUFFICES ASSUME NEW k \in 1 .. Len(screen'), screen'[k].place > 1
                 PROVE  k > 1 /\ screen'[k - 1]
                                    = Sent(screen'[k].answer, screen'[k].place - 1)
        BY DEF BytesAreInOrder
    <2>1. CASE k \in 1 .. Len(screen)
        <3>1. screen'[k] = screen[k]
            BY <1>4, <2>1
        <3>2. k > 1 /\ screen[k - 1] = Sent(screen[k].answer, screen[k].place - 1)
            BY <2>1, <3>1 DEF LinkInv, BytesAreInOrder
        <3>3. k - 1 \in 1 .. Len(screen)
            BY <1>4, <2>1, <3>2
        <3>4. screen'[k - 1] = screen[k - 1]
            BY <1>4, <3>3
        <3> QED BY <3>1, <3>2, <3>4
    <2>2. CASE k = Len(screen) + 1
        <3>1. position > 0
            BY <1>1, <1>3, <1>4, <2>2
        <3>2. screen # <<>> /\ screen[Len(screen)] = Sent(Head(answers), position)
            BY <3>1 DEF LinkInv
        <3>3. Len(screen) \in 1 .. Len(screen)
            BY <1>1, <1>4, <3>2
        <3>4. screen'[k].answer = Head(answers) /\ screen'[k].place - 1 = position
            BY <1>1, <1>3, <1>4, <2>2
        <3>5. k - 1 = Len(screen)
            BY <1>4, <2>2
        <3> QED BY <1>4, <2>2, <3>2, <3>3, <3>4, <3>5
    <2> QED BY <1>4, <2>1, <2>2
<1>6. CASE position + 1 < AnswerLength
    BY <1>1, <1>3, <1>4, <1>5, <1>6 DEF WriteByte, LinkInv, byte
<1>7. CASE ~ (position + 1 < AnswerLength)
    <2>1. /\ position' = 0 /\ answers' = Tail(answers)
          /\ pc' = IF answers' = <<>> THEN "poll" ELSE "write"
        BY <1>7 DEF WriteByte
    <2> QED
        BY <1>1, <1>2, <1>4, <1>5, <2>1 DEF LinkInv
<1> QED
    BY <1>6, <1>7

LEMMA LinkStep ==
    LineInv /\ LinkInv /\ [LinkNext]_<<vars, linkVars>> => LinkInv' /\ [Next]_vars
<1> SUFFICES ASSUME LineInv, LinkInv, [LinkNext]_<<vars, linkVars>>
             PROVE  LinkInv' /\ [Next]_vars
    OBVIOUS
<1>1. ASSUME NEW byte \in Byte, Arrive(byte) PROVE LinkInv' /\ [Next]_vars
    <2>1. rdr' \in Seq(Byte)
        BY <1>1 DEF Arrive, LinkInv
    <2> QED BY <1>1, <2>1, ReadingKeepsLinkInv DEF Arrive
<1>2. CASE TransmitterEmpties
    BY <1>2, ReadingKeepsLinkInv DEF TransmitterEmpties, LinkInv
<1>3. CASE ReadByte
    <2>1. Head(rdr) \in Byte /\ rdr' \in Seq(Byte)
        BY <1>3 DEF ReadByte, LinkInv
    <2>2. LinkInv'
        BY <1>3, <2>1, ReadingKeepsLinkInv DEF ReadByte
    <2> QED BY <1>3, <2>1, <2>2 DEF ReadByte, Next
<1>4. CASE FeedByte
    <2>1. Len(handed') \in Nat
        BY <1>4, FeedKeepsLineInv DEF FeedByte, LineInv, TypeOK
    <2>2. /\ pc = "poll" /\ position = 0 /\ UNCHANGED <<rdr, position, screen>>
        BY <1>4 DEF FeedByte, LinkInv
    <2>3. \/ /\ answers' = Append(answers, Len(handed')) /\ pc' = "write"
          \/ UNCHANGED answers /\ pc' \in {"poll", "wait"}
        BY <1>4 DEF FeedByte, Answered, Rests
    <2>4. ASSUME answers' = Append(answers, Len(handed')), pc' = "write" PROVE LinkInv'
        <3>1. answers \in Seq(Nat)
            BY DEF LinkInv
        <3> DEFINE n == Len(handed')
        <3>2. n \in Nat
            BY <2>1
        <3> HIDE DEF n
        <3>3. Append(answers, n) \in Seq(Nat) /\ Len(Append(answers, n)) = Len(answers) + 1
              /\ Len(answers) \in Nat
            BY <3>1, <3>2
        <3>4. Append(answers, n) # <<>>
            BY <3>3
        <3>5. answers' \in Seq(Nat) /\ answers' # <<>>
            BY <2>4, <3>3, <3>4 DEF n
        <3>6. BytesAreInOrder'
            BY <2>2 DEF LinkInv, BytesAreInOrder
        <3> QED BY <2>2, <2>4, <3>5, <3>6 DEF LinkInv
    <2>5. LinkInv'
        <3>1. ASSUME UNCHANGED answers, pc' \in {"poll", "wait"} PROVE LinkInv'
            BY <2>2, <3>1 DEF LinkInv, BytesAreInOrder
        <3> QED BY <2>3, <2>4, <3>1
    <2> QED BY <1>4, <2>5 DEF FeedByte, Next
<1>5. CASE PollRests
    <2>1. LinkInv'
        BY <1>5, ReadingKeepsLinkInv DEF PollRests, Rests, LinkInv
    <2> QED BY <1>5, <2>1 DEF PollRests, Next
<1>6. CASE WaitEnds
    BY <1>6, ReadingKeepsLinkInv DEF WaitEnds, LinkInv
<1>7. CASE WriteByte
    BY <1>7, WritingKeepsLinkInv DEF WriteByte
<1>8. CASE WriteTimesOut
    <2>1. Tail(answers) \in Seq(Nat)
        BY <1>8 DEF WriteTimesOut, LinkInv
    <2> QED BY <1>8, <2>1 DEF WriteTimesOut, LinkInv, BytesAreInOrder
<1>9. CASE UNCHANGED <<vars, linkVars>>
    BY <1>9, ReadingKeepsLinkInv DEF linkVars, LinkInv
<1> QED
    BY <1>1, <1>2, <1>3, <1>4, <1>5, <1>6, <1>7, <1>8, <1>9 DEF LinkNext

-------------------------------------------------------------------------------
(* What the task's answers come to                                         *)

\* Every accepted answer is either complete on the screen or still queued, in the
\* order of acceptance.
AnswersInv ==
    /\ accepted \in Seq(Nat)
    /\ position < AnswerLength
    /\ reader = "task" =>
        /\ Len(accepted) = Cardinality(Completed) + Len(answers)
        /\ \A k \in Completed : screen[k].answer = accepted[Rank(k, Completed)]
        /\ \A n \in 1 .. Len(answers) : answers[n] = accepted[Cardinality(Completed) + n]

LEMMA AnswersInvInit == LinkInit => AnswersInv
<1> SUFFICES ASSUME LinkInit PROVE AnswersInv
    OBVIOUS
<1>1. accepted = <<>> /\ answers = <<>> /\ screen = <<>> /\ position = 0
    BY DEF LinkInit
<1>2. <<>> \in Seq(Nat) /\ Len(<<>>) = 0
    OBVIOUS
<1>3. Completed = {}
    BY <1>1, <1>2 DEF Completed
<1> QED BY <1>1, <1>2, <1>3, FS_EmptySet, LinkAssumption DEF AnswersInv

\* An answer is complete on the screen with its last byte, and not before.
LEMMA CompletedGrows ==
    ASSUME LinkInv, AnswersInv, WriteByte
    PROVE  Completed' = IF position + 1 < AnswerLength THEN Completed
                        ELSE Completed \cup {Len(screen) + 1}
<1>1. /\ screen' = Append(screen, Sent(Head(answers), position + 1))
      /\ screen \in Seq([answer : Nat, place : Nat]) /\ position \in Nat
      /\ answers \in Seq(Nat) /\ answers # <<>>
      /\ position < AnswerLength /\ AnswerLength \in Nat
    BY LinkAssumption DEF WriteByte, LinkInv, AnswersInv
<1> DEFINE byte == Sent(Head(answers), position + 1)
<1>2. byte \in [answer : Nat, place : Nat] /\ byte.place = position + 1
    BY <1>1 DEF Sent
<1> HIDE DEF byte
<1>3. /\ Len(screen') = Len(screen) + 1 /\ Len(screen) \in Nat
      /\ screen'[Len(screen) + 1] = byte
      /\ \A k \in 1 .. Len(screen) : screen'[k] = screen[k]
    BY <1>1, <1>2 DEF byte
<1>4. byte.place = AnswerLength <=> ~ (position + 1 < AnswerLength)
    BY <1>1, <1>2
<1> QED BY <1>3, <1>4 DEF Completed

LEMMA AnswersStep ==
    LineInv /\ LinkInv /\ AnswersInv /\ [LinkNext]_<<vars, linkVars>> => AnswersInv'
<1> SUFFICES ASSUME LineInv, LinkInv, AnswersInv, [LinkNext]_<<vars, linkVars>>
             PROVE  AnswersInv'
    OBVIOUS
<1>1. /\ answers \in Seq(Nat) /\ accepted \in Seq(Nat) /\ position \in Nat
      /\ screen \in Seq([answer : Nat, place : Nat]) /\ Len(screen) \in Nat
      /\ pc = "write" => answers # <<>>
      /\ AnswerLength \in Nat \ {0}
    BY LinkAssumption DEF LinkInv, AnswersInv
<1>2. Completed \in SUBSET (1 .. Len(screen)) /\ Cardinality(Completed) \in Nat
    <2>1. Completed \in SUBSET (1 .. Len(screen))
        BY DEF Completed
    <2> QED BY <1>1, <2>1, RankGrows
<1>3. ASSUME UNCHANGED <<reader, answers, position, accepted, screen>> PROVE AnswersInv'
    BY <1>3 DEF AnswersInv, Completed
<1>4. CASE FeedByte
    <2>1. UNCHANGED <<reader, position, screen>> /\ Completed' = Completed
        BY <1>4 DEF FeedByte, Completed
    <2>2. \/ UNCHANGED <<answers, accepted>>
          \/ /\ answers' = Append(answers, Len(handed'))
             /\ accepted' = Append(accepted, Len(handed'))
        BY <1>4 DEF FeedByte, Answered
    <2>3. ASSUME answers' = Append(answers, Len(handed')),
                 accepted' = Append(accepted, Len(handed'))
          PROVE  AnswersInv'
        <3> DEFINE new == Len(handed')
        <3>1. new \in Nat
            BY <1>4, FeedKeepsLineInv DEF FeedByte, LineInv, TypeOK
        <3> HIDE DEF new
        <3>2. /\ accepted' \in Seq(Nat)
              /\ Len(accepted') = Len(accepted) + 1 /\ Len(accepted) \in Nat
              /\ accepted'[Len(accepted) + 1] = new
              /\ \A n \in 1 .. Len(accepted) : accepted'[n] = accepted[n]
            BY <1>1, <2>3, <3>1 DEF new
        <3>3. /\ Len(answers') = Len(answers) + 1 /\ Len(answers) \in Nat
              /\ answers'[Len(answers) + 1] = new
              /\ \A n \in 1 .. Len(answers) : answers'[n] = answers[n]
            BY <1>1, <2>3, <3>1 DEF new
        <3>4. ASSUME reader = "task"
              PROVE  /\ Len(accepted') = Cardinality(Completed) + Len(answers')
                     /\ \A k \in Completed : screen[k].answer = accepted'[Rank(k, Completed)]
                     /\ \A n \in 1 .. Len(answers') :
                            answers'[n] = accepted'[Cardinality(Completed) + n]
            <4>1. /\ Len(accepted) = Cardinality(Completed) + Len(answers)
                  /\ \A k \in Completed : screen[k].answer = accepted[Rank(k, Completed)]
                  /\ \A n \in 1 .. Len(answers) :
                        answers[n] = accepted[Cardinality(Completed) + n]
                BY <3>4 DEF AnswersInv
            <4>2. \A k \in Completed : Rank(k, Completed) \in 1 .. Cardinality(Completed)
                BY <1>1, <1>2, RankGrows
            <4>3. \A k \in Completed : Rank(k, Completed) \in 1 .. Len(accepted)
                BY <1>2, <3>2, <3>3, <4>1, <4>2
            <4>4. \A k \in Completed : screen[k].answer = accepted'[Rank(k, Completed)]
                BY <3>2, <4>1, <4>3
            <4>5. \A n \in 1 .. Len(answers') :
                        answers'[n] = accepted'[Cardinality(Completed) + n]
                <5> DEFINE count == Cardinality(Completed)
                <5>1. count \in Nat
                    BY <1>2
                <5> HIDE DEF count
                <5>2. ASSUME NEW n \in 1 .. Len(answers)
                      PROVE  answers'[n] = accepted'[count + n]
                    <6>1. count + n \in 1 .. Len(accepted)
                        BY <3>3, <4>1, <5>1 DEF count
                    <6> QED BY <3>2, <3>3, <4>1, <6>1 DEF count
                <5>3. answers'[Len(answers) + 1] = accepted'[count + (Len(answers) + 1)]
                    <6>1. count + (Len(answers) + 1) = Len(accepted) + 1
                        BY <3>3, <4>1, <5>1 DEF count
                    <6> QED BY <3>2, <3>3, <6>1
                <5>4. \A n \in 1 .. Len(answers') : n \in 1 .. Len(answers) \/ n = Len(answers) + 1
                    BY <3>3
                <5> QED BY <5>2, <5>3, <5>4 DEF count
            <4> QED BY <1>2, <3>2, <3>3, <4>1, <4>4, <4>5
        <3> QED BY <2>1, <3>2, <3>4 DEF AnswersInv
    <2> QED BY <1>3, <2>1, <2>2, <2>3
<1>5. CASE WriteByte
    <2>1. UNCHANGED <<reader, accepted>> /\ pc = "write" /\ answers # <<>>
        BY <1>1, <1>5 DEF WriteByte
    <2>2. CASE position + 1 < AnswerLength
        <3>1. Completed' = Completed /\ UNCHANGED answers /\ position' = position + 1
            BY <1>5, <2>2, CompletedGrows DEF WriteByte
        <3>2. \A k \in Completed : screen'[k] = screen[k]
            <4> DEFINE byte == Sent(Head(answers), position + 1)
            <4>1. byte \in [answer : Nat, place : Nat]
                BY <1>1, <2>1 DEF Sent
            <4> HIDE DEF byte
            <4>2. screen' = Append(screen, byte)
                BY <1>5 DEF WriteByte, byte
            <4> QED BY <1>1, <1>2, <4>1, <4>2
        <3> QED BY <2>1, <2>2, <3>1, <3>2 DEF AnswersInv
    <2>3. CASE ~ (position + 1 < AnswerLength)
        <3> DEFINE n == Len(screen)
                   count == Cardinality(Completed)
                   byte == Sent(Head(answers), position + 1)
        <3>1. Completed' = Completed \cup {n + 1} /\ answers' = Tail(answers) /\ position' = 0
            BY <1>5, <2>3, CompletedGrows DEF WriteByte
        <3>2. byte \in [answer : Nat, place : Nat] /\ byte.answer = Head(answers)
              /\ screen' = Append(screen, byte)
            BY <1>1, <1>5, <2>1 DEF Sent, WriteByte
        <3> HIDE DEF byte
        <3>3. screen'[n + 1] = byte /\ \A k \in 1 .. n : screen'[k] = screen[k]
            BY <1>1, <3>2
        <3>4. Len(answers') = Len(answers) - 1 /\ Len(answers) \in Nat
              /\ Head(answers) = answers[1] /\ 1 \in 1 .. Len(answers)
              /\ \A m \in 1 .. Len(answers') : answers'[m] = answers[m + 1]
            BY <1>1, <2>1, <3>1
        <3>5. /\ Cardinality(Completed') = count + 1
              /\ Rank(n + 1, Completed') = count + 1
              /\ \A k \in Completed : Rank(k, Completed') = Rank(k, Completed)
            BY <1>1, <1>2, <3>1, RankGrows
        <3>6. ASSUME reader = "task"
              PROVE  /\ Len(accepted') = Cardinality(Completed') + Len(answers')
                     /\ \A k \in Completed' : screen'[k].answer = accepted'[Rank(k, Completed')]
                     /\ \A m \in 1 .. Len(answers') :
                            answers'[m] = accepted'[Cardinality(Completed') + m]
            <4>1. /\ Len(accepted) = count + Len(answers)
                  /\ \A k \in Completed : screen[k].answer = accepted[Rank(k, Completed)]
                  /\ \A m \in 1 .. Len(answers) : answers[m] = accepted[count + m]
                BY <3>6 DEF AnswersInv
            <4> HIDE DEF n, count
            <4>2. \A k \in Completed : screen'[k].answer = accepted[Rank(k, Completed')]
                BY <1>2, <3>3, <3>5, <4>1 DEF n
            <4>3. screen'[n + 1].answer = accepted[Rank(n + 1, Completed')]
                BY <3>2, <3>3, <3>4, <3>5, <4>1
            <4>4. \A m \in 1 .. Len(answers') : m + 1 \in 1 .. Len(answers)
                BY <3>4
            <4>5. \A m \in 1 .. Len(answers') : answers'[m] = accepted[count + (m + 1)]
                BY <3>4, <4>1, <4>4
            <4>6. \A m \in 1 .. Len(answers') : count + (m + 1) = (count + 1) + m
                BY <1>2, <3>4 DEF count
            <4>7. count + Len(answers) = (count + 1) + Len(answers')
                BY <1>2, <3>4 DEF count
            <4> QED BY <2>1, <3>1, <3>5, <4>1, <4>2, <4>3, <4>5, <4>6, <4>7
        <3>7. accepted' \in Seq(Nat) /\ position' < AnswerLength /\ reader' = reader
            BY <1>1, <2>1, <3>1
        <3> HIDE DEF n, count
        <3> QED BY <3>6, <3>7 DEF AnswersInv
    <2> QED BY <2>2, <2>3
<1>6. CASE WriteTimesOut
    <2>1. UNCHANGED <<reader, accepted, screen>> /\ position' = 0
          /\ (reader = "task" => UNCHANGED answers) /\ Completed' = Completed
        BY <1>6 DEF WriteTimesOut, Completed
    <2>2. position' < AnswerLength
        BY <1>1, <2>1
    <2>3. CASE reader = "task"
        BY <1>3, <2>1, <2>2, <2>3 DEF AnswersInv
    <2>4. CASE reader # "task"
        BY <2>1, <2>2, <2>4 DEF AnswersInv
    <2> QED BY <2>3, <2>4
<1>7. CASE \/ \E byte \in Byte : Arrive(byte)
           \/ TransmitterEmpties \/ ReadByte \/ PollRests \/ WaitEnds
           \/ UNCHANGED <<vars, linkVars>>
    BY <1>3, <1>7 DEF Arrive, TransmitterEmpties, ReadByte, PollRests, WaitEnds, linkVars
<1> QED BY <1>4, <1>5, <1>6, <1>7 DEF LinkNext

-------------------------------------------------------------------------------
(* What the patient terminal sends                                         *)

\* Position n + 1 completes a line or it does not; no other position is new.
LEMMA CompletingGrows ==
    ASSUME NEW stream, NEW n \in Nat
    PROVE  /\ Cardinality(Completing(stream, n)) \in Nat
           /\ Cardinality(Completing(stream, n + 1))
                = Cardinality(Completing(stream, n))
                    + (IF n + 1 \in Completing(stream, n + 1) THEN 1 ELSE 0)
<1> DEFINE before == Completing(stream, n)
           after == Completing(stream, n + 1)
<1>1. before \in SUBSET (1 .. n)
    BY DEF Completing
<1>2. after = IF n + 1 \in after THEN before \cup {n + 1} ELSE before
    <2>1. \A k : k \in 1 .. n <=> k \in 1 .. n + 1 /\ k # n + 1
        OBVIOUS
    <2>2. \A k : k \in before <=> k # n + 1 /\ k \in after
        BY <2>1 DEF Completing
    <2> HIDE DEF before, after
    <2> QED BY <2>2
<1> HIDE DEF before, after
<1>3. Cardinality(before) \in Nat /\ Cardinality(before \cup {n + 1}) = Cardinality(before) + 1
    BY <1>1, RankGrows
<1> QED BY <1>2, <1>3 DEF before, after

\* The bytes received so far are the first of those sent: the lines they complete
\* are among those the bytes sent complete.
LEMMA ReceivedLinesWereSent ==
    ASSUME NEW s \in Seq(Byte), NEW rest \in Seq(Byte), NEW n \in 0 .. Len(s)
    PROVE  Cardinality(Completing(s, n))
                <= Cardinality(Completing(s \o rest, Len(s \o rest)))
<1> DEFINE t == s \o rest
<1>1. t \in Seq(Byte) /\ n \in Nat /\ n <= Len(s) /\ n <= Len(t) /\ Len(t) \in Nat
      /\ \A k \in 1 .. n : s[k] = t[k]
    BY ConcatProperties
<1> HIDE DEF t
<1>2. Completing(s, n) = Completing(t, n)
    BY <1>1, PrefixDecides
<1>3. Completing(t, n) \in SUBSET Completing(t, Len(t))
    BY <1>1 DEF Completing
<1>4. IsFiniteSet(Completing(t, Len(t)))
    <2>1. Completing(t, Len(t)) \in SUBSET (1 .. Len(t))
        BY DEF Completing
    <2> QED BY <1>1, <2>1, RankGrows
<1> QED BY <1>2, <1>3, <1>4, FS_Subset DEF t

\* A submitted line is one more, and the byte just fed completes it.
LEMMA FeedHandsOver ==
    ASSUME LineInv, FrameInv, Feed
    PROVE  /\ Len(handed) <= Len(handed')
           /\ status' = "COMMAND_SUBMITTED" => /\ fed' \in Completing(typed', fed')
                                               /\ Len(handed') = Len(handed) + 1
<1> DEFINE i == fed + 1
           reads == serial_line_feed(typed[i])
<1>1. /\ fed < Len(typed) /\ fed' = i /\ typed' = typed
      /\ status' \in IF reads.status = "LINE_READY" THEN {"COMMAND_SUBMITTED", "ERROR"}
                     ELSE {reads.status}
      /\ handed' = IF reads.status = "LINE_READY" THEN Append(handed, reads.line) ELSE handed
    BY DEF Feed
<1>2. /\ typed \in Seq(Byte) /\ fed \in 0 .. Len(typed) /\ i \in 1 .. i
      /\ buffer \in Seq(Printable) /\ Len(buffer) < RxCapacity
      /\ previous_was_cr \in BOOLEAN /\ handed \in Seq(Seq(Printable))
      /\ LineCapacity \in Nat
    BY LineAssumption DEF LineInv, TypeOK
<1>3. typed[i] \in Byte
    BY <1>1, <1>2
<1>4. reads.line \in Seq(Printable) /\ reads.status \in {"IDLE", "OVERFLOW", "LINE_READY"}
    BY <1>2, <1>3, ReaderTyped
<1>5. reads.status = "LINE_READY" =>
        typed[i] \in LineEnd /\ buffer # <<>> /\ Len(buffer) < LineCapacity
    BY <1>2 DEF serial_line_feed, complete_line, Fed
<1>6. buffer = Remainder(typed, i)
    BY DEF FrameInv
<1>7. reads.status = "LINE_READY" => i \in Completing(typed, i)
    BY <1>2, <1>5, <1>6 DEF Completing
<1> HIDE DEF reads, i
<1>8. reads.status = "LINE_READY" => Len(handed') = Len(handed) + 1
    BY <1>1, <1>2, <1>4
<1>9. Len(handed) \in Nat
    BY <1>2
<1> QED BY <1>1, <1>4, <1>7, <1>8, <1>9

Awaited == Cardinality(Completed) < Cardinality(Completing(wire, Len(wire)))

\* The loop writes the one answer to the line that the byte just fed completed, and
\* only the loop's timeouts keep an answer from the screen.
LoopInv ==
    reader = "loop" =>
        /\ pc # "wait"
        /\ Len(answers) = IF pc = "write" THEN 1 ELSE 0
        /\ Len(typed) <= fed + 1
        /\ pc = "write" => fed = Len(typed) /\ fed \in Completing(typed, fed)
        /\ Cardinality(Completed) + Len(answers) <= Len(handed)

\* While the terminal awaits an answer it has sent nothing behind the line but the
\* LF of its CRLF, so the data register has room for what comes.
PatientInv ==
    /\ wire \in Seq(Byte)
    /\ Len(rdr) <= 1
    /\ reader = "loop" /\ patient =>
        /\ wire = typed \o rdr
        /\ Awaited => wire # <<>> /\ wire[Len(wire)] \in LineEnd
        /\ (Awaited /\ rdr # <<>>) =>
                \/ Len(wire) \in Completing(wire, Len(wire))
                \/ rdr = <<LF>> /\ typed # <<>> /\ typed[Len(typed)] = CR

LEMMA PatientInvInit == LinkInit => LoopInv /\ PatientInv
<1> SUFFICES ASSUME LinkInit PROVE LoopInv /\ PatientInv
    OBVIOUS
<1>1. /\ typed = <<>> /\ fed = 0 /\ handed = <<>> /\ pc = "poll" /\ answers = <<>>
      /\ wire = <<>> /\ rdr = <<>> /\ screen = <<>>
    BY DEF LinkInit, Init
<1>2. <<>> \in Seq(Byte) /\ Len(<<>>) = 0 /\ <<>> = <<>> \o <<>>
    OBVIOUS
<1>3. Completed = {} /\ Completing(wire, Len(wire)) = {}
    BY <1>1, <1>2 DEF Completed, Completing
<1>4. ~ Awaited /\ Cardinality(Completed) = 0
    BY <1>3, FS_EmptySet DEF Awaited
<1>5. LoopInv
    BY <1>1, <1>2, <1>4 DEF LoopInv
<1>6. PatientInv
    BY <1>1, <1>2, <1>4 DEF PatientInv
<1> QED BY <1>5, <1>6

LEMMA LoopStep ==
    ASSUME LineInv, FrameInv, LinkInv, AnswersInv, LoopInv, [LinkNext]_<<vars, linkVars>>,
           reader \in {"loop", "task"}
    PROVE  LoopInv'
<1> SUFFICES ASSUME reader = "loop", reader' = "loop"
             PROVE  LoopInv'
    BY DEF LoopInv, LinkNext, Arrive, TransmitterEmpties, ReadByte, FeedByte, PollRests,
           WaitEnds, WriteByte, WriteTimesOut, linkVars
<1>1. /\ pc \in {"poll", "write"} /\ Len(answers) = IF pc = "write" THEN 1 ELSE 0
      /\ Len(typed) <= fed + 1
      /\ pc = "write" => fed = Len(typed) /\ fed \in Completing(typed, fed)
      /\ Cardinality(Completed) + Len(answers) <= Len(handed)
      /\ answers \in Seq(Nat) /\ typed \in Seq(Byte) /\ fed \in 0 .. Len(typed)
      /\ screen \in Seq([answer : Nat, place : Nat])
      /\ handed \in Seq(Seq(Printable))
    BY DEF LoopInv, LinkInv, LineInv, TypeOK
<1>2. Cardinality(Completed) \in Nat /\ Len(answers) \in Nat /\ Len(handed) \in Nat
    <2>1. Completed \in SUBSET (1 .. Len(screen)) /\ Len(screen) \in Nat
        BY <1>1 DEF Completed
    <2>2. Cardinality(Completed) \in Nat
        BY <2>1, RankGrows
    <2> QED BY <1>1, <2>2
<1>3. ASSUME UNCHANGED <<typed, fed, handed, pc, answers, screen>> PROVE LoopInv'
    BY <1>1, <1>3 DEF LoopInv, Completed
<1>4. CASE ReadByte
    <2>1. Len(typed') = Len(typed) + 1 /\ fed = Len(typed) /\ pc = "poll"
          /\ UNCHANGED <<fed, handed, pc, answers, screen>>
        BY <1>1, <1>4 DEF ReadByte, Type
    <2>2. Completed' = Completed
        BY <2>1 DEF Completed
    <2> QED BY <1>1, <2>1, <2>2 DEF LoopInv
<1>5. CASE FeedByte
    <2>1. Feed /\ pc = "poll" /\ Completed' = Completed
        BY <1>5 DEF FeedByte, Completed
    <2>2. typed' = typed /\ fed' = fed + 1 /\ fed < Len(typed)
        BY <2>1 DEF Feed
    <2>3. fed' = Len(typed')
        BY <1>1, <2>2
    <2>4. LineInv'
        BY <2>1, FeedKeepsLineInv
    <2>5. Len(handed') \in Nat
        BY <2>4 DEF LineInv, TypeOK
    <2>6. CASE status' = "COMMAND_SUBMITTED"
        <3>1. answers' = Append(answers, Len(handed')) /\ pc' = "write"
            BY <1>5, <2>6 DEF FeedByte, Answered
        <3>2. Len(answers) = 0
            BY <1>1, <2>1
        <3> DEFINE new == Len(handed')
        <3>3. new \in Nat
            BY <2>5
        <3> HIDE DEF new
        <3>4. Len(answers') = 1
            BY <1>1, <3>1, <3>2, <3>3 DEF new
        <3>5. fed' \in Completing(typed', fed') /\ Len(handed') = Len(handed) + 1
            BY <2>1, <2>6, FeedHandsOver
        <3>6. Cardinality(Completed) + 1 <= Len(handed')
            BY <1>1, <1>2, <3>2, <3>5
        <3>7. Len(typed') <= fed' + 1
            BY <1>1, <2>2, <2>3
        <3> QED BY <2>1, <2>3, <3>1, <3>4, <3>5, <3>6, <3>7 DEF LoopInv
    <2>7. CASE status' # "COMMAND_SUBMITTED"
        <3>1. answers' = answers /\ pc' = "poll"
            BY <1>5, <2>7 DEF FeedByte, Rests
        <3>2. Len(handed) <= Len(handed')
            BY <2>1, FeedHandsOver
        <3>3. Cardinality(Completed) + Len(answers) <= Len(handed')
            BY <1>1, <1>2, <2>5, <3>2
        <3>4. Len(typed') <= fed' + 1
            BY <1>1, <2>2, <2>3
        <3> QED BY <1>1, <2>1, <3>1, <3>3, <3>4 DEF LoopInv
    <2> QED BY <2>6, <2>7
<1>6. CASE PollRests
    <2>1. UNCHANGED <<typed, fed, handed, answers, screen>> /\ pc = "poll" /\ pc' = "poll"
        BY <1>6 DEF PollRests, PollEnds, Rests, vars
    <2> QED BY <1>3, <2>1
<1>7. CASE WriteByte
    <2>1. UNCHANGED <<typed, fed, handed>> /\ pc = "write" /\ Len(answers) = 1
        BY <1>1, <1>7 DEF WriteByte, vars
    <2>2. Len(Tail(answers)) = 0 /\ Tail(answers) = <<>>
        <3>1. answers # <<>>
            BY <2>1
        <3>2. Tail(answers) \in Seq(Nat) /\ Len(Tail(answers)) = 0
            BY <1>1, <2>1, <3>1, HeadTailProperties
        <3> QED BY <3>2, EmptySeq
    <2>3. CASE position + 1 < AnswerLength
        <3>1. UNCHANGED <<answers, pc>> /\ Completed' = Completed
            BY <1>7, <2>3, CompletedGrows DEF WriteByte
        <3> QED BY <1>1, <2>1, <3>1 DEF LoopInv
    <2>4. CASE ~ (position + 1 < AnswerLength)
        <3>1. answers' = <<>> /\ Len(answers') = 0 /\ pc' = "poll"
            BY <1>7, <2>2, <2>4 DEF WriteByte
        <3>2. Completed' = Completed \cup {Len(screen) + 1}
            BY <1>7, <2>4, CompletedGrows
        <3>3. Completed \in SUBSET (1 .. Len(screen)) /\ Len(screen) \in Nat
            BY <1>1 DEF Completed
        <3>4. Cardinality(Completed') = Cardinality(Completed) + 1
            BY <3>2, <3>3, RankGrows
        <3>5. Cardinality(Completed') + Len(answers') <= Len(handed')
            BY <1>1, <1>2, <2>1, <3>1, <3>4
        <3> QED BY <1>1, <2>1, <3>1, <3>5 DEF LoopInv
    <2> QED BY <2>3, <2>4
<1>8. CASE WriteTimesOut
    <2>1. UNCHANGED <<typed, fed, handed>> /\ pc = "write" /\ Len(answers) = 1
          /\ answers' = Tail(answers) /\ pc' = "poll" /\ Completed' = Completed
        BY <1>1, <1>8 DEF WriteTimesOut, vars, Completed
    <2>2. Len(answers') = 0
        BY <1>1, <2>1
    <2>3. Cardinality(Completed') + Len(answers') <= Len(handed')
        <3>1. Cardinality(Completed) + 1 <= Len(handed)
            BY <1>1, <2>1
        <3>2. Cardinality(Completed) + 0 <= Len(handed)
            BY <1>2, <3>1
        <3>3. Completed' = Completed /\ handed' = handed
            BY <2>1
        <3> QED BY <2>2, <3>2, <3>3
    <2>4. Len(typed') <= fed' + 1
        BY <1>1, <2>1
    <2> QED BY <2>1, <2>2, <2>3, <2>4 DEF LoopInv
<1>9. CASE \/ \E byte \in Byte : Arrive(byte)
           \/ TransmitterEmpties \/ UNCHANGED <<vars, linkVars>>
    BY <1>3, <1>9 DEF Arrive, TransmitterEmpties, vars, linkVars
<1>10. CASE WaitEnds
    BY <1>1, <1>10 DEF WaitEnds
<1> QED BY <1>4, <1>5, <1>6, <1>7, <1>8, <1>9, <1>10 DEF LinkNext

LEMMA AtMostOneByte ==
    ASSUME NEW s \in Seq(Byte), Len(s) <= 1, s # <<>>
    PROVE  Len(s) = 1 /\ Head(s) \in Byte /\ s = <<Head(s)>>
<1>1. Len(s) = 1 /\ Head(s) \in Byte /\ Head(s) = s[1]
    <2>1. Len(s) \in Nat \ {0}
        BY EmptySeq
    <2>2. Head(s) \in Byte
        BY HeadTailProperties
    <2>3. Len(s) = 1
        BY <2>1
    <2>4. Head(s) = s[1]
        BY <2>1
    <2> QED BY <2>2, <2>3, <2>4
<1>2. <<Head(s)>> \in Seq(Byte) /\ Len(<<Head(s)>>) = 1 /\ <<Head(s)>>[1] = Head(s)
    BY <1>1
<1>3. \A k \in 1 .. Len(s) : s[k] = <<Head(s)>>[k]
    BY <1>1, <1>2
<1>4. Len(s) = Len(<<Head(s)>>)
    BY <1>1, <1>2
<1> QED BY <1>1, <1>2, <1>3, <1>4, SeqEqual

\* A byte that arrives: awaiting an answer the terminal sends only the LF of a CRLF,
\* and that finds the data register empty.
LEMMA ArriveKeepsPatient ==
    ASSUME LineInv, FrameInv, LinkInv, LoopInv, PatientInv, reader = "loop", patient,
           NEW byte \in Byte, Arrive(byte)
    PROVE  PatientInv'
<1> DEFINE n == Len(wire)
<1>1. /\ wire \in Seq(Byte) /\ wire = typed \o rdr /\ n \in Nat
      /\ typed \in Seq(Byte) /\ rdr \in Seq(Byte) /\ Len(typed) \in Nat
      /\ fed \in 0 .. Len(typed)
    BY DEF PatientInv, LinkInv, LineInv, TypeOK
<1>2. /\ wire' = Append(wire, byte)
      /\ rdr' = IF rdr = <<>> THEN <<byte>> ELSE rdr
      /\ pc = "poll" => rdr = <<>>
      /\ NothingAwaited \/ EndsCrlf(byte)
      /\ UNCHANGED <<typed, screen, reader, patient>>
    BY DEF Arrive, vars
<1>3. /\ wire' \in Seq(Byte) /\ Len(wire') = n + 1 /\ wire'[n + 1] = byte /\ wire' # <<>>
      /\ \A k \in 1 .. n : wire'[k] = wire[k]
    <2> DEFINE longer == Append(wire, byte)
    <2>1. wire \in Seq(Byte) /\ wire' = longer
        BY <1>1, <1>2
    <2>2. /\ longer \in Seq(Byte) /\ Len(longer) = Len(wire) + 1
          /\ longer # <<>> /\ longer[Len(wire) + 1] = byte
          /\ \A k \in 1 .. Len(wire) : longer[k] = wire[k]
        BY <2>1, AppendProperties
    <2> HIDE DEF longer
    <2> QED BY <2>1, <2>2
<1>4. Completing(wire', n) = Completing(wire, n)
    <2>1. n <= Len(wire) /\ n <= Len(wire') /\ \A k \in 1 .. n : wire[k] = wire'[k]
        BY <1>1, <1>3
    <2> HIDE DEF n
    <2> QED BY <1>1, <1>3, <2>1, PrefixDecides
<1>5. Cardinality(Completed) \in Nat
    <2>1. Completed \in SUBSET (1 .. Len(screen)) /\ Len(screen) \in Nat
        BY DEF Completed, LinkInv
    <2> QED BY <2>1, RankGrows
<1>6. /\ Cardinality(Completing(wire, n)) \in Nat
      /\ Cardinality(Completing(wire', n + 1))
            = Cardinality(Completing(wire, n))
                + (IF n + 1 \in Completing(wire', n + 1) THEN 1 ELSE 0)
    BY <1>1, <1>4, CompletingGrows
<1>7. Awaited => wire # <<>> /\ wire[n] \in LineEnd
    BY DEF PatientInv
<1>8. Awaited => EndsCrlf(byte)
    BY <1>2, <1>5, <1>6, <1>7 DEF Awaited, NothingAwaited
<1>9. rdr = <<>>
    <2> SUFFICES ASSUME rdr # <<>> PROVE FALSE
        OBVIOUS
    <2>1. pc = "write"
        BY <1>2 DEF LoopInv, LinkInv
    <2>2. /\ fed = Len(typed) /\ fed \in Completing(typed, fed) /\ Len(answers) = 1
          /\ Cardinality(Completed) + Len(answers) <= Len(handed)
        BY <2>1 DEF LoopInv
    <2>3. Cardinality(Completing(typed, fed)) <= Cardinality(Completing(wire, n))
        BY <1>1, ReceivedLinesWereSent
    <2>4. Len(handed) = Cardinality(Completing(typed, fed)) /\ Len(handed) \in Nat
        BY DEF FrameInv, FramingIsExact, LineInv, TypeOK
    <2>5. Awaited
        BY <1>5, <1>6, <2>2, <2>3, <2>4 DEF Awaited
    <2>6. wire[n] = CR
        BY <1>8, <2>5 DEF EndsCrlf
    <2>7. n = Len(typed) + 1 /\ Len(rdr) = 1 /\ wire[n] = rdr[1]
          /\ \A k \in 1 .. Len(typed) : wire[k] = typed[k]
        <3>1. Len(rdr) = 1
            BY <1>1, AtMostOneByte DEF PatientInv
        <3> QED BY <1>1, <3>1, ConcatProperties
    <2>8. n \in Completing(wire, n) \/ rdr = <<LF>>
        BY <2>5 DEF PatientInv
    <2>9. rdr # <<LF>>
        BY <2>6, <2>7, LineAssumption
    <2>10. n \notin Completing(wire, n)
        <3>1. wire[Len(typed)] \in LineEnd /\ Len(typed) \in Nat \ {0}
            <4>1. fed \in 1 .. Len(typed) /\ typed[fed] \in LineEnd
                BY <1>1, <2>2 DEF Completing
            <4> QED BY <1>1, <2>2, <2>7, <4>1
        <3>2. LineLength(wire, n) = 0
            BY <2>7, <3>1, LineGrows
        <3>3. 0 % RxCapacity = 0
            BY LineAssumption, ModAtMost
        <3>4. SubSeq(wire, n, n - 1) = <<>>
            BY <1>1, SubSeqEmpty
        <3>5. Remainder(wire, n) = <<>>
            BY <1>1, <3>2, <3>3, <3>4 DEF Remainder
        <3> QED BY <3>5 DEF Completing
    <2> QED BY <2>8, <2>9, <2>10
<1>10. wire = typed /\ rdr' = <<byte>> /\ Len(rdr') = 1 /\ wire' = typed' \o rdr'
    <2>1. wire = typed
        BY <1>1, <1>9, ConcatEmptySeq
    <2> QED BY <1>1, <1>2, <1>9, <2>1, AppendIsConcat
<1>11. Completed' = Completed
    BY <1>2 DEF Completed
<1>12. Awaited' => Awaited \/ n + 1 \in Completing(wire', n + 1)
    BY <1>3, <1>5, <1>6, <1>11 DEF Awaited
<1>13. n + 1 \in Completing(wire', n + 1) => byte \in LineEnd
    BY <1>3 DEF Completing
<1>14. Awaited => byte = LF /\ typed # <<>> /\ typed[Len(typed)] = CR
    BY <1>8, <1>10 DEF EndsCrlf
<1>15. LF \in LineEnd
    BY DEF LineEnd
<1>16. Awaited' => wire'[Len(wire')] \in LineEnd
    BY <1>3, <1>12, <1>13, <1>14, <1>15
<1>17. Awaited' => \/ Len(wire') \in Completing(wire', Len(wire'))
                   \/ rdr' = <<LF>> /\ typed' # <<>> /\ typed'[Len(typed')] = CR
    BY <1>2, <1>3, <1>10, <1>12, <1>14
<1> QED BY <1>3, <1>10, <1>16, <1>17 DEF PatientInv

LEMMA PatientStep ==
    ASSUME LineInv, FrameInv, LinkInv, AnswersInv, LoopInv, PatientInv,
           [LinkNext]_<<vars, linkVars>>
    PROVE  PatientInv'
<1>1. UNCHANGED <<reader, patient>>
    BY DEF LinkNext, Arrive, TransmitterEmpties, ReadByte, FeedByte, PollRests,
           WaitEnds, WriteByte, WriteTimesOut, linkVars
<1>2. wire \in Seq(Byte) /\ Len(rdr) <= 1 /\ rdr \in Seq(Byte)
    BY DEF PatientInv, LinkInv
<1>3. ASSUME NEW byte \in Byte, Arrive(byte) PROVE PatientInv'
    <2>1. CASE reader = "loop" /\ patient
        BY <1>3, <2>1, ArriveKeepsPatient
    <2>2. CASE ~ (reader = "loop" /\ patient)
        <3>1. wire' \in Seq(Byte) /\ Len(rdr') <= 1
            BY <1>2, <1>3 DEF Arrive
        <3> QED BY <1>1, <2>2, <3>1 DEF PatientInv
    <2> QED BY <2>1, <2>2
<1>4. ASSUME UNCHANGED <<wire, rdr, typed, screen>> PROVE PatientInv'
    BY <1>1, <1>4 DEF PatientInv, Awaited, Completed
<1>5. CASE ReadByte
    <2>1. /\ rdr # <<>> /\ rdr' = <<>> /\ Len(rdr') = 0 /\ UNCHANGED <<wire, screen>>
          /\ typed' = Append(typed, Head(rdr))
        BY <1>5 DEF ReadByte, Type
    <2>2. ASSUME reader = "loop", patient PROVE wire' = typed' \o rdr'
        <3>1. typed \in Seq(Byte) /\ wire = typed \o rdr
            BY <2>2 DEF LineInv, TypeOK, PatientInv
        <3>2. rdr = <<Head(rdr)>> /\ Head(rdr) \in Byte
            BY <1>2, <2>1, AtMostOneByte
        <3>3. typed' = wire /\ typed' \in Seq(Byte)
            BY <2>1, <3>1, <3>2, AppendIsConcat, AppendProperties
        <3> QED BY <2>1, <3>3, ConcatEmptySeq
    <2>3. Awaited' <=> Awaited
        BY <2>1 DEF Awaited, Completed
    <2> QED BY <1>1, <1>2, <2>1, <2>2, <2>3 DEF PatientInv
<1>6. CASE WriteByte
    <2>1. UNCHANGED <<wire, rdr, typed, reader, patient>>
        BY <1>6 DEF WriteByte, vars
    <2>2. Awaited' => Awaited
        <3>1. Completed \in SUBSET (1 .. Len(screen)) /\ Len(screen) \in Nat
            BY DEF Completed, LinkInv
        <3>2. Completed' = Completed \/ Completed' = Completed \cup {Len(screen) + 1}
            BY <1>6, CompletedGrows
        <3>3. Cardinality(Completed) \in Nat
              /\ Cardinality(Completed') \in {Cardinality(Completed), Cardinality(Completed) + 1}
            BY <3>1, <3>2, RankGrows
        <3>4. Len(wire) \in Nat
            BY <1>2
        <3>5. Cardinality(Completing(wire, Len(wire))) \in Nat
            BY <3>4, CompletingGrows
        <3> QED BY <2>1, <3>3, <3>5 DEF Awaited
    <2> QED BY <2>1, <2>2 DEF PatientInv
<1>7. CASE \/ TransmitterEmpties \/ FeedByte \/ PollRests \/ WaitEnds \/ WriteTimesOut
           \/ UNCHANGED <<vars, linkVars>>
    BY <1>4, <1>7 DEF TransmitterEmpties, FeedByte, Feed, PollRests, PollEnds, WaitEnds,
                      WriteTimesOut, vars, linkVars
<1> QED BY <1>3, <1>5, <1>6, <1>7 DEF LinkNext

\* What holds of the link, reader, answers and screen together.
EverythingInv == LineInv /\ FrameInv /\ LinkInv /\ AnswersInv /\ LoopInv /\ PatientInv

ReaderOK == reader \in {"loop", "task"}

LEMMA EverythingHolds == LinkSpec => []EverythingInv
<1>1. LinkInit => EverythingInv /\ ReaderOK
    BY LineInvInit, FrameInvInit, LinkInvInit, AnswersInvInit, PatientInvInit
       DEF LinkInit, EverythingInv, ReaderOK
<1>2. EverythingInv /\ ReaderOK /\ [LinkNext]_<<vars, linkVars>> => EverythingInv' /\ ReaderOK'
    <2> SUFFICES ASSUME EverythingInv, ReaderOK, [LinkNext]_<<vars, linkVars>>
                 PROVE  EverythingInv' /\ ReaderOK'
        OBVIOUS
    <2>1. LineInv /\ FrameInv /\ LinkInv /\ AnswersInv /\ LoopInv /\ PatientInv
        BY DEF EverythingInv
    <2>2. LinkInv' /\ [Next]_vars
        BY <2>1, LinkStep
    <2>3. LineInv' /\ FrameInv'
        BY <2>1, <2>2, LineInvStep, FrameInvStep
    <2>4. AnswersInv' /\ LoopInv' /\ PatientInv'
        BY <2>1, AnswersStep, LoopStep, PatientStep DEF ReaderOK
    <2>5. reader' = reader
        BY DEF LinkNext, Arrive, TransmitterEmpties, ReadByte, FeedByte, PollRests,
               WaitEnds, WriteByte, WriteTimesOut, linkVars
    <2> QED BY <2>2, <2>3, <2>4, <2>5 DEF EverythingInv, ReaderOK
<1> QED BY <1>1, <1>2, PTL DEF LinkSpec

-------------------------------------------------------------------------------
(* Theorems                                                                *)

\* On the USART the line is the line of SerialLine, fed with what was received:
\* no reader, writer or wait touches it otherwise (serial_command_pump.c:3-43).
THEOREM LinkImplementsLine == LinkSpec => Spec
<1>1. LinkInit => Init
    BY DEF LinkInit
<1>2. LineInv /\ [Next]_vars => LineInv'
    BY LineInvStep
<1>3. LinkInit => LineInv /\ LinkInv
    BY <1>1, LineInvInit, LinkInvInit
<1> QED
    BY <1>1, <1>2, <1>3, LinkStep, PTL DEF LinkSpec, Spec

\* Whatever is received, for buffers and polls of any size: the reader keeps room
\* for the closing '\0' and hands over no byte that ends a line (serial_line.c:43-115).
THEOREM LinkTypeOK == LinkSpec => []TypeOK
<1>1. LineInv => TypeOK
    BY DEF LineInv
<1> QED BY <1>1, LinkImplementsLine, LineInvHolds, PTL

\* A poll of any size hands over at most one line, so it cannot flood the command
\* queue (serial_command_ingress_pump.c:24-32).
THEOREM LinkAtMostOneLinePerPoll == LinkSpec => []AtMostOneLinePerPoll
<1>1. LineInv => AtMostOneLinePerPoll
    BY DEF LineInv
<1> QED BY <1>1, LinkImplementsLine, LineInvHolds, PTL

\* However the bytes arrive, get lost and are polled, and with buffers of any size:
\* the parser gets exactly the lines the reference definition finds in what was
\* received, none twice, merged, lost or empty (serial_line.c:43-115).
THEOREM LinkFramingIsExact == LinkSpec => []FramingIsExact
<1>1. FrameInv => FramingIsExact
    BY DEF FrameInv
<1> QED BY <1>1, LinkImplementsLine, LineInvHolds, FrameInvInit, FrameInvStep, PTL DEF Spec

\* For both readers: no byte is sent but as the first of an answer or behind the one
\* before it of the same answer (stm32_usart_serial_io.c, rtos_port_freertos.c:208-225).
THEOREM LinkBytesAreInOrder == LinkSpec => []BytesAreInOrder
<1>1. EverythingInv => BytesAreInOrder
    BY DEF EverythingInv, LinkInv
<1> QED BY <1>1, EverythingHolds, PTL

\* Answers of any length, queues of any size, timeouts at any byte: what comes out of
\* the task is every answer its queue accepted, whole, once and in order, and no byte
\* goes out but as an answer's first or behind the one before it
\* (rtos_port_freertos.c:215-223, stm32_usart_serial_io.c:40-61).
THEOREM LinkAnswersComeWhole == LinkSpec => []AnswersComeWhole
<1>1. EverythingInv => AnswersComeWhole
    BY DEF EverythingInv, LinkInv, AnswersInv, AnswersComeWhole
<1> QED BY <1>1, EverythingHolds, PTL

\* For buffers, answers and polls of any size: a terminal that awaits its answers
\* loses no byte to the bare loop, which is deaf while it writes
\* (stm32_usart.c:95-102, serial_command_service.c:57-104).
THEOREM LinkPatientTerminalIsHeard == LinkSpec => []PatientTerminalIsHeard
<1>1. EverythingInv => PatientTerminalIsHeard
    BY DEF EverythingInv, PatientInv, PatientTerminalIsHeard
<1> QED BY <1>1, EverythingHolds, PTL

===============================================================================
