------------------------------ MODULE LossList ------------------------------
(***************************************************************************)
(* What a NAK carries: the missing packets as the receive buffer lists     *)
(* them (missing() and missing_aged() of srt-protocol/src/recv_buffer.rs), *)
(* in inclusive ranges, and the ranges as words (loss_list.rs).  A word is *)
(* a record of its high bit, RANGE_FLAG, and its low 31 bits.              *)
(***************************************************************************)
EXTENDS RecvBuffer

LossRange(start, end) == [start |-> start, end |-> end]

\* The numbers of a range.
Covered(range) ==
    {SeqAdd(range.start, i) : i \in 0 .. OffsetFrom(range.end, range.start)}

Names(ranges) == UNION {Covered(ranges[i]) : i \in 1 .. Len(ranges)}

\* slots.iter().rposition(Option::is_some).
Highest(b) == CHOOSE i \in Present(b) : \A j \in Present(b) : j <= i

\* The turn of missing()'s loop at slot i.  `run_start` is an Option, empty or of
\* one number; a run of empty slots is closed by the filled one after it.
MissingTurn(b, r, i) ==
    LET seq == SeqAdd(b.base, i - 1)
    IN  IF b.slots[i] = NoPacket
        THEN [ranges    |-> r.ranges,
              run_start |-> IF r.run_start = <<>> THEN <<seq>> ELSE r.run_start]
        ELSE IF r.run_start = <<>> THEN r
        ELSE [ranges    |-> Append(r.ranges, LossRange(r.run_start[1], SeqPrev(seq))),
              run_start |-> <<>>]

\* missing(): a walk over the slots up to the highest filled one.
MissingRanges(b) ==
    LET walk[i \in 0 .. Len(b.slots)] ==
          IF i = 0 THEN [ranges |-> <<>>, run_start |-> <<>>]
          ELSE MissingTurn(b, walk[i - 1], i)
    IN  IF IsEmpty(b) THEN <<>> ELSE walk[Highest(b)].ranges

\* The closure missing_aged() filters by: drops a range that is fresh, and trims the
\* fresh top of another.
AgedTurn(kept, range, threshold) ==
    IF After(range.start, threshold) THEN kept
    ELSE Append(kept, LossRange(range.start, IF After(range.end, threshold) THEN threshold
                                             ELSE range.end))

AgedOnly(ranges, threshold) ==
    LET upTo[i \in 0 .. Len(ranges)] ==
          IF i = 0 THEN <<>> ELSE AgedTurn(upTo[i - 1], ranges[i], threshold)
    IN  upTo[Len(ranges)]

\* missing_aged().
MissingAgedRanges(b, tolerance) ==
    IF tolerance = 0 \/ IsEmpty(b) THEN MissingRanges(b)
    ELSE AgedOnly(MissingRanges(b), Mask(SeqAdd(b.base, Highest(b) - 1) - tolerance))

Word(flag, value) == [flag |-> flag, value |-> value]

\* Mutant: writes a range without its flag.
EncodeRangeUnflagged(range) ==
    IF range.start = range.end THEN <<Word(0, range.start)>>
    ELSE <<Word(0, range.start), Word(0, range.end)>>

EncodeRange(range) ==
    IF range.start = range.end THEN <<Word(0, range.start)>>
    ELSE <<Word(1, range.start), Word(0, range.end)>>

\* encode().
EncodeLoss(ranges) ==
    LET upTo[i \in 0 .. Len(ranges)] ==
          IF i = 0 THEN <<>> ELSE upTo[i - 1] \o EncodeRange(ranges[i])
    IN  upTo[Len(ranges)]

\* One turn of the loop of decode(), from the word `at`: a flagged word takes the
\* next one with it; an end of the words in its place is an error.
DecodeRange(words, r) ==
    IF r.at > Len(words) \/ r.truncated THEN r
    ELSE IF words[r.at].flag = 0
    THEN [at        |-> r.at + 1,
          ranges    |-> Append(r.ranges, LossRange(words[r.at].value, words[r.at].value)),
          truncated |-> FALSE]
    ELSE IF r.at = Len(words)
    THEN [at |-> r.at, ranges |-> r.ranges, truncated |-> TRUE]
    ELSE [at        |-> r.at + 2,
          ranges    |-> Append(r.ranges, LossRange(words[r.at].value, words[r.at + 1].value)),
          truncated |-> FALSE]

\* decode(): every turn takes at least a word.  The list is an error,
\* LossListError::TruncatedRange, when a turn found it truncated.
DecodeLoss(words) ==
    LET turn[n \in 0 .. Len(words)] ==
          IF n = 0 THEN [at |-> 1, ranges |-> <<>>, truncated |-> FALSE]
          ELSE DecodeRange(words, turn[n - 1])
    IN  turn[Len(words)]
=============================================================================
