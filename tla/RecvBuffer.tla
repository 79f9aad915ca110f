----------------------------- MODULE RecvBuffer -----------------------------
(***************************************************************************)
(* The receiver's reassembly buffer (srt-protocol/src/recv_buffer.rs) as   *)
(* operators on a record                                                   *)
(*   base     - the next sequence number the application expects;          *)
(*   slots    - slots[i] holds the packet numbered base + i - 1, or        *)
(*              NoPacket where it has not arrived;                         *)
(*   received - how many slots are filled, counted incrementally.          *)
(* A packet is a record with at least the field seq.                       *)
(***************************************************************************)
EXTENDS SeqNum, Sequences, FiniteSets

CONSTANT NoPacket

NewRecvBuffer(initial_seq) ==
    [base |-> initial_seq, slots |-> <<>>, received |-> 0]

Present(b) == {i \in 1 .. Len(b.slots) : b.slots[i] # NoPacket}

\* The first filled slot: slots.iter().position(Option::is_some).
FirstPresent(b) == CHOOSE i \in Present(b) : \A j \in Present(b) : i <= j

IsEmpty(b) == Present(b) = {}

\* Mutant: acknowledges up to the highest packet, gaps included.
ReceivedAckPointHighest(b) == SeqAdd(b.base, Len(b.slots))

\* One past the last packet received without a gap: what an ACK reports.
ReceivedAckPoint(b) ==
    LET contiguous == CHOOSE n \in 0 .. Len(b.slots) :
                         /\ 1 .. n \subseteq Present(b)
                         /\ n + 1 \notin Present(b)
    IN  SeqAdd(b.base, contiguous)

HasGaps(b) == b.received # Len(b.slots)

\* insert() returns true exactly when Accepts holds, and then stores p.
Accepts(b, p) ==
    LET offset == OffsetFrom(p.seq, b.base)
    IN  offset >= 0 /\ offset + 1 \notin Present(b)

\* Mutant: makes room for one slot too many.
InsertOverlong(b, p) ==
    LET i == OffsetFrom(p.seq, b.base) + 1
        n == IF i > Len(b.slots) THEN i + 1 ELSE Len(b.slots)
    IN  [b EXCEPT !.slots = [j \in 1 .. n |-> IF j = i THEN p
                                              ELSE IF j <= Len(b.slots) THEN b.slots[j]
                                              ELSE NoPacket],
                  !.received = @ + 1]

Insert(b, p) ==
    LET i == OffsetFrom(p.seq, b.base) + 1
        n == IF i > Len(b.slots) THEN i ELSE Len(b.slots)
    IN  [b EXCEPT !.slots = [j \in 1 .. n |-> IF j = i THEN p
                                              ELSE IF j <= Len(b.slots) THEN b.slots[j]
                                              ELSE NoPacket],
                  !.received = @ + 1]

\* peek() and the packet pop() returns.
Popped(b) == b.slots[FirstPresent(b)]

\* Mutants: forgets to count; moves the base by one whatever it skipped.
PopUncounted(b) ==
    [base     |-> SeqNext(Popped(b).seq),
     slots    |-> SubSeq(b.slots, FirstPresent(b) + 1, Len(b.slots)),
     received |-> b.received]
PopKeepsGap(b) ==
    [base     |-> SeqNext(b.base),
     slots    |-> SubSeq(b.slots, FirstPresent(b) + 1, Len(b.slots)),
     received |-> b.received - 1]

\* pop(): takes the earliest packet and drops the gap in front of it.
Pop(b) ==
    [base     |-> SeqNext(Popped(b).seq),
     slots    |-> SubSeq(b.slots, FirstPresent(b) + 1, Len(b.slots)),
     received |-> b.received - 1]

\* pop_in_order() pops only when the packet at the base is here.
CanPopInOrder(b) == 1 \in Present(b)

\* Mutants: one slot too few; nothing uncounted; a range beyond the base too.
DropRangeShort(b, first, last) ==
    LET advance == OffsetFrom(last, b.base)
    IN  IF Before(last, b.base) \/ After(first, b.base)
        THEN b
        ELSE [base     |-> SeqNext(last),
              slots    |-> SubSeq(b.slots, advance + 1, Len(b.slots)),
              received |-> b.received
                             - Cardinality({i \in Present(b) : i <= advance})]
DropRangeUncounted(b, first, last) ==
    LET advance == OffsetFrom(last, b.base) + 1
    IN  IF Before(last, b.base) \/ After(first, b.base)
        THEN b
        ELSE [b EXCEPT !.base = SeqNext(last),
                       !.slots = SubSeq(@, advance + 1, Len(@))]
DropRangeAhead(b, first, last) ==
    LET advance == OffsetFrom(last, b.base) + 1
    IN  IF Before(last, b.base)
        THEN b
        ELSE [base     |-> SeqNext(last),
              slots    |-> SubSeq(b.slots, advance + 1, Len(b.slots)),
              received |-> b.received
                             - Cardinality({i \in Present(b) : i <= advance})]

\* drop_range(): gives up on first..last when the range reaches the base.
DropRange(b, first, last) ==
    LET advance == OffsetFrom(last, b.base) + 1
    IN  IF Before(last, b.base) \/ After(first, b.base)
        THEN b
        ELSE [base     |-> SeqNext(last),
              slots    |-> SubSeq(b.slots, advance + 1, Len(b.slots)),
              received |-> b.received
                             - Cardinality({i \in Present(b) : i <= advance})]

\* missing(), as the set of sequence numbers its ranges cover: the empty slots
\* below the highest filled one.
Missing(b) ==
    {SeqAdd(b.base, i - 1) : i \in {j \in 1 .. Len(b.slots) :
                                     /\ j \notin Present(b)
                                     /\ \E k \in Present(b) : j < k}}

\* missing_aged(): the part of it at least `tolerance` below the highest packet.
MissingAged(b, tolerance) ==
    LET highest == CHOOSE i \in Present(b) : \A j \in Present(b) : j <= i
        threshold == Mask(SeqAdd(b.base, highest - 1) - tolerance)
    IN  IF tolerance = 0 \/ IsEmpty(b)
        THEN Missing(b)
        ELSE {s \in Missing(b) : ~ After(s, threshold)}

\* What pop() and drop_range() have in common: the base moves by n, and the
\* packets in the first n slots are dropped and uncounted.
Advance(b, n) ==
    [base     |-> Mask(b.base + n),
     slots    |-> SubSeq(b.slots, n + 1, Len(b.slots)),
     received |-> b.received - Cardinality({i \in Present(b) : i <= n})]
=============================================================================
