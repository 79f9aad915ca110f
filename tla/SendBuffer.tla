----------------------------- MODULE SendBuffer -----------------------------
(***************************************************************************)
(* The sender's retransmission buffer (srt-protocol/src/send_buffer.rs):   *)
(* a sequence of entries, oldest first,                                    *)
(*   packet - the packet as sent;                                          *)
(*   gated  - it was retransmitted less than one RTT ago (the code keeps   *)
(*            last_retransmit and compares it with the clock).             *)
(***************************************************************************)
EXTENDS SeqNum, Sequences

Sent(packet) == [packet |-> packet, gated |-> FALSE]

\* ack(): removes the entries before next_expected from the front.
AckSent(sb, next_expected) ==
    LET released == CHOOSE n \in 0 .. Len(sb) :
                       /\ \A i \in 1 .. n : Before(sb[i].packet.seq, next_expected)
                       /\ n < Len(sb) => ~ Before(sb[n + 1].packet.seq, next_expected)
    IN  SubSeq(sb, released + 1, Len(sb))

\* n calls of drop_front().
DropFront(sb, n) == SubSeq(sb, n + 1, Len(sb))

\* The entries retransmit_range() resends for the sequence numbers in `loss`,
\* and the buffer after mark_retransmitted() on each of them.
Resent(sb, loss) ==
    {i \in 1 .. Len(sb) : sb[i].packet.seq \in loss /\ ~ sb[i].gated}

MarkRetransmitted(sb, loss) ==
    [i \in 1 .. Len(sb) |-> [sb[i] EXCEPT !.gated = @ \/ i \in Resent(sb, loss)]]
=============================================================================
