--------------------------- MODULE RecvBufferSpec ---------------------------
(***************************************************************************)
(* The reassembly buffer as a component: any sequence of the calls the     *)
(* connection makes on it.                                                 *)
(*                                                                         *)
(* The buffer sees circular sequence numbers only.  A packet's payload     *)
(* stands for its contents: the packet's true index in the peer's stream.  *)
(* `index` is the true index of the buffer's base, which the code never    *)
(* knows; the properties say that the circular arithmetic nevertheless     *)
(* does what a buffer on true indices would.                               *)
(***************************************************************************)
EXTENDS LossList

CONSTANTS InitialSeq,  \* the peer's initial sequence number
          MaxIndex     \* bound: how far the stream goes

Packet == [seq : SeqNumber, payload : Nat]

ASSUME SpecAssumption ==
    /\ InitialSeq \in SeqNumber
    /\ MaxIndex \in Nat
    /\ NoPacket \notin Packet

VARIABLES buf,    \* the RecvBuffer
          index,  \* the true index of buf.base
          out     \* the payload popped last, -1 before the first

vars == <<buf, index, out>>

\* Where a packet may lie relative to the base: the number space's own
\* assumption is that live numbers are less than half of it apart.
Displacement == {d \in (-HALF) .. THRESHOLD : index + d >= 0}

PacketAt(d) == [seq |-> Mask(buf.base + d), payload |-> index + d]

Init ==
    /\ buf = NewRecvBuffer(InitialSeq)
    /\ index = 0
    /\ out = -1

InsertPacket ==
    \E d \in Displacement :
       /\ index + d <= MaxIndex
       /\ Accepts(buf, PacketAt(d))
       /\ buf' = Insert(buf, PacketAt(d))
       /\ UNCHANGED <<index, out>>

PopPacket ==
    /\ ~ IsEmpty(buf)
    /\ out' = Popped(buf).payload
    /\ buf' = Pop(buf)
    /\ index' = index + FirstPresent(buf)

PopInOrder ==
    /\ CanPopInOrder(buf)
    /\ out' = Popped(buf).payload
    /\ buf' = Pop(buf)
    /\ index' = index + 1

DropPackets ==
    \E f, l \in Displacement :
       /\ f <= l
       /\ index + l <= MaxIndex
       /\ buf' = DropRange(buf, Mask(buf.base + f), Mask(buf.base + l))
       /\ index' = IF f <= 0 /\ 0 <= l THEN index + l + 1 ELSE index
       /\ UNCHANGED out

Next == InsertPacket \/ PopPacket \/ PopInOrder \/ DropPackets

Spec == Init /\ [][Next]_vars
-----------------------------------------------------------------------------
(* Type correctness of the buffer record and of the true positions.        *)
TypeOK ==
    /\ buf \in [base     : SeqNumber,
               slots    : Seq(Packet \cup {NoPacket}),
               received : Nat]
    /\ index \in Nat
    /\ out \in Nat \cup {-1}

(* Slot i holds the packet that is truly i - 1 after the base, whatever    *)
(* the numbers wrapped to: insert() indexes slots by offset_from, and      *)
(* pop() and drop_range() move the base without renumbering the slots.     *)
SlotsMatch ==
    \A i \in Present(buf) : buf.slots[i] = PacketAt(i - 1)

(* The comment on `slots`: "The back slot is always present", and the span *)
(* never exceeds the half of the number space offset_from can measure.     *)
BackPresent ==
    /\ Len(buf.slots) <= HALF
    /\ buf.slots # <<>> => Len(buf.slots) \in Present(buf)

(* `received` counts the filled slots exactly, through every insert, pop   *)
(* and drop_range.                                                         *)
CountExact == buf.received = Cardinality(Present(buf))

(* has_gaps(), the O(1) test that decides whether a loss list is built at  *)
(* all, agrees with the loss list.                                         *)
GapsAgree == HasGaps(buf) <=> Missing(buf) # {}

\* The absent packets that are truly at least `tolerance` behind the newest one.
TrulyAged(tolerance) ==
    {Mask(buf.base + i - 1) : i \in {j \in 1 .. Len(buf.slots) :
        /\ j \notin Present(buf)
        /\ j + tolerance <= Len(buf.slots)}}

(* A NAK names what is missing, no more and no less: the ranges missing()  *)
(* and missing_aged() walk out of the buffer, written as a loss list and   *)
(* read back, cover exactly the absent packets that are truly `tolerance`  *)
(* behind the newest one, also where the numbers wrap between the gap, the *)
(* threshold and the newest packet; and so does the set that Link sends.   *)
NakNamesMissing ==
    \A tolerance \in 0 .. THRESHOLD :
       LET decoded == DecodeLoss(EncodeLoss(MissingAgedRanges(buf, tolerance)))
       IN  /\ MissingAged(buf, tolerance) = TrulyAged(tolerance)
           /\ ~ decoded.truncated
           /\ Names(decoded.ranges) = TrulyAged(tolerance)

(* The buffer on circular numbers implements the buffer on true indices:   *)
(* what it holds is what arrived and was neither delivered nor given up    *)
(* on, and deliveries are in order and never repeated.                     *)
Ordered == INSTANCE OrderedBuffer
              WITH next <- index,
                   held <- {buf.slots[i].payload : i \in Present(buf)}

ImplementsOrderedBuffer == Ordered!Spec
=============================================================================
