----------------------------- MODULE PacketWire -----------------------------
(***************************************************************************)
(* The datagrams of module Link on the wire (srt-protocol/src/packet.rs    *)
(* and control.rs).                                                        *)
(*                                                                         *)
(* A datagram is <<w0, w1, rest>>: the first two header words as records   *)
(* of their bit fields, and the payload or the CIF as a sequence of words. *)
(* The timestamp and the destination socket id, which every packet carries *)
(* alike, are left out.                                                    *)
(***************************************************************************)
EXTENDS Link, LossList

\* ControlType::to_raw(), of the types Link's ends send.
Raw == [Ack |-> 2, Nak |-> 3, Shutdown |-> 5, DropReq |-> 7]

PositionBits == [First |-> 2, Middle |-> 0, Last |-> 1, Single |-> 3]

PositionOf(bits) == CHOOSE p \in DOMAIN PositionBits : PositionBits[p] = bits

\* Packet::encode() of a data packet.  The message number is the payload's.
EncodeData(m) ==
    <<[f |-> 0, seq |-> m.packet.seq],
      [pp |-> PositionBits[m.packet.position], o |-> 1, kk |-> 0,
       r |-> IF m.retransmitted THEN 1 ELSE 0, message |-> m.packet.payload[1]],
      <<m.packet.payload>>>>

Control(type, type_specific, cif) ==
    <<[f |-> 1, type |-> Raw[type], subtype |-> 0], type_specific, cif>>

\* Mutant: cuts a full ACK to the fields of a light one.
EncodeAckCut(m) == Control("Ack", 1, <<m.seq>>)

\* A full ACK's RTT and rates, and the ACK and message numbers that go into the
\* type-specific word, are fixed here.
EncodeAck(m) ==
    IF m.type = "LightAck" THEN Control("Ack", 0, <<m.seq>>)
    ELSE Control("Ack", 1, <<m.seq, 0, 0, m.avail, 0, 0, 0>>)

\* The ranges of a NAK, which Link sends as the set they cover: what missing()
\* lists of a buffer that begins at the first of these numbers, lacks them all and
\* holds every other one up to the one after the last of them.
RangesOf(loss) ==
    LET first == CHOOSE s \in loss : \A t \in loss : OffsetFrom(t, s) >= 0
        span  == CHOOSE n \in {OffsetFrom(t, first) : t \in loss} :
                    \A t \in loss : OffsetFrom(t, first) <= n
        other == [seq |-> first, position |-> "Single", payload |-> <<0, 0>>]
    IN  MissingRanges([base     |-> first,
                       slots    |-> [i \in 1 .. span + 2 |->
                                       IF SeqAdd(first, i - 1) \in loss THEN NoPacket
                                       ELSE other],
                       received |-> 0])

\* Packet::encode(), with to_wire() and encode_cif().
Encode(m) ==
    CASE m.type = "Data" -> EncodeData(m)
      [] m.type \in {"Ack", "LightAck"} -> EncodeAck(m)
      [] m.type = "Nak" -> Control("Nak", 0, EncodeLoss(RangesOf(m.loss)))
      [] m.type = "DropReq" -> Control("DropReq", 0, <<m.first, m.last>>)
      [] m.type = "Shutdown" -> Control("Shutdown", 0, <<>>)

\* A packet decode() refuses: feed_recv_buf() drops it.
Undecodable == [type |-> "Undecodable"]

\* Encryption::from_bits() refuses 0b11.
DecodeData(w0, w1, payload) ==
    IF w1.kk = 3 THEN Undecodable
    ELSE Data([seq |-> w0.seq, position |-> PositionOf(w1.pp), payload |-> Head(payload)],
              w1.r = 1)

\* decode_ack(): the length tells how much of an ACK this is.
DecodeAck(cif) ==
    CASE Len(cif) = 1 -> LightAck(cif[1])
      [] Len(cif) \in {4, 7} -> FullAck(cif[1], cif[4])
      [] OTHER -> Undecodable

\* Packet::decode(), with ControlBody::decode().
Decode(wire) ==
    LET w0 == wire[1]  cif == wire[3]
    IN  IF w0.f = 0 THEN DecodeData(w0, wire[2], cif)
        ELSE CASE w0.type = Raw.Ack -> DecodeAck(cif)
               [] w0.type = Raw.Nak /\ ~ DecodeLoss(cif).truncated ->
                    Nak(Names(DecodeLoss(cif).ranges))
               [] w0.type = Raw.DropReq /\ Len(cif) = 2 -> DropReq(cif[1], cif[2])
               [] w0.type = Raw.Shutdown -> Shutdown
               [] OTHER -> Undecodable

(* Every datagram in flight is understood as it was meant: decoding what   *)
(* the sender encoded gives back the packet, although full and light ACKs  *)
(* are told apart by their length only and a loss list is compressed into  *)
(* ranges whose numbers wrap.                                              *)
PacketsUnderstood == \A p \in Ends : \A m \in net[p] : Decode(Encode(m)) = m
=============================================================================
