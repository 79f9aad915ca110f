------------------------------ MODULE DataPath ------------------------------
(***************************************************************************)
(* One direction of media, from send() to TSBPD, with forward error        *)
(* correction: the sender's message numbers, timestamps, key flags and FEC *)
(* encoder (connection.rs, connection/arq.rs), and the receiver's FEC      *)
(* engine, timeline and reassembly buffer.                                 *)
(*                                                                         *)
(* The network may deliver any datagram that was sent, at any time, again  *)
(* and again or never: this is loss, duplication and reordering, and it is *)
(* retransmission too, since encode_retransmit() resends the stored packet *)
(* bit for bit but for the R flag.  Every message is one packet, as FEC    *)
(* wants it.  The connection's flow control is module Link's.              *)
(***************************************************************************)
EXTENDS Timeline, Fec, Sequences

CONSTANTS NoPacket,
          ISN,
          MSG_SPACE,      \* 2^26: the message numbers on the wire
          FirstMessage,   \* next_message at the start
          Start,          \* the sender's time at the start
          Steps,          \* bound: microseconds between two packets
          Contents,       \* the payload of each packet in turn: [length, payload]
          RecvWindow,     \* the receive window
          MaxPackets      \* bound: packets sent

ASSUME DataPathAssumption ==
    /\ ISN \in SeqNumber
    /\ FirstMessage \in 1 .. MSG_SPACE - 1
    /\ Start \in Time
    /\ {RecvWindow, MaxPackets} \subseteq Nat
    \* All packets are within the reach of one another, in both number spaces.
    /\ MaxPackets <= HALF
    /\ \A d \in Steps : d \in Nat /\ d * MaxPackets < TS_HALF

B == INSTANCE RecvBuffer

VARIABLES packets,       \* every packet sent, by sequence number
          next_message,
          key,           \* the active key flag, Encryption::to_bits()
          fec_send,
          net,           \* every datagram sent
          fec_recv,
          buffer,        \* recv_buffer
          inject         \* what on_data() has rebuilt and not yet inserted

vars == <<timeline, packets, next_message, key, fec_send, net, fec_recv, buffer, inject>>

Init ==
    /\ clock = Start
    /\ TimelineInit
    /\ packets = <<>>
    /\ next_message = FirstMessage
    /\ key \in {0, 1}
    /\ fec_send = NewEncoder
    /\ net = {}
    /\ fec_recv = NewFecReceiver
    /\ buffer = B!NewRecvBuffer(ISN)
    /\ inject = <<>>
-----------------------------------------------------------------------------
(* The sender.                                                             *)

\* Mutant: lets the number wrap to 0.
NextMessageWraps(n) == n + 1

\* The counter skips 0, which marks a parity packet.
NextMessage(n) == IF (n + 1) % MSG_SPACE = 0 THEN 1 ELSE n + 1

Clipped(p) ==
    [length |-> p.length, flags |-> p.flags, timestamp |-> p.timestamp,
     payload |-> p.payload]

\* emit_fec_parity(): the group's last sequence number, message number 0.
ParityPacket(seq, parity) ==
    [seq |-> seq, message |-> 0, timestamp |-> parity.timestamp,
     body |-> EncodeParity(parity)]

DataDatagram(p) ==
    [seq |-> p.seq, message |-> p.message % MSG_SPACE, timestamp |-> p.timestamp,
     body |-> [flags |-> p.flags, length |-> p.length, payload |-> p.payload]]

\* send() and send_data().  The key may have been rotated since the last packet;
\* bound: once.
Send(d) ==
    /\ inject = <<>>
    /\ Len(packets) < MaxPackets
    /\ Stamp(d)
    /\ key' = key \/ (key = 1 /\ key' = 2)
    /\ LET p == [seq |-> SeqAdd(ISN, Len(packets)), message |-> next_message,
                 timestamp |-> clock'.micros, flags |-> key',
                 length |-> Contents[Len(packets) + 1].length,
                 payload |-> Contents[Len(packets) + 1].payload]
       IN  /\ packets' = Append(packets, p)
           /\ net' = net \cup {DataDatagram(p)}
                       \cup IF GroupIsFull(fec_send)
                            THEN {ParityPacket(p.seq, Parity(fec_send, Clipped(p)))}
                            ELSE {}
           /\ fec_send' = Feed(fec_send, Clipped(p))
    /\ next_message' = NextMessage(next_message)
    /\ UNCHANGED <<fec_recv, buffer, inject>>
-----------------------------------------------------------------------------
(* The receiver.                                                           *)


\* insert_data() up to delivery: a packet within the receive window, of a key the
\* receiver holds (which Rekey is about), that the buffer wants, is stored and
\* moves the timeline.  The buffer is shown the fields before decryption.
InsertData(p) ==
    \/ /\ buffer.received < RecvWindow
       /\ B!Accepts(buffer, p)
       /\ buffer' = B!Insert(buffer, p)
       /\ \E t \in sent : t.micros = p.timestamp /\ Follow(t)
    \/ /\ \/ buffer.received >= RecvWindow
          \/ p.fields.flags # 0
          \/ ~ B!Accepts(buffer, p)
       /\ UNCHANGED <<buffer, timeline>>

Received(seq, d) == [seq |-> seq, fields |-> d, timestamp |-> d.timestamp]

SetToInject(rebuilt) ==
    IF rebuilt = {} THEN <<>> ELSE <<CHOOSE p \in rebuilt : TRUE>>

\* on_data() up to the injection of what it rebuilt.  While inject holds a packet
\* the handler is still running, and nothing else happens.
RecvParity(m) ==
    /\ inject = <<>>
    /\ m \in net
    /\ m.message = 0
    /\ LET parity == DecodeParity(m.body, m.timestamp)
       IN  IF m.body.index = ROW_INDEX
           THEN /\ fec_recv' = ObserveParity(fec_recv, m.seq, parity)
                /\ inject' = SetToInject(ParityRebuilds(fec_recv, m.seq, parity))
           ELSE UNCHANGED <<fec_recv, inject>>
    /\ UNCHANGED <<timeline, packets, next_message, key, fec_send, net, buffer>>

RecvData(m) ==
    /\ inject = <<>>
    /\ m \in net
    /\ m.message # 0
    /\ LET d == [length |-> m.body.length, flags |-> m.body.flags,
                 timestamp |-> m.timestamp, payload |-> m.body.payload]
       IN  /\ fec_recv' = ObserveData(fec_recv, m.seq, d)
           /\ inject' = SetToInject(DataRebuilds(fec_recv, m.seq, d))
           /\ InsertData(Received(m.seq, d))
    /\ UNCHANGED <<packets, next_message, key, fec_send, net>>

\* Encryption::from_bits() refuses 0b11.
InjectRecovered ==
    /\ inject # <<>>
    /\ inject' = Tail(inject)
    /\ LET seq == Head(inject)[1]  d == Head(inject)[2]
       IN  IF d.flags \in {0, 1, 2} THEN InsertData(Received(seq, d))
           ELSE UNCHANGED <<buffer, timeline>>
    /\ UNCHANGED <<packets, next_message, key, fec_send, net, fec_recv>>

\* deliver_tsbpd() plays the earliest packet, skipping the gap before it.
Play ==
    /\ inject = <<>>
    /\ ~ B!IsEmpty(buffer)
    /\ buffer' = B!Pop(buffer)
    /\ UNCHANGED <<timeline, packets, next_message, key, fec_send, net, fec_recv, inject>>
-----------------------------------------------------------------------------
Next ==
    \/ \E d \in Steps : Send(d)
    \/ \E m \in net : RecvParity(m) \/ RecvData(m)
    \/ InjectRecovered
    \/ Play

Spec == Init /\ [][Next]_vars
-----------------------------------------------------------------------------
SentAs(seq) == Clipped(packets[OffsetFrom(seq, ISN) + 1])

(* Recovery rebuilds exactly what was sent: everything the receiver holds  *)
(* under a sequence number, whether it arrived or was rebuilt, has the     *)
(* length, key flag, timestamp and payload of the packet sent under it,    *)
(* whatever was lost, repeated or reordered, and across a key rotation     *)
(* inside the group.                                                       *)
HeldIsSent ==
    /\ \A seq \in DOMAIN fec_recv.data : fec_recv.data[seq] = SentAs(seq)
    /\ \A i \in B!Present(buffer) :
          buffer.slots[i].fields = SentAs(buffer.slots[i].seq)

(* No recovery is missed: a parity is never held while exactly one packet  *)
(* of its group is missing, in whatever order data and parity came.        *)
NothingLeftToRebuild ==
    \A base \in DOMAIN fec_recv.parities : Cardinality(Missing(fec_recv, base)) # 1

(* A message number on the wire tells data from parity: of all datagrams   *)
(* ever sent, those numbered 0 are the parity packets, although the 26-bit *)
(* number of the data packets wraps.                                       *)
DataIsNotParity ==
    \A m \in net : m.message = 0 <=> "index" \in DOMAIN m.body

=============================================================================
