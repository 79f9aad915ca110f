-------------------------------- MODULE Link --------------------------------
(***************************************************************************)
(* Two connected SRT endpoints over a datagram network that loses,         *)
(* duplicates and reorders, driven by applications that send, poll and     *)
(* close.                                                                  *)
(*                                                                         *)
(* Each step is one call into one endpoint's Connection, an application's, *)
(* a datagram's or a timer's, followed by the draining of its outputs and  *)
(* its events, as the driver does.  The driver makes several such calls    *)
(* before it drains: those of all the timers due together.  While the      *)
(* connection is up that is the same as one step after another, because a  *)
(* timer that an earlier call cleared has nothing left to do when it       *)
(* fires, and events not drained in between only narrow the window that    *)
(* the ACK timer advertises, as those of MayStall do.  It is not the same  *)
(* once a call has ended the connection, since the driver then stops after *)
(* draining: so the step that ends it also makes the calls of the timers   *)
(* that were due with it (EndsTurn).                                       *)
(*                                                                         *)
(* A datagram in flight more than once is one element of net; duplication  *)
(* is a delivery that leaves it there.                                     *)
(***************************************************************************)
EXTENDS Connection, Functions

CONSTANTS ISN,         \* the initial sequence number agreed in the handshake
          Lengths,     \* the possible message lengths, in packets
          Paced,       \* the possible settings of config.max_bw > 0
          MaxBatch,    \* bound: messages the driver takes over in one batch
          MaxPackets,  \* bound: packets each end sends, a function of the end
          MaxInFlight, \* bound: distinct datagrams in flight to an end when more
                       \* are sent, a function of the end
          MaxLoss,     \* bound: datagrams the network loses
          MaxDup,      \* bound: datagrams the network duplicates
          MayStall,    \* the ends whose application may leave events unpolled
          MayClose,    \* the ends whose application may close
          MayIdle      \* the peer-idle timeout may expire

Ends == {"a", "b"}
Peer(p) == IF p = "a" THEN "b" ELSE "a"

ASSUME LinkAssumption ==
    /\ ISN \in SeqNumber
    /\ Lengths \subseteq Nat \ {0} /\ Lengths # {}
    /\ Paced \subseteq BOOLEAN /\ Paced # {}
    /\ MaxBatch \in Nat \ {0}
    /\ MaxPackets \in [Ends -> 0 .. THRESHOLD]
    /\ MaxInFlight \in [Ends -> Nat]
    /\ {MaxLoss, MaxDup} \subseteq Nat
    /\ MayStall \subseteq Ends /\ MayClose \subseteq Ends
    /\ MayIdle \in BOOLEAN

VARIABLES conn,  \* the two connections
          net,   \* net[p]: the datagrams in flight to p
          sent,  \* sent[p]: the messages p's application has sent
          lost,  \* how many datagrams were lost
          dups   \* how many were delivered more than once

vars == <<conn, net, sent, lost, dups>>

\* Each end's opening ACK, of nothing, has been sent and received.
Init ==
    /\ \E paced \in Paced :
          conn = [p \in Ends |->
                    [NewConnection(ISN, paced) EXCEPT !.last_acked = <<ISN, FlowWindow>>]]
    /\ net = [p \in Ends |-> {}]
    /\ sent = [p \in Ends |-> <<>>]
    /\ lost = 0
    /\ dups = 0

\* The timers whose handlers do not look at the state of the connection.
Heedless == {"Tsbpd", "SndPacing", "Linger"}

\* What the turn of p's driver leaves, in which a call left c while `armed` was on
\* the table: when that call ended the connection, some of the timers may have been
\* due with it, and their handlers run as well.
EndsTurn(p, armed, c) ==
    IF IsConnected(c) \/ ~ IsConnected(conn[p]) THEN {c}
    ELSE UNION {Fired([c EXCEPT !.timers = @ \ due], due, FALSE) :
                  due \in SUBSET (armed \cap Heedless)}

\* drain_events(): the events go to the application, up to a payload for which it
\* has left no room.  Behind the one that ends the connection the driver stops.
DrainEvents(p, c) ==
    LET stuck == p \in MayStall /\ c.events # <<>> /\ Head(c.events) = "Data"
    IN  IF stuck THEN c
        ELSE [c EXCEPT !.events = <<>>,
                       !.timers = IF IsConnected(c) THEN @ ELSE {}]

\* Endpoint p takes `consumed` off the network, and a call made while `armed` was on
\* its table leaves one of `results`.  The driver sends all that p has queued.
Becomes(p, armed, results, consumed) ==
    \E c \in UNION {EndsTurn(p, armed, r) : r \in results} :
       /\ \/ Cardinality(net[Peer(p)]) < MaxInFlight[Peer(p)]
          \/ c.outputs \subseteq net[Peer(p)]
       /\ conn' = [conn EXCEPT ![p] = DrainEvents(p, [c EXCEPT !.outputs = {}])]
       /\ net' = [net EXCEPT ![p] = @ \ consumed,
                             ![Peer(p)] = @ \cup c.outputs]

PacketsSent(p) ==
    Len(conn[p].send_queue) + OffsetFrom(conn[p].next_send_seq, ISN)
-----------------------------------------------------------------------------
(* The application's calls.                                                *)

\* The messages first + 1, first + 2, ... of these lengths are sent.
SendAll(c, first, lengths) ==
    LET after[k \in 0 .. Len(lengths)] ==
            IF k = 0 THEN {c}
            ELSE UNION {Send(b, first + k, lengths[k]) : b \in after[k - 1]}
    IN  after[Len(lengths)]

\* The driver pulls a command only while the send window has room, and then takes
\* over the whole batch without looking at the window again.
AppSend(p) ==
    \E lengths \in UNION {[1 .. k -> Lengths] : k \in 1 .. MaxBatch} :
       LET first == Len(sent[p])
           total == FoldFunction(+, 0, lengths)
       IN  /\ CanSend(conn[p])
           /\ SendWindowAvailable(conn[p])
           /\ PacketsSent(p) + total <= MaxPackets[p]
           /\ Becomes(p, conn[p].timers, SendAll(conn[p], first, lengths), {})
           /\ sent' = [sent EXCEPT ![p] = @ \o
                          [k \in 1 .. Len(lengths) |->
                             [i \in 1 .. lengths[k] |-> <<first + k, i>>]]]
           /\ UNCHANGED <<lost, dups>>

\* The application makes room for one more payload.
AppPoll(p) ==
    /\ conn[p].events # <<>>
    /\ conn' = [conn EXCEPT ![p] = DrainEvents(p, [@ EXCEPT !.events = Tail(@)])]
    /\ UNCHANGED <<net, sent, lost, dups>>

AppClose(p) ==
    /\ p \in MayClose
    /\ CanSend(conn[p])
    /\ Becomes(p, conn[p].timers, {Close(conn[p])}, {})
    /\ UNCHANGED <<sent, lost, dups>>
-----------------------------------------------------------------------------
(* Datagrams.                                                              *)

\* p takes m off the network, or a copy of it.
Receives(p, m, results) ==
    /\ m \in net[p]
    /\ \/ Becomes(p, conn[p].timers, results, {m}) /\ UNCHANGED dups
       \/ Becomes(p, conn[p].timers, results, {}) /\ dups < MaxDup /\ dups' = dups + 1
    /\ UNCHANGED <<sent, lost>>

RecvData(p, seq) ==
    \E m \in net[p] :
       /\ m.type = "Data"
       /\ m.packet.seq = seq
       /\ IsConnected(conn[p])
       /\ Receives(p, m, OnData(conn[p], m.packet, m.retransmitted))

RecvAck(p) ==
    \E m \in net[p] :
       /\ m.type \in {"Ack", "LightAck"}
       /\ IsConnected(conn[p])
       /\ Receives(p, m, OnAck(conn[p], m))

RecvNak(p) ==
    \E m \in net[p] :
       /\ m.type = "Nak"
       /\ IsConnected(conn[p])
       /\ Receives(p, m, OnNak(conn[p], m.loss))

RecvDropReq(p) ==
    \E m \in net[p] :
       /\ m.type = "DropReq"
       /\ IsConnected(conn[p])
       /\ Receives(p, m, OnDropReq(conn[p], m.first, m.last))

RecvShutdown(p) ==
    /\ IsConnected(conn[p])
    /\ Receives(p, Shutdown, OnShutdown(conn[p]))

\* feed_recv_buf() once the connection has failed.
RecvIgnored(p) ==
    \E m \in net[p] :
       /\ ~ IsConnected(conn[p])
       /\ Receives(p, m, {conn[p]})

Lose(p) ==
    \E m \in net[p] :
       /\ lost < MaxLoss
       /\ lost' = lost + 1
       /\ net' = [net EXCEPT ![p] = @ \ {m}]
       /\ UNCHANGED <<conn, sent, dups>>
-----------------------------------------------------------------------------
(* Timers: an armed timer fires once and is gone unless re-armed.          *)

Fires(p, timer) ==
    /\ timer \in conn[p].timers
    /\ Becomes(p, conn[p].timers \ {timer},
               HandleTimer(Disarm(conn[p], timer), timer, FALSE), {})
    /\ UNCHANGED <<sent, lost, dups>>

AckTimer(p) == Fires(p, "Ack")

NakTimer(p) == Fires(p, "Nak")

ExpTimer(p) == Fires(p, "Exp")

TsbpdTimer(p) == Fires(p, "Tsbpd")

PacingTimer(p) == Fires(p, "SndPacing")

LingerTimer(p) == Fires(p, "Linger")

PeerIdleTimer(p) == MayIdle /\ Fires(p, "PeerIdle")

\* One RTT after a retransmission the timing gate lets the packet through again.
GateOpens(p) ==
    \E i \in 1 .. Len(conn[p].send_buffer) :
       /\ conn[p].send_buffer[i].gated
       /\ conn' = [conn EXCEPT ![p].send_buffer[i].gated = FALSE]
       /\ UNCHANGED <<net, sent, lost, dups>>
-----------------------------------------------------------------------------
App(p) == AppSend(p) \/ AppPoll(p) \/ AppClose(p)

Datagram(p) ==
    \/ \E seq \in SeqNumber : RecvData(p, seq)
    \/ RecvAck(p)
    \/ RecvNak(p)
    \/ RecvDropReq(p)
    \/ RecvShutdown(p)
    \/ RecvIgnored(p)

Timer(p) ==
    \/ AckTimer(p)
    \/ NakTimer(p)
    \/ ExpTimer(p)
    \/ TsbpdTimer(p)
    \/ PacingTimer(p)
    \/ LingerTimer(p)
    \/ PeerIdleTimer(p)
    \/ GateOpens(p)

Next == \E p \in Ends : App(p) \/ Datagram(p) \/ Timer(p) \/ Lose(p)

Spec == Init /\ [][Next]_vars

\* An armed timer fires, a datagram that is not lost arrives, and the application
\* reads.  Nobody has to send or to close, and the network need not lose.
Fairness ==
    \A p \in {e \in Ends : MaxPackets[e] > 0} :
       /\ WF_vars(PacingTimer(p))
       /\ WF_vars(ExpTimer(p))
       /\ WF_vars(GateOpens(p))
       /\ WF_vars(RecvAck(p))
       /\ WF_vars(RecvNak(p))
       /\ \A n \in 1 .. MaxPackets[p] : WF_vars(RecvData(Peer(p), SeqAdd(ISN, n - 1)))
       /\ WF_vars(TsbpdTimer(Peer(p)))
       /\ WF_vars(AckTimer(Peer(p)))
       /\ WF_vars(AppPoll(Peer(p)))

FairSpec == Spec /\ Fairness
-----------------------------------------------------------------------------
(* Type correctness.                                                       *)
Payload == Nat \X Nat
PacketPosition == {"Single", "First", "Middle", "Last"}
Packet == [seq : SeqNumber, position : PacketPosition, payload : Payload]

ASSUME NoPacketAssumption == NoPacket \notin Packet

Message ==
    [type : {"Data"}, packet : Packet, retransmitted : BOOLEAN]
      \cup [type : {"Ack"}, seq : SeqNumber, avail : 0 .. FlowWindow]
      \cup [type : {"LightAck"}, seq : SeqNumber]
      \cup [type : {"Nak"}, loss : SUBSET SeqNumber]
      \cup [type : {"DropReq"}, first : SeqNumber, last : SeqNumber]
      \cup {Shutdown}

ConnectionRecord ==
    [paced             : BOOLEAN,
     state             : {"Connected", "Failed"},
     closing           : BOOLEAN,
     send_queue        : Seq([position : PacketPosition, payload : Payload]),
     send_buffer       : Seq([packet : Packet, gated : BOOLEAN]),
     next_send_seq     : SeqNumber,
     next_send         : BOOLEAN,
     peer_avail_window : 0 .. FlowWindow,
     recv_buffer       : [base : SeqNumber, slots : Seq(Packet \cup {NoPacket}),
                          received : Nat],
     fragments         : Seq(Payload),
     next_seq          : SeqNumber \cup {None},
     reported_loss     : SUBSET SeqNumber,
     reorder_tolerance : 0 .. MaxReorderTolerance,
     highest_recv_seq  : SeqNumber \cup {None},
     orderly_streak    : 0 .. ReorderDecayAfter - 1,
     packets_since_ack : 0 .. LightAckEvery - 1,
     last_acked        : (SeqNumber \cup {None}) \X (0 .. FlowWindow \cup {None}),
     events            : Seq({"Data", "Closed", "Failed"}),
     timers            : SUBSET (ArqTimers \cup {"Linger"}),
     outputs           : {{}},
     delivered         : Seq(Seq(Payload)),
     shed              : SUBSET SeqNumber,
     skipped           : BOOLEAN,
     overflowed        : BOOLEAN]

TypeOK ==
    /\ conn \in [Ends -> ConnectionRecord]
    /\ net \in [Ends -> SUBSET Message]
    /\ sent \in [Ends -> Seq(Seq(Payload))]
    /\ lost \in 0 .. MaxLoss
    /\ dups \in 0 .. MaxDup
-----------------------------------------------------------------------------
(* Safety.                                                                 *)

(* An ACK releases only what the peer has: every packet that left the      *)
(* retransmission buffer, other than by being shed as too late, is in the  *)
(* peer's receive buffer or behind its base.  ACKs are reordered,          *)
(* duplicated and stale, and received_ack_point() runs ahead of delivery.  *)
NoPrematureRelease ==
    \A p \in Ends :
       LET buf == conn[Peer(p)].recv_buffer
           buffered == {conn[p].send_buffer[i].packet.seq :
                          i \in 1 .. Len(conn[p].send_buffer)}
       IN  \A n \in 0 .. OffsetFrom(conn[p].next_send_seq, ISN) - 1 :
              LET seq == SeqAdd(ISN, n)
              IN  \/ seq \in buffered
                  \/ seq \in conn[p].shed
                  \/ Before(seq, buf.base)
                  \/ OffsetFrom(seq, buf.base) + 1 \in Present(buf)

(* No lost wakeup: while there is work that only a timer will do, that     *)
(* timer is armed.  Handlers arm and clear Exp, Tsbpd, SndPacing and       *)
(* Linger in a dozen places; one missed arm stalls the connection.         *)
NoLostWakeup ==
    \A p \in Ends :
       IsConnected(conn[p]) =>
          /\ (conn[p].send_buffer # <<>>) = ("Exp" \in conn[p].timers)
          /\ IsEmpty(conn[p].recv_buffer) = ("Tsbpd" \notin conn[p].timers)
          /\ (conn[p].send_queue # <<>>) = ("SndPacing" \in conn[p].timers)
          /\ conn[p].closing = ("Linger" \in conn[p].timers)

(* A stalled application bounds the receive side: the packets waiting for  *)
(* their play time and the messages not yet polled together never exceed   *)
(* the flow window, whatever the peer still has in flight or resends; and  *)
(* the reassembler, which no advertised window counts, holds less than the *)
(* longest message.                                                        *)
ReceiveSideBounded ==
    \A p \in Ends :
       /\ conn[p].recv_buffer.received
             + Cardinality({i \in 1 .. Len(conn[p].events) : conn[p].events[i] = "Data"})
             <= FlowWindow
       /\ \E n \in Lengths : Len(conn[p].fragments) < n

(* Each direction is a message stream: fragments are reassembled whole and *)
(* never spliced across a gap, messages arrive in order, none twice.       *)
StreamAB == INSTANCE MessageStream
               WITH sent <- sent["a"], delivered <- conn["b"].delivered,
                    last <- IF conn["b"].delivered = <<>> THEN 0
                            ELSE conn["b"].delivered[Len(conn["b"].delivered)][1][1]

StreamBA == INSTANCE MessageStream
               WITH sent <- sent["b"], delivered <- conn["a"].delivered,
                    last <- IF conn["a"].delivered = <<>> THEN 0
                            ELSE conn["a"].delivered[Len(conn["a"].delivered)][1][1]

ImplementsMessageStream == StreamAB!Spec /\ StreamBA!Spec

(* "an orderly close never truncates the stream" (tests/close.rs): when a  *)
(* SHUTDOWN arrives from a peer that drained its send side and shed        *)
(* nothing, and no late gap was skipped here, every message has been       *)
(* raised to the application, the ones TSBPD was still holding included.   *)
OrderlyClose ==
    [][\A p \in Ends :
          /\ RecvShutdown(p)
          /\ Drained(conn[Peer(p)])
          /\ conn[Peer(p)].shed = {}
          /\ ~ conn[p].skipped
          => conn'[p].delivered = sent[Peer(p)]]_vars
-----------------------------------------------------------------------------
(* Liveness.                                                               *)

(* The receiver keeps catching up: it delivers, or gives up on as late,    *)
(* every packet the application sent, as long as the network stops losing  *)
(* and the sender sheds nothing (MayShed).  The pacer, the NAKs, the       *)
(* timing gate and the EXP timer together never forget one.                *)
EveryPacketArrives ==
    \A p \in Ends :
       []<>(OffsetFrom(conn[Peer(p)].recv_buffer.base, ISN) = PacketsSent(p))
-----------------------------------------------------------------------------
(* What comments in the code say and the code does not do.                 *)

(* arq.rs, on_ack_timer: "An availability change re-ACKs even with no new  *)
(* data: a sender blocked on our advertised window has no other way to     *)
(* learn it reopened."                                                     *)
WindowReopens ==
    \A p \in Ends :
       conn[p].peer_avail_window = 0 ~> conn[p].peer_avail_window > 0

(* arq.rs, insert_data: "a compliant sender stopped when we advertised     *)
(* zero, so anything arriving against a full receive side is a peer        *)
(* ignoring the window".                                                   *)
CompliantNeverOverflows == \A p \in Ends : ~ conn[p].overflowed

(* connection.rs, finish_close_if_drained: "Called after every event that  *)
(* can empty the send buffer (an ACK) or the send queue (pacing)."         *)
ClosingHasDataLeft ==
    \A p \in Ends : IsConnected(conn[p]) /\ conn[p].closing => ~ Drained(conn[p])
=============================================================================
