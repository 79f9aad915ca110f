----------------------------- MODULE Connection -----------------------------
(***************************************************************************)
(* An established SRT connection (srt-protocol/src/connection.rs and       *)
(* connection/arq.rs) as a sans-I/O state machine: every operator takes    *)
(* the connection's record c, as the code's methods take &mut self, and    *)
(* returns the record after the call.                                      *)
(*                                                                         *)
(* Time is abstracted to the decisions the code takes from it: how many of *)
(* the oldest unacknowledged packets are past the send-side drop budget,   *)
(* how many buffered packets have reached their play time, and how many    *)
(* pacing slots have come.  Timestamps grow along the stream, so each is   *)
(* the length of a prefix.  A method that consults the clock returns the   *)
(* set of records it may leave, one for each decision.                     *)
(*                                                                         *)
(* A payload is a pair <<message, fragment>>.  The RTT, drift and rate     *)
(* estimators, ACKACK and KEEPALIVE only scale those decisions and are not *)
(* part of the record.  The timers field is the set of armed timers.       *)
(***************************************************************************)
EXTENDS RecvBuffer, SendBuffer

CONSTANTS FlowWindow,           \* config.flow_window
          LightAckEvery,        \* LIGHT_ACK_EVERY
          MaxReorderTolerance,  \* MAX_REORDER_TOLERANCE
          ReorderDecayAfter,    \* REORDER_DECAY_AFTER
          MaxPaceBurst,         \* MAX_PACE_BURST
          MayShed               \* the clock may run past the send-side drop budget

ASSUME ConnectionAssumption ==
    /\ {FlowWindow, LightAckEvery, ReorderDecayAfter, MaxPaceBurst} \subseteq Nat \ {0}
    /\ MaxReorderTolerance \in 0 .. THRESHOLD
    /\ MayShed \in BOOLEAN

None == -1  \* Option::None where the value is a number

Data(packet, retransmitted) ==
    [type |-> "Data", packet |-> packet, retransmitted |-> retransmitted]
FullAck(seq, avail) == [type |-> "Ack", seq |-> seq, avail |-> avail]
LightAck(seq) == [type |-> "LightAck", seq |-> seq]
Nak(loss) == [type |-> "Nak", loss |-> loss]
DropReq(first, last) == [type |-> "DropReq", first |-> first, last |-> last]
Shutdown == [type |-> "Shutdown"]

\* What clear_arq_timers() cancels: neither Linger nor Handshake.
ArqTimers == {"Ack", "Nak", "Exp", "Tsbpd", "SndPacing", "Keepalive", "PeerIdle"}

Arm(c, timer) == [c EXCEPT !.timers = @ \cup {timer}]
Disarm(c, timer) == [c EXCEPT !.timers = @ \ {timer}]
Emit(c, messages) == [c EXCEPT !.outputs = @ \cup messages]

\* The record enter_connected() leaves, with Event::Connected already polled.
\* Both ends number from the caller's initial sequence number.
NewConnection(isn, paced) ==
    [paced             |-> paced,  \* config.max_bw > 0
     state             |-> "Connected",
     closing           |-> FALSE,
     send_queue        |-> <<>>,
     send_buffer       |-> <<>>,
     next_send_seq     |-> isn,
     next_send         |-> FALSE,  \* is_some(): a pacing slot is scheduled
     peer_avail_window |-> FlowWindow,
     recv_buffer       |-> NewRecvBuffer(isn),
     fragments         |-> <<>>,
     next_seq          |-> None,
     reported_loss     |-> {},
     reorder_tolerance |-> 0,
     highest_recv_seq  |-> None,
     orderly_streak    |-> 0,
     packets_since_ack |-> 0,
     last_acked        |-> <<None, None>>,
     events            |-> <<>>,
     timers            |-> {"Ack", "Nak", "Keepalive", "PeerIdle"},
     outputs           |-> {},
     delivered         |-> <<>>,   \* every DataReceived event so far
     shed              |-> {},     \* what packets_dropped_sent has counted
     skipped           |-> FALSE,  \* packets_dropped > 0
     overflowed        |-> FALSE]  \* packets_dropped_full counted a packet not held

IsConnected(c) == c.state = "Connected"
-----------------------------------------------------------------------------
(* Closing.                                                                *)

FinalizeShutdown(c) ==
    [c EXCEPT !.outputs = @ \cup {Shutdown},
              !.timers  = @ \ (ArqTimers \cup {"Linger"}),
              !.closing = FALSE,
              !.state   = "Failed",
              !.events  = Append(@, "Closed")]

Drained(c) == c.send_buffer = <<>> /\ c.send_queue = <<>>

FinishCloseIfDrained(c) ==
    IF c.closing /\ Drained(c) THEN FinalizeShutdown(c) ELSE c

Close(c) ==
    IF c.closing \/ ~ IsConnected(c) THEN c
    ELSE IF Drained(c) THEN FinalizeShutdown(c)
    ELSE Arm([c EXCEPT !.closing = TRUE], "Linger")

OnLingerTimer(c) == IF c.closing THEN FinalizeShutdown(c) ELSE c

\* Dead peer: the idle window has passed without a packet.
OnPeerIdleTimer(c) ==
    IF IsConnected(c)
    THEN [c EXCEPT !.state  = "Failed",
                   !.timers = @ \ ArqTimers,
                   !.events = Append(@, "Failed")]
    ELSE c
-----------------------------------------------------------------------------
(* The sender.                                                             *)

\* The positions fragment_message() gives a message of n packets.
Position(i, n) ==
    IF n = 1 THEN "Single" ELSE IF i = 1 THEN "First" ELSE IF i = n THEN "Last" ELSE "Middle"

FragmentMessage(message, n) ==
    [i \in 1 .. n |-> [position |-> Position(i, n), payload |-> <<message, i>>]]

\* send_data() on each fragment in turn.
SendData(c, fragments) ==
    LET packet == [i \in 1 .. Len(fragments) |->
                     [seq      |-> SeqAdd(c.next_send_seq, i - 1),
                      position |-> fragments[i].position,
                      payload  |-> fragments[i].payload]]
    IN  [c EXCEPT
           !.send_buffer   = @ \o [i \in 1 .. Len(fragments) |-> Sent(packet[i])],
           !.next_send_seq = SeqAdd(@, Len(fragments)),
           !.outputs       = @ \cup {Data(packet[i], FALSE) : i \in 1 .. Len(fragments)},
           !.timers        = IF c.send_buffer = <<>> /\ fragments # <<>>
                             THEN @ \cup {"Exp"} ELSE @]

Smaller(m, n) == IF m < n THEN m ELSE n

\* The pacing slots that have come.  With none scheduled the first is now, and
\* the one after it a period later.
SlotsDue(c) == IF c.next_send THEN 0 .. MaxPaceBurst ELSE {1}

\* pace(): releases the head of the queue.  A slot that finds it empty resets
\* the schedule.
Pace(c) ==
    {IF sent.send_queue = <<>>
     THEN FinishCloseIfDrained(Disarm(sent, "SndPacing"))
     ELSE Arm(sent, "SndPacing") :
       sent \in {LET released == Smaller(slots, Len(c.send_queue))
                 IN  [SendData(c, SubSeq(c.send_queue, 1, released))
                        EXCEPT !.send_queue = SubSeq(@, released + 1, Len(@)),
                               !.next_send  = slots <= Len(c.send_queue)] :
                   slots \in SlotsDue(c)}}

CanSend(c) == IsConnected(c) /\ ~ c.closing

Send(c, message, n) ==
    IF c.paced
    THEN Pace([c EXCEPT !.send_queue = @ \o FragmentMessage(message, n)])
    ELSE {SendData(c, FragmentMessage(message, n))}

SendWindowAvailable(c) ==
    Len(c.send_queue) + Len(c.send_buffer) < Smaller(FlowWindow, c.peer_avail_window)

\* Mutant: leaves EXP armed when nothing is left to resend.
ShedKeepsExp(c, late) ==
    [c EXCEPT
       !.send_buffer = DropFront(@, late),
       !.outputs     = @ \cup {DropReq(c.send_buffer[1].packet.seq,
                                       c.send_buffer[late].packet.seq)},
       !.shed        = @ \cup {c.send_buffer[i].packet.seq : i \in 1 .. late}]

\* Sheds the oldest `late` packets and announces the range.
Shed(c, late) ==
    [c EXCEPT
       !.send_buffer = DropFront(@, late),
       !.outputs     = @ \cup {DropReq(c.send_buffer[1].packet.seq,
                                       c.send_buffer[late].packet.seq)},
       !.timers      = IF late = Len(c.send_buffer) THEN @ \ {"Exp"} ELSE @,
       !.shed        = @ \cup {c.send_buffer[i].packet.seq : i \in 1 .. late}]

DropTooLate(c) ==
    {c} \cup {Shed(c, late) : late \in 1 .. IF MayShed THEN Len(c.send_buffer) ELSE 0}

OnAck(c, ack) ==
    LET acked == [c EXCEPT !.send_buffer = AckSent(@, ack.seq),
                           !.peer_avail_window =
                               IF ack.type = "Ack" THEN ack.avail ELSE @]
    IN  {FinishCloseIfDrained(IF kept.send_buffer = <<>> THEN Disarm(kept, "Exp")
                              ELSE Arm(kept, "Exp")) : kept \in DropTooLate(acked)}

RetransmitRange(c, loss) ==
    Emit([c EXCEPT !.send_buffer = MarkRetransmitted(@, loss)],
         {Data(c.send_buffer[i].packet, TRUE) : i \in Resent(c.send_buffer, loss)})

OnNak(c, loss) == {RetransmitRange(kept, loss) : kept \in DropTooLate(c)}

\* Mutant: retransmits once and never again.
OnExpTimerOnce(c) ==
    IF ~ IsConnected(c) \/ c.send_buffer = <<>> THEN {c}
    ELSE {RetransmitRange(kept, SeqNumber) : kept \in DropTooLate(c)}

\* The timer has fired, so it is no longer armed when the handler runs.
OnExpTimer(c) ==
    IF ~ IsConnected(c) \/ c.send_buffer = <<>> THEN {c}
    ELSE {IF kept.send_buffer = <<>> THEN kept
          ELSE Arm(RetransmitRange(kept, SeqNumber), "Exp") : kept \in DropTooLate(c)}
-----------------------------------------------------------------------------
(* The receiver.                                                           *)

\* Mutant: counts only what TSBPD still holds.
AvailableRecvBufferUndelivered(c) ==
    FlowWindow - Smaller(FlowWindow, c.recv_buffer.received)

\* available_recv_buffer(): undelivered packets and unpolled events count.
AvailableRecvBuffer(c) ==
    FlowWindow - Smaller(FlowWindow, c.recv_buffer.received + Len(c.events))

\* Mutant: splices fragments across a gap.
PushSplices(r, p) ==
    CASE p.position = "Single" ->
            [fragments |-> <<>>, next_seq |-> None,
             messages  |-> Append(r.messages, <<p.payload>>)]
      [] p.position = "First" ->
            [r EXCEPT !.fragments = <<p.payload>>, !.next_seq = SeqNext(p.seq)]
      [] p.position = "Middle" ->
            [r EXCEPT !.fragments = Append(@, p.payload), !.next_seq = SeqNext(p.seq)]
      [] p.position = "Last" ->
            [fragments |-> <<>>, next_seq |-> None,
             messages  |-> Append(r.messages, Append(r.fragments, p.payload))]

\* Reassembler::push() on the state r = [fragments, next_seq, messages], where
\* messages collects the completed messages.
Push(r, p) ==
    CASE p.position = "Single" ->
            [fragments |-> <<>>, next_seq |-> None,
             messages  |-> Append(r.messages, <<p.payload>>)]
      [] p.position = "First" ->
            [r EXCEPT !.fragments = <<p.payload>>, !.next_seq = SeqNext(p.seq)]
      [] p.position \in {"Middle", "Last"} /\ r.next_seq # p.seq ->
            [r EXCEPT !.fragments = <<>>, !.next_seq = None]
      [] p.position = "Middle" /\ r.next_seq = p.seq ->
            [r EXCEPT !.fragments = Append(@, p.payload), !.next_seq = SeqNext(p.seq)]
      [] p.position = "Last" /\ r.next_seq = p.seq ->
            [fragments |-> <<>>, next_seq |-> None,
             messages  |-> Append(r.messages, Append(r.fragments, p.payload))]

\* One turn of the loop in deliver_tsbpd(): pop the earliest packet, note the gap
\* in front of it, reassemble.
PopAndPush(r) ==
    [buf |-> Pop(r.buf),
     asm |-> Push(r.asm, Popped(r.buf)),
     gap |-> r.gap \/ ~ CanPopInOrder(r.buf)]

\* n turns of it; what is complete is raised to the application.
Deliver(c, n) ==
    LET start == [buf |-> c.recv_buffer,
                  asm |-> [fragments |-> c.fragments, next_seq |-> c.next_seq,
                           messages |-> <<>>],
                  gap |-> FALSE]
        after[k \in 0 .. n] ==
            IF k = 0 THEN {start} ELSE {PopAndPush(r) : r \in after[k - 1]}
    IN  {[c EXCEPT !.recv_buffer = r.buf,
                   !.fragments   = r.asm.fragments,
                   !.next_seq    = r.asm.next_seq,
                   !.events      = @ \o [i \in 1 .. Len(r.asm.messages) |-> "Data"],
                   !.delivered   = @ \o r.asm.messages,
                   !.skipped     = @ \/ r.gap] : r \in after[n]}

\* deliver_tsbpd(): some of the buffered packets are at or past their play time.
DeliverTsbpd(c) ==
    {IF IsEmpty(played.recv_buffer) THEN Disarm(played, "Tsbpd")
     ELSE Arm(played, "Tsbpd") :
       played \in UNION {Deliver(c, due) : due \in 0 .. c.recv_buffer.received}}

TrackReorder(c, seq, retransmitted) ==
    LET offset == OffsetFrom(seq, c.highest_recv_seq)
        decays == c.orderly_streak + 1 >= ReorderDecayAfter
    IN  CASE retransmitted -> c
          [] ~ retransmitted /\ c.highest_recv_seq = None ->
                [c EXCEPT !.highest_recv_seq = seq]
          [] ~ retransmitted /\ c.highest_recv_seq # None /\ offset >= 0 ->
                [c EXCEPT !.highest_recv_seq  = seq,
                          !.orderly_streak    = IF decays THEN 0 ELSE @ + 1,
                          !.reorder_tolerance = IF decays /\ @ > 0 THEN @ - 1 ELSE @]
          [] ~ retransmitted /\ c.highest_recv_seq # None /\ offset < 0 ->
                [c EXCEPT !.orderly_streak    = 0,
                          !.reorder_tolerance =
                              IF @ > Smaller(-offset, MaxReorderTolerance) THEN @
                              ELSE Smaller(-offset, MaxReorderTolerance)]

\* Mutant: the count is not reset by the ACK it causes.
CountTowardsAckNoReset(c) ==
    IF c.packets_since_ack + 1 < LightAckEvery
    THEN [c EXCEPT !.packets_since_ack = @ + 1]
    ELSE Emit([c EXCEPT !.packets_since_ack = @ + 1],
              {LightAck(ReceivedAckPoint(c.recv_buffer))})

\* One more packet since the last ACK; every LIGHT_ACK_EVERY of them is answered.
CountTowardsAck(c) ==
    IF c.packets_since_ack + 1 < LightAckEvery
    THEN [c EXCEPT !.packets_since_ack = @ + 1]
    ELSE Emit([c EXCEPT !.packets_since_ack = 0],
              {LightAck(ReceivedAckPoint(c.recv_buffer))})

\* The end of insert_data(): report the gaps that have aged, once.
ReportLoss(c) ==
    LET missing == MissingAged(c.recv_buffer, c.reorder_tolerance)
    IN  IF ~ HasGaps(c.recv_buffer) THEN [c EXCEPT !.reported_loss = {}]
        ELSE IF missing = {} \/ missing = c.reported_loss THEN c
        ELSE Emit([c EXCEPT !.reported_loss = missing], {Nak(missing)})

\* on_data() and insert_data(), without FEC and without encryption.
OnData(c, packet, retransmitted) ==
    LET wanted == Accepts(c.recv_buffer, packet)
        stored == [TrackReorder(c, packet.seq, retransmitted)
                     EXCEPT !.recv_buffer = Insert(@, packet)]
    IN  IF AvailableRecvBuffer(c) = 0 THEN {[c EXCEPT !.overflowed = @ \/ wanted]}
        ELSE IF ~ wanted THEN {c}
        ELSE {ReportLoss(counted) :
                counted \in {CountTowardsAck(played) : played \in DeliverTsbpd(stored)}}

OnDropReq(c, first, last) ==
    LET buf == DropRange(c.recv_buffer, first, last)
    IN  DeliverTsbpd([c EXCEPT !.recv_buffer   = buf,
                               !.skipped       = @ \/ buf.base # c.recv_buffer.base,
                               !.reported_loss = Missing(buf)])

\* on_ack_timer(): a full ACK, if it says anything new.
OnAckTimer(c) ==
    LET ack == <<ReceivedAckPoint(c.recv_buffer), AvailableRecvBuffer(c)>>
    IN  IF ~ IsConnected(c) THEN c
        ELSE IF c.last_acked = ack THEN Arm(c, "Ack")
        ELSE Arm(Emit([c EXCEPT !.last_acked = ack, !.packets_since_ack = 0],
                      {FullAck(ack[1], ack[2])}), "Ack")

\* on_nak_timer() after an RTO without a NAK.
OnNakTimer(c) ==
    LET missing == MissingAged(c.recv_buffer, c.reorder_tolerance)
    IN  IF ~ IsConnected(c) THEN c
        ELSE IF missing = {} THEN Arm(c, "Nak")
        ELSE Arm(Emit(c, {Nak(missing)}), "Nak")

\* Mutant: tears down without flushing.
OnShutdownUnflushed(c) ==
    {[c EXCEPT !.state  = "Failed",
               !.timers = @ \ ArqTimers,
               !.events = Append(@, "Closed")]}

\* The SHUTDOWN arm of on_connected_packet(): flush what is in order, then fail.
OnShutdown(c) ==
    LET contiguous == OffsetFrom(ReceivedAckPoint(c.recv_buffer), c.recv_buffer.base)
    IN  {[flushed EXCEPT !.state  = "Failed",
                         !.timers = @ \ ArqTimers,
                         !.events = Append(@, "Closed")] :
           flushed \in Deliver(c, contiguous)}
-----------------------------------------------------------------------------
(* Timers.  A timer that has expired is off the table when its handler     *)
(* runs.                                                                   *)

\* handle_timer(), at a time when a packet did or did not come in since the last
\* PeerIdle deadline.  A KEEPALIVE is sent by on_keepalive_timer().
HandleTimer(c, timer, heard) ==
    CASE timer = "Ack"       -> {OnAckTimer(c)}
      [] timer = "Nak"       -> {OnNakTimer(c)}
      [] timer = "Exp"       -> OnExpTimer(c)
      [] timer = "Tsbpd"     -> DeliverTsbpd(c)
      [] timer = "SndPacing" -> Pace(c)
      [] timer = "Linger"    -> {OnLingerTimer(c)}
      [] timer = "Keepalive" -> {IF IsConnected(c) THEN Arm(c, "Keepalive") ELSE c}
      [] timer = "PeerIdle"  -> {IF heard /\ IsConnected(c) THEN Arm(c, "PeerIdle")
                                 ELSE OnPeerIdleTimer(c)}

\* The handlers of all the timers found due in one turn of the driver's loop, one
\* after another.  The table is a HashMap, so in any order; and a timer collected
\* as due fires even if an earlier handler has cleared it.
Fired(c, due, heard) ==
    LET after[s \in SUBSET due] ==
            IF s = {} THEN {c}
            ELSE UNION {UNION {HandleTimer(b, timer, heard) : b \in after[s \ {timer}]} :
                          timer \in s}
    IN  after[due]
=============================================================================
