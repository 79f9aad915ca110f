----------------------------- MODULE ConnDriver -----------------------------
(***************************************************************************)
(* The task that drives one established Connection (drive_connection() in  *)
(* srt/src/driver.rs) between its socket and the application's SrtStream,  *)
(* to which two bounded channels connect it.                               *)
(*                                                                         *)
(* A turn of its loop begins with the arm of the select! that was ready,   *)
(* then fires the timers found due, drains the core's outputs and its      *)
(* events, and goes back to sleep; only a batch of commands lets other     *)
(* threads in between.  The due timers are collected once, before any of   *)
(* their handlers runs, and SetTimer and ClearTimer requests reach the     *)
(* table only when the outputs are drained: a timer cleared in the same    *)
(* turn still fires.  So what is due leaves the table first, and           *)
(* conn.timers is the table as the pending requests will leave it.         *)
(*                                                                         *)
(* The core is that of module Connection, whole.  The peer is whatever may *)
(* send it acknowledgements, data in order, keepalives and a SHUTDOWN.     *)
(* Ack, Nak and Keepalive, which only send and re-arm themselves, are left *)
(* out of the timers.                                                      *)
(***************************************************************************)
EXTENDS Connection

CONSTANTS ISN,              \* the initial sequence number
          CommandCapacity,  \* COMMAND_CAPACITY
          DataCapacity,     \* DATA_CAPACITY
          MaxSends,         \* bound: messages the application sends
          MaxArrivals,      \* bound: data packets the peer sends
          MayFail,          \* the socket may report an error
          Paced,            \* config.max_bw > 0
          PeerReads         \* the peer's application keeps reading

ASSUME ConnDriverAssumption ==
    /\ ISN \in SeqNumber
    /\ {CommandCapacity, DataCapacity} \subseteq Nat \ {0}
    /\ {MaxSends, MaxArrivals} \subseteq 0 .. THRESHOLD
    /\ {MayFail, Paced, PeerReads} \subseteq BOOLEAN

VARIABLES conn,      \* the core
          pc,        \* where the loop is: "select", "batch" or "stopped"
          due,       \* in a batch, the timers that have expired
          commands,  \* the command channel
          data,      \* the data channel, of message numbers
          pending,   \* pending_data: the message the data channel had no room for
          closing,   \* the driver's own flag
          heard,     \* last_recv_any is later than the last PeerIdle deadline
          tx, rx,    \* the application still holds its send / its receive half
          app,       \* [accepted: sends queued, handed: sends given to the core,
                     \*  received: messages read, closed: close() called,
                     \*  asked: stats() called]
          shut,      \* the core took the peer's SHUTDOWN
          ended      \* [told: SHUTDOWN was sent, by: why the driver stopped]

loop == <<conn, pc, due, pending, closing, heard, shut, ended>>
vars == <<conn, pc, due, commands, data, pending, closing, heard, tx, rx, app, shut,
          ended>>

Init ==
    /\ conn = [NewConnection(ISN, Paced) EXCEPT !.timers = {"PeerIdle"}]
    /\ pc = "select"
    /\ due = {}
    /\ commands = <<>>
    /\ data = <<>>
    /\ pending = None
    /\ closing = FALSE
    /\ heard = FALSE
    /\ tx = TRUE /\ rx = TRUE
    /\ app = [accepted |-> 0, handed |-> 0, received |-> <<>>, closed |-> FALSE,
              asked |-> FALSE]
    /\ shut = FALSE
    /\ ended = [told |-> FALSE, by |-> "nothing"]
-----------------------------------------------------------------------------
(* SrtStream, SrtSendHalf and SrtRecvHalf.                                 *)

\* Mutant: an unbounded channel.
QueueUnbounded(command) ==
    /\ tx
    /\ pc # "stopped"
    /\ commands' = Append(commands, command)
    /\ UNCHANGED <<loop, data, tx, rx>>

Queue(command) ==
    /\ tx
    /\ pc # "stopped"
    /\ Len(commands) < CommandCapacity
    /\ commands' = Append(commands, command)
    /\ UNCHANGED <<loop, data, tx, rx>>

AppSend ==
    /\ app.accepted < MaxSends
    /\ Queue([op |-> "Send", message |-> app.accepted + 1])
    /\ app' = [app EXCEPT !.accepted = @ + 1]

AppStats ==
    /\ ~ app.asked
    /\ Queue([op |-> "Stats"])
    /\ app' = [app EXCEPT !.asked = TRUE]

AppClose ==
    /\ ~ app.closed
    /\ Queue([op |-> "Close"])
    /\ app' = [app EXCEPT !.closed = TRUE]

AppRecv ==
    /\ rx
    /\ data # <<>>
    /\ data' = Tail(data)
    /\ app' = [app EXCEPT !.received = Append(@, Head(data))]
    /\ UNCHANGED <<loop, commands, tx, rx>>

AppDropSend ==
    /\ tx
    /\ tx' = FALSE
    /\ UNCHANGED <<loop, commands, data, rx, app>>

AppDropRecv ==
    /\ rx
    /\ rx' = FALSE
    /\ data' = <<>>
    /\ UNCHANGED <<loop, commands, tx, app>>
-----------------------------------------------------------------------------
(* From the top of the loop to its select!.                                *)

\* The events in front of the one that ends the connection, if there is one.
Until(events) ==
    LET ends == {i \in 1 .. Len(events) : events[i] # "Data"}
    IN  IF ends = {} THEN Len(events)
        ELSE (CHOOSE i \in ends : \A j \in ends : i <= j) - 1

\* The numbers of the messages whose Data events have not been polled.
Unpolled(c) ==
    LET n == Len(SelectSeq(c.events, LAMBDA e : e = "Data"))
    IN  [i \in 1 .. n |-> c.delivered[Len(c.delivered) - n + i][1][1]]

Option(x) == IF x = None THEN <<>> ELSE <<x>>

\* Mutants: loses what finds the channel full; returns before an event that
\* follows others.
DrainEventsLossy(c, parked, channel) ==
    LET last    == Until(c.events)
        offered == Option(parked) \o SubSeq(Unpolled(c), 1, last)
        room    == IF rx THEN Smaller(DataCapacity - Len(channel), Len(offered))
                   ELSE Len(offered)
        full    == room < Len(offered)
        stops   == ~ full /\ last < Len(c.events)
        polled  == IF full THEN room + 1 - Len(Option(parked))
                   ELSE IF stops THEN last + 1 ELSE last
    IN  /\ data' = IF rx THEN channel \o SubSeq(offered, 1, room) ELSE channel
        /\ pending' = None
        /\ conn' = [c EXCEPT !.events  = SubSeq(@, polled + 1, Len(@)),
                             !.outputs = {}]
        /\ pc' = IF stops THEN "stopped" ELSE "select"
        /\ ended' = [ended EXCEPT !.told = @ \/ Shutdown \in c.outputs,
                                  !.by   = IF stops THEN c.events[last + 1] ELSE @]
DrainEventsOnce(c, parked, channel) ==
    LET last    == Until(c.events)
        offered == Option(parked) \o SubSeq(Unpolled(c), 1, last)
        room    == IF rx THEN Smaller(DataCapacity - Len(channel), Len(offered))
                   ELSE Len(offered)
        full    == room < Len(offered)
        stops   == ~ full /\ last = 0 /\ c.events # <<>>
        polled  == IF full THEN room + 1 - Len(Option(parked)) ELSE last
    IN  /\ data' = IF rx THEN channel \o SubSeq(offered, 1, room) ELSE channel
        /\ pending' = IF full THEN offered[room + 1] ELSE None
        /\ conn' = [c EXCEPT !.events  = SubSeq(@, polled + 1, Len(@)),
                             !.outputs = {}]
        /\ pc' = IF stops THEN "stopped" ELSE "select"
        /\ ended' = [ended EXCEPT !.told = @ \/ Shutdown \in c.outputs,
                                  !.by   = IF stops THEN c.events[last + 1] ELSE @]
\* drain_events(): offers the parked payload, then those of the events; parks the
\* first that finds the channel full and leaves the events behind it.
DrainEvents(c, parked, channel) ==
    LET last    == Until(c.events)
        offered == Option(parked) \o SubSeq(Unpolled(c), 1, last)
        room    == IF rx THEN Smaller(DataCapacity - Len(channel), Len(offered))
                   ELSE Len(offered)
        full    == room < Len(offered)
        stops   == ~ full /\ last < Len(c.events)
        polled  == IF full THEN room + 1 - Len(Option(parked))
                   ELSE IF stops THEN last + 1 ELSE last
    IN  /\ data' = IF rx THEN channel \o SubSeq(offered, 1, room) ELSE channel
        /\ pending' = IF full THEN offered[room + 1] ELSE None
        /\ conn' = [c EXCEPT !.events  = SubSeq(@, polled + 1, Len(@)),
                             !.outputs = {}]
        /\ pc' = IF stops THEN "stopped" ELSE "select"
        /\ ended' = [ended EXCEPT !.told = @ \/ Shutdown \in c.outputs,
                                  !.by   = IF stops THEN c.events[last + 1] ELSE @]

\* The driver gives up on the core c without another event.
Breaks(c) ==
    /\ pc' = "stopped"
    /\ conn' = c
    /\ ended' = [ended EXCEPT !.by = "Error"]

\* The rest of a turn, from the core c with the expired timers off its table.
\* The outputs are sent before the events are looked at; sending may fail.
EndTurn(c, expired, recent, parked, channel) ==
    /\ due' = {}
    /\ heard' = (recent /\ "PeerIdle" \notin expired)
    /\ \E fired \in Fired(c, expired, recent) :
          \/ DrainEvents(fired, parked, channel)
          \/ /\ MayFail /\ fired.outputs # {}
             /\ Breaks(fired)
             /\ data' = channel /\ pending' = parked
-----------------------------------------------------------------------------
(* The arms of the select!.                                                *)

Without(expired) == [conn EXCEPT !.timers = @ \ expired]

TimerWake(expired) ==
    /\ pc = "select"
    /\ EndTurn(Without(expired), expired, heard, pending, data)
    /\ UNCHANGED <<commands, closing, tx, rx, app, shut>>

\* What a datagram from the peer may make of the core: nothing (a KEEPALIVE), an
\* ACK of some of what is in flight, or the next data packet.
Fed(c) ==
    LET inFlight == Len(c.send_buffer)
        wanted   == ReceivedAckPoint(c.recv_buffer)
        arrived  == OffsetFrom(wanted, ISN)
    IN  {c}
          \cup UNION {OnAck(c, FullAck(SeqAdd(c.next_send_seq, k - inFlight), avail)) :
                        k \in 0 .. inFlight, avail \in {0, FlowWindow}}
          \cup IF arrived < MaxArrivals
               THEN OnData(c, [seq |-> wanted, position |-> "Single",
                               payload |-> <<arrived + 1, 1>>], FALSE)
               ELSE {}

\* A turn that starts with a datagram and the core it left, out of `results`.
Receives(expired, results) ==
    /\ pc = "select"
    /\ \E c \in results : EndTurn(c, expired, TRUE, pending, data)
    /\ UNCHANGED <<commands, closing, tx, rx, app, shut>>

RecvDatagram ==
    \E expired \in SUBSET conn.timers :
       LET c == Without(expired)
       IN  Receives(expired, IF IsConnected(c) THEN Fed(c) ELSE {c})

\* The peer's application has read everything, and the peer acknowledges all.
RecvCaughtUp ==
    /\ IsConnected(conn)
    /\ \E expired \in SUBSET conn.timers :
          Receives(expired, OnAck(Without(expired), FullAck(conn.next_send_seq, FlowWindow)))

RecvShutdown ==
    /\ pc = "select"
    /\ IsConnected(conn)
    /\ \E expired \in SUBSET conn.timers : \E c \in OnShutdown(Without(expired)) :
          EndTurn(c, expired, TRUE, pending, data)
    /\ shut' = TRUE
    /\ UNCHANGED <<commands, closing, tx, rx, app>>

\* The socket fails, or the endpoint's demux drops the channel.
RecvFails ==
    /\ MayFail
    /\ pc = "select"
    /\ Breaks(conn)
    /\ UNCHANGED <<due, commands, data, pending, closing, heard, tx, rx, app, shut>>

Reserve ==
    /\ pc = "select"
    /\ pending # None
    /\ rx => Len(data) < DataCapacity
    /\ \E expired \in SUBSET conn.timers :
          EndTurn(Without(expired), expired, heard, None,
                  IF rx THEN Append(data, pending) ELSE data)
    /\ UNCHANGED <<commands, closing, tx, rx, app, shut>>

\* What a command other than Close makes of the core.
Execute(c, command) ==
    IF command.op = "Send" /\ CanSend(c) THEN Send(c, command.message, 1) ELSE {c}


\* The head of the channel is taken, by recv() or by try_recv(): Close ends the
\* batch, and with it the turn.
TakeCommand(c, expired) ==
    LET command == Head(commands)
    IN  /\ commands' = Tail(commands)
        /\ app' = IF command.op = "Send" /\ CanSend(c)
                  THEN [app EXCEPT !.handed = @ + 1] ELSE app
        /\ closing' = (command.op = "Close")
        /\ IF command.op = "Close"
           THEN EndTurn(Close(c), expired, heard, pending, data)
           ELSE /\ conn' \in Execute(c, command)
                /\ due' = expired
                /\ pc' = "batch"
                /\ UNCHANGED <<data, pending, heard, ended>>
        /\ UNCHANGED <<tx, rx, shut>>

\* Commands are pulled only while the send window has room...
MayPull == pc = "select" /\ ~ closing /\ SendWindowAvailable(conn)

RecvCommand ==
    /\ MayPull
    /\ commands # <<>>
    /\ \E expired \in SUBSET conn.timers : TakeCommand(Without(expired), expired)


\* ... recv() returns None once the channel is empty and the handle is gone...
RecvHandleDropped ==
    /\ MayPull
    /\ commands = <<>>
    /\ ~ tx
    /\ closing' = TRUE
    /\ \E expired \in SUBSET conn.timers :
          EndTurn(Close(Without(expired)), expired, heard, pending, data)
    /\ UNCHANGED <<commands, tx, rx, app, shut>>

\* ... and the batch goes on until try_recv() finds the channel empty, without
\* another look at the window.
TryRecvCommand ==
    /\ pc = "batch"
    /\ commands # <<>>
    /\ TakeCommand(conn, due)

BatchEnds ==
    /\ pc = "batch"
    /\ commands = <<>>
    /\ EndTurn(conn, due, heard, pending, data)
    /\ UNCHANGED <<commands, closing, tx, rx, app, shut>>
-----------------------------------------------------------------------------
App == AppSend \/ AppStats \/ AppClose \/ AppRecv \/ AppDropSend \/ AppDropRecv

Driver ==
    \/ \E expired \in SUBSET conn.timers \ {{}} : TimerWake(expired)
    \/ RecvDatagram
    \/ RecvCaughtUp
    \/ RecvShutdown
    \/ RecvFails
    \/ Reserve
    \/ RecvCommand
    \/ RecvHandleDropped
    \/ TryRecvCommand
    \/ BatchEnds

Next == App \/ Driver

Spec == Init /\ [][Next]_vars

\* The task is scheduled; an armed timer expires and wakes it; select! picks among
\* its ready arms at random, so the command arm is taken if it is ready again and
\* again; the application reads.  A peer whose application reads acknowledges.
Fairness ==
    /\ WF_vars(TryRecvCommand)
    /\ WF_vars(BatchEnds)
    /\ \A timer \in {"Exp", "SndPacing", "Linger", "PeerIdle"} :
          WF_vars(timer \in conn.timers /\ TimerWake({timer}))
    /\ WF_vars(Reserve)
    /\ SF_vars(RecvCommand)
    /\ SF_vars(RecvHandleDropped)
    /\ WF_vars(AppRecv)
    /\ PeerReads => WF_vars(RecvCaughtUp)

FairSpec == Spec /\ Fairness
-----------------------------------------------------------------------------
(* Type correctness.                                                       *)
TypeOK ==
    /\ conn.state \in {"Connected", "Failed"}
    /\ conn.timers \subseteq ArqTimers \cup {"Linger"}
    /\ pc \in {"select", "batch", "stopped"}
    /\ due \subseteq ArqTimers \cup {"Linger"}
    /\ \A i \in 1 .. Len(commands) : commands[i].op \in {"Send", "Stats", "Close"}
    /\ Len(commands) <= CommandCapacity
    /\ Len(data) <= DataCapacity
    /\ pending \in {None} \cup 1 .. MaxArrivals
    /\ {closing, heard, tx, rx, shut, ended.told, app.closed} \subseteq BOOLEAN
    /\ ended.by \in {"nothing", "Closed", "Failed", "Error"}
-----------------------------------------------------------------------------
(* Safety.                                                                 *)

(* drain_events() keeps the stream in order across the parked payload: the *)
(* messages read, those in the data channel, the one parked and those      *)
(* still unpolled in the core are, in that order, exactly what the core    *)
(* delivered, however the application, the channel and the timers race.    *)
DeliveryInOrder ==
    rx => app.received \o data \o Option(pending) \o Unpolled(conn)
            = [i \in 1 .. Len(conn.delivered) |-> conn.delivered[i][1][1]]

(* The loop never sleeps on work of its own: when it waits in select!, no  *)
(* output is left in the core, an event left there has a parked payload    *)
(* before it, whose arm will wake the loop, and the timers the core counts *)
(* on are armed.                                                           *)
NoStrandedWork ==
    pc = "select" =>
       /\ conn.outputs = {}
       /\ conn.events # <<>> => pending # None
       /\ IsConnected(conn) =>
             /\ "PeerIdle" \in conn.timers
             /\ conn.send_buffer # <<>> => "Exp" \in conn.timers
             /\ conn.send_queue # <<>> => "SndPacing" \in conn.timers
             /\ ~ IsEmpty(conn.recv_buffer) => "Tsbpd" \in conn.timers
             /\ conn.closing => "Linger" \in conn.timers

-----------------------------------------------------------------------------
(* Liveness.                                                               *)


=============================================================================
