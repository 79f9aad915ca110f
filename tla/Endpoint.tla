------------------------------ MODULE Endpoint ------------------------------
(***************************************************************************)
(* Connection setup and demultiplexing: callers (connection/setup.rs and   *)
(* the handshake part of connection.rs), the listener (listener.rs) and    *)
(* the endpoint driver that owns the listening socket (srt/src/driver.rs,  *)
(* drive_endpoint), over a network that loses, duplicates and reorders.    *)
(*                                                                         *)
(* An attempt is one call of connect().  The socket id, the initial        *)
(* sequence number, the session key and the Stream ID it draws are all     *)
(* represented by the attempt itself.  An accepted connection is           *)
(* represented by the socket id minted for it, its place in `acceptor`.    *)
(*                                                                         *)
(* The channels between the demux loop and a connection's driver, and      *)
(* between a ConnRequest and the demux loop, only delay: what happens at   *)
(* their far end is part of the action that reads them, and their delay is *)
(* the network's or the application's.                                     *)
(***************************************************************************)
EXTENDS Integers, Sequences, FiniteSets

CONSTANTS Attempts,            \* the calls of connect()
          Addresses,           \* socket addresses
          SourceAddr,          \* the address each attempt binds
          NatAddresses,        \* the addresses a NAT may move each attempt to
          MILLI,               \* the units of time in a millisecond
          Latency,             \* each attempt's config.latency, in units of time
          ListenerLatency,
          MaxMillis,           \* u16::MAX, the width of the latency field
          Passphrases,         \* those a caller may have, NoPassphrase perhaps one
          ListenerPassphrase,
          NoPassphrase,
          None,                \* no value
          AutoAccept,          \* whether the listener may accept for itself
          Backlog,             \* COMMAND_CAPACITY, of the incoming channel
          MayTimeOut,          \* the connect timeout may pass
          MayEnd,              \* callers may close, and abandon an attempt
          MayDrop,             \* the application may drop a request undecided
          MayExpire,           \* a parked conclusion may reach PENDING_TTL
          MaxMinute,           \* bound: minutes that pass
          MaxAccepted,         \* bound: connections accepted
          MaxEnds,             \* bound: accepted connections that end by themselves
          MaxHeld,             \* bound: requests the application holds undecided
          MaxInFlight,         \* bound: datagrams in flight when a caller sends one
          MaxMoves,            \* bound: times a NAT moves a caller
          MaxLoss, MaxDup      \* bounds: datagrams lost and duplicated

ASSUME EndpointAssumption ==
    /\ SourceAddr \in [Attempts -> Addresses]
    /\ NatAddresses \in [Attempts -> SUBSET Addresses]
    /\ MILLI \in Nat \ {0}
    /\ Latency \in [Attempts -> Nat]
    /\ {ListenerLatency, MaxMillis, MaxMinute, MaxAccepted, MaxEnds, MaxHeld, MaxInFlight,
        MaxMoves, MaxLoss, MaxDup} \subseteq Nat
    /\ Backlog \in Nat \ {0}
    /\ AutoAccept \subseteq BOOLEAN
    /\ {MayTimeOut, MayEnd, MayDrop, MayExpire} \subseteq BOOLEAN

VARIABLES caller,       \* each attempt's connection, up to its handshake
          addr,         \* the address its datagrams now come from
          acceptor,     \* the accepted connections and their drivers, by socket id
          pending,      \* pending[x]: the conclusion parked for address x, or None
          stale,        \* the addresses parked for PENDING_TTL or longer
          minute,       \* the cookie quantum
          auto_accept,  \* made by SrtListener::bind(), not by bind_deferred()
          connections,  \* the demux map: socket id by address, or None
          by_id,        \* the demux map: address by socket id
          incoming,     \* the channel to the application: streams or requests
          held,         \* the requests the application has taken, undecided
          dropped,      \* history: the parked addresses whose request was dropped undecided
          to_listener,  \* datagrams in flight to the listening socket
          to_caller,    \* datagrams in flight to callers
          lost, dups, moves

callers == <<caller, addr>>
listener == <<pending, stale, minute, auto_accept>>
demux == <<acceptor, connections, by_id>>
application == <<incoming, held, dropped>>
budget == <<lost, dups, moves>>
vars == <<callers, listener, demux, application, to_listener, to_caller, budget>>

Larger(m, n) == IF m > n THEN m ELSE n

\* Whole milliseconds, as many as the field holds.
MillisU16(latency) ==
    IF latency \div MILLI > MaxMillis THEN MaxMillis ELSE latency \div MILLI

\* The larger of our latency and the one the peer's handshake reports.
Negotiate(local_latency, hs) == Larger(local_latency, hs.latency * MILLI)

Induction(a) == [type |-> "Induction", attempt |-> a]
InductionResponse(cookie) == [type |-> "InductionResponse", cookie |-> cookie]
Conclusion(a, cookie, passphrase) ==
    [type |-> "Conclusion", attempt |-> a, cookie |-> cookie,
     latency |-> MillisU16(Latency[a]), km |-> passphrase]
ConclusionResponse(id, conclusion) ==
    [type |-> "ConclusionResponse", id |-> id, attempt |-> conclusion.attempt,
     latency |-> MillisU16(Negotiate(ListenerLatency, conclusion))]
Rejection(reason) == [type |-> "Rejection", reason |-> reason]

\* Whatever a connected caller sends: it carries the acceptor's socket id.
Traffic(id) == [type |-> "Traffic", dest |-> id]
Shutdown(id) == [type |-> "Shutdown", dest |-> id]

\* Where a datagram is going.  A handshake is addressed to socket id 0.
DestSocketId(m) == IF m.type \in {"Traffic", "Shutdown"} THEN m.dest ELSE 0

From(a, m) == [from |-> addr[a], msg |-> m]
To(x, m) == [to |-> x, msg |-> m]

NewCaller == [state |-> "Idle", last_handshake |-> None, timer |-> FALSE,
              peer |-> None, peer_isn |-> None, latency |-> None]

Init ==
    /\ caller = [a \in Attempts |-> NewCaller]
    /\ addr = SourceAddr
    /\ acceptor = <<>>
    /\ pending = [x \in Addresses |-> None]
    /\ stale = {}
    /\ minute = 0
    /\ auto_accept \in AutoAccept
    /\ connections = [x \in Addresses |-> None]
    /\ by_id = [id \in {} |-> None]
    /\ incoming = <<>>
    /\ held = <<>>
    /\ dropped = {}
    /\ to_listener = {}
    /\ to_caller = {}
    /\ lost = 0
    /\ dups = 0
    /\ moves = 0
-----------------------------------------------------------------------------
(* The caller.                                                             *)

Connecting(a) == caller[a].state \in {"Induction", "Conclusion"}
Bound(a) == Connecting(a) \/ caller[a].state = "Connected"

\* emit_handshake(): cached for retransmission, sent, the timer armed.
EmitHandshake(a, state, hs) ==
    /\ caller' = [caller EXCEPT ![a].state = state,
                                ![a].last_handshake = hs,
                                ![a].timer = TRUE]
    /\ to_listener' = to_listener \cup {From(a, hs)}

\* connect_from(): an address is bound by one socket at a time.
Connect(a) ==
    /\ caller[a].state = "Idle"
    /\ \A b \in Attempts : Bound(b) => addr[b] # addr[a]
    /\ EmitHandshake(a, "Induction", Induction(a))
    /\ UNCHANGED <<addr, listener, demux, application, to_caller, budget>>

OnRejection(a) ==
    /\ Connecting(a)
    /\ caller' = [caller EXCEPT ![a].state = "Rejected", ![a].timer = FALSE]
    /\ UNCHANGED to_listener

\* An attempt makes one conclusion, and this is the first use of its passphrase.
OnInductionResponse(a, hs) ==
    /\ caller[a].state = "Induction"
    /\ hs.type = "InductionResponse"
    /\ \E passphrase \in Passphrases :
          EmitHandshake(a, "Conclusion", Conclusion(a, hs.cookie, passphrase))

\* Mutant: settles for its own latency.
OnConclusionResponseOwnLatency(a, hs) ==
    /\ caller[a].state = "Conclusion"
    /\ hs.type = "ConclusionResponse"
    /\ caller' = [caller EXCEPT ![a].state = "Connected", ![a].timer = FALSE,
                                ![a].peer = hs.id, ![a].peer_isn = hs.attempt,
                                ![a].latency = Latency[a]]
    /\ UNCHANGED to_listener

OnConclusionResponse(a, hs) ==
    /\ caller[a].state = "Conclusion"
    /\ hs.type = "ConclusionResponse"
    /\ caller' = [caller EXCEPT ![a].state = "Connected", ![a].timer = FALSE,
                                ![a].peer = hs.id, ![a].peer_isn = hs.attempt,
                                ![a].latency = Negotiate(Latency[a], hs)]
    /\ UNCHANGED to_listener

\* feed_recv_buf() before the connection is up.  It looks at neither the
\* destination socket id nor the initial sequence number of the response.
CallerReceives(a) ==
    \E d \in to_caller :
       /\ Bound(a)
       /\ d.to = addr[a]
       /\ to_caller' = to_caller \ {d}
       /\ \/ d.msg.type = "Rejection" /\ OnRejection(a)
          \/ OnInductionResponse(a, d.msg)
          \/ OnConclusionResponse(a, d.msg)
          \/ /\ ~ Connecting(a) \/ d.msg.type \notin {"Rejection",
                   IF caller[a].state = "Induction" THEN "InductionResponse"
                                                    ELSE "ConclusionResponse"}
             /\ UNCHANGED <<caller, to_listener>>
       /\ UNCHANGED <<addr, listener, demux, application, budget>>

\* Mutant: resends without re-arming.
HandshakeTimerOnce(a) ==
    /\ caller[a].timer /\ Connecting(a)
    /\ Cardinality(to_listener) < MaxInFlight
    /\ to_listener' = to_listener \cup {From(a, caller[a].last_handshake)}
    /\ caller' = [caller EXCEPT ![a].timer = FALSE]
    /\ UNCHANGED <<addr, listener, demux, application, to_caller, budget>>

\* on_handshake_timer(): resend and re-arm.
HandshakeTimer(a) ==
    /\ caller[a].timer /\ Connecting(a)
    /\ Cardinality(to_listener) < MaxInFlight
    /\ to_listener' = to_listener \cup {From(a, caller[a].last_handshake)}
    /\ UNCHANGED <<callers, listener, demux, application, to_caller, budget>>

\* on_handshake_timer() once connect_timeout has passed.
ConnectTimeout(a) ==
    /\ MayTimeOut
    /\ caller[a].timer /\ Connecting(a)
    /\ caller' = [caller EXCEPT ![a].state = "TimedOut", ![a].timer = FALSE]
    /\ UNCHANGED <<addr, listener, demux, application, to_listener, to_caller, budget>>

\* A connected caller sends data, ACKs or keepalives.
CallerSends(a) ==
    /\ caller[a].state = "Connected"
    /\ Cardinality(to_listener) < MaxInFlight
    /\ to_listener' = to_listener \cup {From(a, Traffic(caller[a].peer))}
    /\ UNCHANGED <<callers, listener, demux, application, to_caller, budget>>

\* It closes, with a SHUTDOWN, or its process dies without one.
CallerEnds(a) ==
    /\ MayEnd
    /\ caller[a].state = "Connected"
    /\ caller' = [caller EXCEPT ![a].state = "Ended"]
    /\ \E last \in {{}, {From(a, Shutdown(caller[a].peer))}} :
          to_listener' = to_listener \cup last
    /\ UNCHANGED <<addr, listener, demux, application, to_caller, budget>>

\* close() before the handshake has completed, because connect() was abandoned:
\* the listener is told nothing.
CallerCancels(a) ==
    /\ MayEnd
    /\ Connecting(a)
    /\ caller' = [caller EXCEPT ![a].state = "Ended", ![a].timer = FALSE]
    /\ UNCHANGED <<addr, listener, demux, application, to_listener, to_caller, budget>>

\* A NAT moves the flow of a caller, at any time, to an address that no other flow
\* has now; one that this caller or another had before will do.
Rebind(a) ==
    \E x \in NatAddresses[a] :
       /\ moves < MaxMoves
       /\ moves' = moves + 1
       /\ Bound(a)
       /\ x # addr[a]
       /\ \A b \in Attempts : Bound(b) => addr[b] # x
       /\ addr' = [addr EXCEPT ![a] = x]
       /\ UNCHANGED <<caller, listener, demux, application, to_listener, to_caller,
                      lost, dups>>
-----------------------------------------------------------------------------
(* The listener and the endpoint driver.                                   *)

\* Mutant: a cookie dies with the minute it was made in.
CookieValidThisMinute(cookie, from) == cookie = <<from, minute>>

CookieValid(cookie, from) ==
    cookie \in {<<from, q>> : q \in {minute, minute - 1} \cap Nat}

\* accept_crypto(): a caller that encrypts exactly when we do not is unsecured,
\* and one with another passphrase has a key we cannot unwrap.
RejectReason(conclusion) ==
    IF conclusion.km = ListenerPassphrase THEN None
    ELSE IF NoPassphrase \in {conclusion.km, ListenerPassphrase} THEN "Unsecure"
    ELSE "BadSecret"

Respond(x, m) == to_caller' = to_caller \cup {To(x, m)}

\* Connection::accept(): the acceptor adopts the caller's sequence number and key
\* and is connected from the start.
Accept(x, conclusion, stream_id) ==
    [conclusion |-> conclusion, running |-> TRUE, peer |-> x, stream_id |-> stream_id,
     latency |-> Negotiate(ListenerLatency, conclusion)]

\* spawn_accepted(): accept_pending() mints the next socket id and answers, the
\* entries of drivers that have ended are swept, and both maps learn the new one.
SpawnAccepted(x, conclusion, stream_id) ==
    LET id == Len(acceptor) + 1
        swept == {y \in DOMAIN by_id : acceptor[y].running}
    IN  /\ id <= MaxAccepted
        /\ acceptor' = Append(acceptor, Accept(x, conclusion, stream_id))
        /\ connections' = [y \in Addresses |->
                             IF y = x THEN id
                             ELSE IF connections[y] # None /\ ~ acceptor[connections[y]].running
                             THEN None ELSE connections[y]]
        /\ by_id' = [y \in swept \cup {id} |-> IF y = id THEN x ELSE by_id[y]]
        /\ Respond(x, ConclusionResponse(id, conclusion))

\* What reaches a connection's driver: the acceptor re-answers a conclusion, and
\* ends on a SHUTDOWN.
Forward(id, acceptors, m) ==
    /\ acceptor' = IF m.type = "Shutdown" THEN [acceptors EXCEPT ![id].running = FALSE]
                   ELSE acceptors
    /\ IF m.type = "Conclusion"
       THEN Respond(acceptors[id].peer, ConclusionResponse(id, acceptors[id].conclusion))
       ELSE UNCHANGED to_caller

\* A datagram from a known address goes to the connection there.
FromKnown(x, m) ==
    /\ connections[x] # None
    /\ IF acceptor[connections[x]].running
       THEN /\ Forward(connections[x], acceptor, m)
            /\ UNCHANGED connections
       ELSE /\ connections' = [connections EXCEPT ![x] = None]
            /\ UNCHANGED <<acceptor, to_caller>>
    /\ UNCHANGED <<listener, by_id, application>>

\* Mutants: the driver keeps sending to the old address; the old address keeps
\* its entry.
FromReboundUnpinned(x, m) ==
    LET id == DestSocketId(m)
    IN  /\ connections[x] = None /\ id \in DOMAIN by_id
        /\ acceptor[id].running
        /\ connections' = [connections EXCEPT ![by_id[id]] = None, ![x] = id]
        /\ by_id' = [by_id EXCEPT ![id] = x]
        /\ Forward(id, acceptor, m)
        /\ UNCHANGED <<listener, application>>
FromReboundBoth(x, m) ==
    LET id == DestSocketId(m)
    IN  /\ connections[x] = None /\ id \in DOMAIN by_id
        /\ acceptor[id].running
        /\ connections' = [connections EXCEPT ![x] = id]
        /\ by_id' = [by_id EXCEPT ![id] = x]
        /\ Forward(id, [acceptor EXCEPT ![id].peer = x], m)
        /\ UNCHANGED <<listener, application>>

\* One from an unknown address that names a connection re-pins it there.
FromRebound(x, m) ==
    LET id == DestSocketId(m)
        moved == [connections EXCEPT ![by_id[id]] = None]
    IN  /\ connections[x] = None /\ id \in DOMAIN by_id
        /\ IF acceptor[id].running
           THEN /\ connections' = [moved EXCEPT ![x] = id]
                /\ by_id' = [by_id EXCEPT ![id] = x]
                /\ Forward(id, [acceptor EXCEPT ![id].peer = x], m)
           ELSE /\ connections' = moved
                /\ by_id' = [y \in DOMAIN by_id \ {id} |-> by_id[y]]
                /\ UNCHANGED <<acceptor, to_caller>>
        /\ UNCHANGED <<listener, application>>

\* Anything else is for the listener, which first expires what it has parked.
Unknown(x, m) == connections[x] = None /\ DestSocketId(m) \notin DOMAIN by_id
Unexpired == [x \in Addresses |-> IF x \in stale THEN None ELSE pending[x]]

OnInduction(x, m) ==
    /\ Unknown(x, m)
    /\ m.type = "Induction"
    /\ Respond(x, InductionResponse(<<x, minute>>))
    /\ pending' = Unexpired /\ stale' = {}
    /\ UNCHANGED <<minute, auto_accept, demux, application>>

\* A conclusion without a valid cookie, and what is no handshake, is dropped.
OnDropped(x, m) ==
    /\ Unknown(x, m)
    /\ m.type # "Induction"
    /\ m.type = "Conclusion" => ~ CookieValid(m.cookie, x)
    /\ pending' = Unexpired /\ stale' = {}
    /\ UNCHANGED <<minute, auto_accept, demux, application, to_caller>>

OnDoomedConclusion(x, m) ==
    /\ Unknown(x, m)
    /\ m.type = "Conclusion" /\ CookieValid(m.cookie, x)
    /\ RejectReason(m) # None
    /\ Respond(x, Rejection(RejectReason(m)))
    /\ pending' = Unexpired /\ stale' = {}
    /\ UNCHANGED <<minute, auto_accept, demux, application>>

\* Mutant: parks the conclusion although the backlog has no room to surface it.
ParkConclusionUnsurfaced(x, m) ==
    /\ Unknown(x, m)
    /\ m.type = "Conclusion" /\ CookieValid(m.cookie, x)
    /\ RejectReason(m) = None
    /\ pending' = [Unexpired EXCEPT ![x] = m]
    /\ incoming' = IF Len(incoming) = Backlog \/ Unexpired[x] # None THEN incoming
                   ELSE Append(incoming, [addr |-> x, stream_id |-> m.attempt])
    /\ stale' = {}
    /\ UNCHANGED <<minute, auto_accept, demux, held, dropped, to_caller>>

\* Mutant: a retransmission overwrites whatever is parked, for any address.
ParkConclusionAnywhere(x, m) ==
    /\ Unknown(x, m)
    /\ m.type = "Conclusion" /\ CookieValid(m.cookie, x)
    /\ RejectReason(m) = None
    /\ pending' = [y \in Addresses |-> IF y = x \/ Unexpired[y] # None THEN m ELSE None]
    /\ incoming' = IF Len(incoming) = Backlog \/ Unexpired[x] # None THEN incoming
                   ELSE Append(incoming, [addr |-> x, stream_id |-> m.attempt])
    /\ stale' = {}
    /\ UNCHANGED <<minute, auto_accept, demux, held, dropped, to_caller>>

\* surface_requests() for a new conclusion: a full backlog rejects it, and
\* otherwise it is accepted at once or surfaced as a request.
SurfaceRequest(x, m) ==
    \/ /\ Len(incoming) = Backlog
       /\ Respond(x, Rejection("Backlog"))
       /\ pending' = Unexpired
       /\ UNCHANGED <<demux, incoming, dropped>>
    \/ /\ Len(incoming) < Backlog
       /\ dropped' = dropped \ {x}
       /\ incoming' = Append(incoming, [addr |-> x, stream_id |-> m.attempt])
       /\ IF auto_accept
          THEN SpawnAccepted(x, m, m.attempt) /\ pending' = Unexpired
          ELSE pending' = [Unexpired EXCEPT ![x] = m] /\ UNCHANGED <<demux, to_caller>>

\* park_conclusion(): a retransmission refreshes what is parked.
ParkConclusion(x, m) ==
    /\ Unknown(x, m)
    /\ m.type = "Conclusion" /\ CookieValid(m.cookie, x)
    /\ RejectReason(m) = None
    /\ \/ /\ Unexpired[x] # None
          /\ pending' = [Unexpired EXCEPT ![x] = m]
          /\ UNCHANGED <<demux, incoming, dropped, to_caller>>
       \/ Unexpired[x] = None /\ SurfaceRequest(x, m)
    /\ stale' = {}
    /\ UNCHANGED <<minute, auto_accept, held>>

\* One turn of drive_endpoint() on a datagram, or on a copy of one.
EndpointReceives(d) ==
    /\ d \in to_listener
    /\ \/ to_listener' = to_listener \ {d} /\ UNCHANGED dups
       \/ dups < MaxDup /\ dups' = dups + 1 /\ UNCHANGED to_listener
    /\ \/ FromKnown(d.from, d.msg)
       \/ FromRebound(d.from, d.msg)
       \/ OnInduction(d.from, d.msg)
       \/ OnDropped(d.from, d.msg)
       \/ OnDoomedConclusion(d.from, d.msg)
       \/ ParkConclusion(d.from, d.msg)
    /\ UNCHANGED <<callers, lost, moves>>
-----------------------------------------------------------------------------
(* The application behind the listener, the drivers, time and the network. *)

\* SrtListener::accept() or incoming().
TakeIncoming ==
    /\ incoming # <<>> /\ Len(held) < MaxHeld
    /\ incoming' = Tail(incoming)
    /\ held' = IF auto_accept THEN held ELSE Append(held, Head(incoming))
    /\ UNCHANGED <<callers, listener, demux, dropped, to_listener, to_caller, budget>>

\* What accept_pending() and reject_pending() do to what is parked.
Unpark(x) ==
    /\ pending' = [pending EXCEPT ![x] = None]
    /\ stale' = stale \ {x}
    /\ dropped' = dropped \ {x}

\* The sequence without its i-th element.
LeaveOut(s, i) == SubSeq(s, 1, i - 1) \o SubSeq(s, i + 1, Len(s))

\* apply_decision(), accepting: whatever is parked for that address now.  The
\* stream takes its Stream ID from the request.
AcceptRequest(i) ==
    LET x == held[i].addr
    IN  /\ IF pending[x] = None THEN UNCHANGED <<pending, stale, dropped, demux, to_caller>>
           ELSE /\ SpawnAccepted(x, pending[x], held[i].stream_id)
                /\ Unpark(x)
        /\ held' = LeaveOut(held, i)
        /\ UNCHANGED <<callers, minute, auto_accept, incoming, to_listener, budget>>

\* apply_decision(), rejecting.
RejectRequest(i) ==
    LET x == held[i].addr
    IN  /\ IF pending[x] = None THEN UNCHANGED <<pending, stale, dropped, to_caller>>
           ELSE /\ Respond(x, Rejection("Application"))
                /\ Unpark(x)
        /\ held' = LeaveOut(held, i)
        /\ UNCHANGED <<callers, minute, auto_accept, demux, incoming, to_listener, budget>>

DropRequest(i) ==
    /\ MayDrop
    /\ dropped' = dropped \cup {x \in {held[i].addr} : pending[x] # None}
    /\ held' = LeaveOut(held, i)
    /\ UNCHANGED <<callers, listener, demux, incoming, to_listener, to_caller, budget>>

\* A driver leaves its loop: the peer has been idle, or the application closed.
AcceptorEnds(id) ==
    /\ Cardinality({i \in 1 .. Len(acceptor) : ~ acceptor[i].running}) < MaxEnds
    /\ acceptor[id].running
    /\ acceptor' = [acceptor EXCEPT ![id].running = FALSE]
    /\ UNCHANGED <<callers, listener, connections, by_id, application,
                   to_listener, to_caller, budget>>

PendingAges(x) ==
    /\ MayExpire
    /\ pending[x] # None
    /\ stale' = stale \cup {x}
    /\ UNCHANGED <<callers, pending, minute, auto_accept, demux, application, to_listener,
                   to_caller, budget>>

MinutePasses ==
    /\ minute < MaxMinute
    /\ minute' = minute + 1
    /\ UNCHANGED <<callers, pending, stale, auto_accept, demux, application, to_listener,
                   to_caller, budget>>

Lose ==
    /\ lost < MaxLoss
    /\ lost' = lost + 1
    /\ \/ \E d \in to_listener : to_listener' = to_listener \ {d} /\ UNCHANGED to_caller
       \/ \E d \in to_caller : to_caller' = to_caller \ {d} /\ UNCHANGED to_listener
    /\ UNCHANGED <<callers, listener, demux, application, dups, moves>>
-----------------------------------------------------------------------------
Caller(a) ==
    \/ Connect(a)
    \/ CallerReceives(a)
    \/ HandshakeTimer(a)
    \/ ConnectTimeout(a)
    \/ CallerSends(a)
    \/ CallerEnds(a)
    \/ CallerCancels(a)
    \/ Rebind(a)

App ==
    \/ TakeIncoming
    \/ \E i \in 1 .. Len(held) : AcceptRequest(i) \/ RejectRequest(i) \/ DropRequest(i)

Next ==
    \/ \E a \in Attempts : Caller(a)
    \/ \E d \in to_listener : EndpointReceives(d)
    \/ App
    \/ \E id \in 1 .. Len(acceptor) : AcceptorEnds(id)
    \/ \E x \in Addresses : PendingAges(x)
    \/ MinutePasses
    \/ Lose

Spec == Init /\ [][Next]_vars

\* Timers fire, datagrams that are not lost arrive, a connected caller keeps
\* sending, and the application takes and decides its requests.  Nobody has to
\* connect or end, and neither the NAT nor the network has to misbehave.  The two
\* actions that wait for MaxInFlight, which no network has, are strongly fair.
HandshakeOf(a) ==
    \E d \in to_listener :
       d.msg.type \in {"Induction", "Conclusion"} /\ d.msg.attempt = a /\ EndpointReceives(d)
TrafficOf(a) ==
    \E d \in to_listener : d.msg = Traffic(caller[a].peer) /\ EndpointReceives(d)

Fairness ==
    /\ \A a \in Attempts :
          /\ WF_vars(CallerReceives(a))
          /\ SF_vars(HandshakeTimer(a))
          /\ WF_vars(ConnectTimeout(a))
          /\ SF_vars(CallerSends(a))
          /\ WF_vars(HandshakeOf(a))
          /\ WF_vars(TrafficOf(a))
    /\ WF_vars(App)

FairSpec == Spec /\ Fairness
-----------------------------------------------------------------------------
(* Type correctness.                                                       *)
Cookie == Addresses \X (0 .. MaxMinute)
ConclusionMessage ==
    {Conclusion(a, cookie, passphrase) :
        a \in Attempts, cookie \in Cookie, passphrase \in Passphrases}
HandshakeMessage == {Induction(a) : a \in Attempts} \cup ConclusionMessage
Id == 1 .. MaxAccepted

\* Option::None is no socket id, no number and no conclusion.
ASSUME NoneAssumption == None \notin Nat /\ None \notin ConclusionMessage

Request == [addr : Addresses, stream_id : Attempts]

TypeOK ==
    /\ caller \in [Attempts -> [state : {"Idle", "Induction", "Conclusion", "Connected",
                                         "Rejected", "TimedOut", "Ended"},
                                last_handshake : HandshakeMessage \cup {None},
                                timer : BOOLEAN,
                                peer : Id \cup {None},
                                peer_isn : Attempts \cup {None},
                                latency : Nat \cup {None}]]
    /\ \A a \in Attempts : caller[a].timer = Connecting(a)
    /\ addr \in [Attempts -> Addresses]
    /\ acceptor \in Seq([conclusion : ConclusionMessage, running : BOOLEAN,
                         peer : Addresses, stream_id : Attempts, latency : Nat])
    /\ pending \in [Addresses -> ConclusionMessage \cup {None}]
    /\ stale \subseteq {x \in Addresses : pending[x] # None}
    /\ minute \in 0 .. MaxMinute
    /\ auto_accept \in BOOLEAN
    /\ connections \in [Addresses -> Id \cup {None}]
    /\ by_id \in UNION {[ids -> Addresses] : ids \in SUBSET Id}
    /\ incoming \in Seq(Request) /\ Len(incoming) <= Backlog
    /\ held \in Seq(Request)
    /\ dropped \subseteq Addresses
    /\ lost \in 0 .. MaxLoss /\ dups \in 0 .. MaxDup /\ moves \in 0 .. MaxMoves
-----------------------------------------------------------------------------
(* Safety.                                                                 *)

(* connection.rs, State::Connected: "The handshake completed; the          *)
(* connection is usable."  A connected caller has at the other end an      *)
(* acceptor made from its own conclusion, so that both number from the     *)
(* same sequence number and hold the same key.  Responses are re-sent,     *)
(* conclusions are retransmitted, parked, refreshed and accepted late, and *)
(* the caller checks nothing in a response but its kind.                   *)
ConnectedIsUsable ==
    \A a \in Attempts :
       caller[a].state = "Connected" =>
          /\ caller[a].peer_isn = a
          /\ acceptor[caller[a].peer].conclusion.attempt = a

(* config.rs, Negotiated: "The agreed TSBPD latency (the larger of the two *)
(* advertised delays)".  Each end computes it apart, from its own latency, *)
(* to the fraction of a millisecond and however large, and the other's     *)
(* report, cut to whole milliseconds and to the width of its field.  They  *)
(* need not come out equal: both use at least the larger advertised delay, *)
(* and when both configured latencies fit the field, less than one         *)
(* millisecond more.                                                       *)
LatencyAgreed ==
    \A a \in Attempts :
       caller[a].state = "Connected" =>
          LET advertised == MILLI * Larger(MillisU16(Latency[a]), MillisU16(ListenerLatency))
              used == {caller[a].latency, acceptor[caller[a].peer].latency}
          IN  /\ \A latency \in used : latency >= advertised
              /\ Larger(Latency[a], ListenerLatency) < MILLI * (MaxMillis + 1) =>
                    \A latency \in used : latency < advertised + MILLI

(* The demux maps never mislead: a connection whose driver runs can be     *)
(* found by its socket id, under the address its driver sends to, and no   *)
(* other address leads to it.  Accepts, sweeps, re-pins and evictions each *)
(* change one or two of these three, and two connections may come to share *)
(* an address.                                                             *)
DemuxConsistent ==
    \A id \in 1 .. Len(acceptor) :
       acceptor[id].running =>
          /\ id \in DOMAIN by_id
          /\ \A x \in Addresses : connections[x] = id => x = by_id[id]
          /\ acceptor[id].peer = by_id[id]

(* No caller is forgotten: a parked conclusion has a request on its way to *)
(* the application or undecided with it, unless the application dropped    *)
(* the last one surfaced.  park_conclusion() surfaces only the first       *)
(* conclusion from an address, and entries expire and return.              *)
ParkedIsSurfaced ==
    \A x \in Addresses :
       pending[x] # None =>
          \/ \E i \in 1 .. Len(incoming) : incoming[i].addr = x
          \/ \E i \in 1 .. Len(held) : held[i].addr = x
          \/ x \in dropped
-----------------------------------------------------------------------------
(* Liveness.                                                               *)

(* A caller that was moved after it got its cookie: it resends the same    *)
(* conclusion, and the cookie is not for the address it now comes from.    *)
Misplaced(a) ==
    /\ caller[a].state = "Conclusion"
    /\ caller[a].last_handshake.cookie[1] # addr[a]

(* A handshake completes or is rejected, however the network loses and     *)
(* repeats a bounded number of datagrams: the caller retransmits, and the  *)
(* listener or the acceptor answers again.  Only a NAT that moves the      *)
(* caller between its cookie and its answer leaves it to time out.         *)
HandshakeCompletes ==
    \A a \in Attempts : Connecting(a) ~> ~ Connecting(a) \/ Misplaced(a)

\* Another connection that runs has the address of the caller.
Shadowed(a) ==
    /\ connections[addr[a]] \notin {None, caller[a].peer}
    /\ acceptor[connections[addr[a]]].running

(* "re-pin that connection to the new address - inbound demux and the      *)
(* driver's outbound sends both follow" (driver.rs): once addresses stop   *)
(* changing the driver ends up sending to where its peer is, although      *)
(* datagrams from the old address arrive late and re-pin it back, unless   *)
(* the listener accepted another connection at that address.               *)
PinSettles ==
    \A a \in Attempts :
       <>[](/\ caller[a].state = "Connected"
            /\ acceptor[caller[a].peer].running
            => \/ acceptor[caller[a].peer].peer = addr[a]
               \/ Shadowed(a))
-----------------------------------------------------------------------------
(* What comments in the code say and the code does not do.                 *)

(* stream.rs, stream_id(): "what the caller advertised - on either end".   *)
StreamIdIsCallers ==
    \A id \in 1 .. Len(acceptor) :
       acceptor[id].stream_id = acceptor[id].conclusion.attempt

(* driver.rs, drive_endpoint(): "the (ip, port) tuple uniquely identifies  *)
(* a connection".                                                          *)
AddressIdentifies ==
    \A id \in 1 .. Len(acceptor) :
       acceptor[id].running => connections[by_id[id]] = id
=============================================================================
