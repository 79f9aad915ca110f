--------------------------- MODULE EndpointProofs ---------------------------
(***************************************************************************)
(* Connection setup and demultiplexing are correct for every number of     *)
(* callers, addresses, connections, moves, losses and duplicates, and the  *)
(* handshakes are read as they were meant, whatever is in them.            *)
(***************************************************************************)
EXTENDS HandshakeWire, NaturalsInduction, WellFoundedInduction, TLAPS

USE Zenon

\* What is in flight.
NamingMessage == {Traffic(id) : id \in Id} \cup {Shutdown(id) : id \in Id}
Reasons == {"Unsecure", "BadSecret", "Backlog", "Application"}
AnswerMessage ==
    {InductionResponse(cookie) : cookie \in Cookie}
      \cup {ConclusionResponse(id, m) : id \in Id, m \in ConclusionMessage}
      \cup {Rejection(reason) : reason \in Reasons}

Established(a) == caller[a].state = "Connected"

CallerRecord ==
    [state : {"Idle", "Induction", "Conclusion", "Connected", "Rejected", "TimedOut",
              "Ended"},
     last_handshake : HandshakeMessage \cup {None},
     timer : BOOLEAN,
     peer : Id \cup {None},
     peer_isn : Attempts \cup {None},
     latency : Nat \cup {None}]

AcceptorRecord ==
    [conclusion : ConclusionMessage, running : BOOLEAN, peer : Addresses,
     stream_id : Attempts, latency : Nat]

(* The type invariant, made inductive, part by part.  A caller that is     *)
(* connecting has a handshake to resend, and one that is connected knows   *)
(* its peer...                                                             *)
CallersTyped ==
    /\ caller \in [Attempts -> CallerRecord]
    /\ \A a \in Attempts : caller[a].timer = Connecting(a)
    /\ \A a \in Attempts : Connecting(a) => caller[a].last_handshake \in HandshakeMessage
    /\ \A a \in Attempts : Established(a) => caller[a].peer \in Id
    /\ addr \in [Attempts -> Addresses]

(* ... the maps know only socket ids that were minted...                   *)
MapsTyped ==
    /\ acceptor \in Seq(AcceptorRecord)
    /\ Len(acceptor) <= MaxAccepted
    /\ connections \in [Addresses -> 1 .. Len(acceptor) \cup {None}]
    /\ by_id \in [DOMAIN by_id -> Addresses]
    /\ DOMAIN by_id \subseteq 1 .. Len(acceptor)

(* ... the listener parks nothing for an application that does not decide, *)
(* and only what is parked grows stale...                                  *)
ListenerTyped ==
    /\ pending \in [Addresses -> ConclusionMessage \cup {None}]
    /\ auto_accept \in BOOLEAN
    /\ auto_accept => \A x \in Addresses : pending[x] = None
    /\ stale \subseteq {x \in Addresses : pending[x] # None}
    /\ minute \in 0 .. MaxMinute

ApplicationTyped ==
    /\ incoming \in Seq(Request) /\ Len(incoming) <= Backlog
    /\ held \in Seq(Request)
    /\ dropped \subseteq Addresses

(* ... and so are the datagrams in flight.                                 *)
NetworkTyped ==
    /\ to_listener \subseteq [from : Addresses, msg : HandshakeMessage \cup NamingMessage]
    /\ to_caller \subseteq [to : Addresses, msg : AnswerMessage]
    /\ lost \in 0 .. MaxLoss /\ dups \in 0 .. MaxDup /\ moves \in 0 .. MaxMoves

TypeInv ==
    /\ CallersTyped
    /\ MapsTyped
    /\ ListenerTyped
    /\ ApplicationTyped
    /\ NetworkTyped
-----------------------------------------------------------------------------
\* An address that attempt a binds or that a NAT may move it to.
Owns(a, x) == x = SourceAddr[a] \/ x \in NatAddresses[a]

\* No two calls of connect() ever have the same address.
DistinctAddresses ==
    \A a, b \in Attempts : \A x \in Addresses : Owns(a, x) /\ Owns(b, x) => a = b

\* The attempt an accepted connection was made for.
AttemptOf(id) == acceptor[id].conclusion.attempt

(* Where everything comes from.  A caller has an address of its own, and   *)
(* resends a handshake of its own...                                       *)
CallersOrigin ==
    \A a \in Attempts :
       /\ Owns(a, addr[a])
       /\ Connecting(a) => caller[a].last_handshake.attempt = a

(* ... a handshake comes from an address of its attempt, and what names a  *)
(* connection from an address of the attempt it was made for...            *)
DatagramsOrigin ==
    \A d \in to_listener :
       /\ d.msg \in HandshakeMessage => Owns(d.msg.attempt, d.from)
       /\ d.msg \in NamingMessage =>
             /\ d.msg.dest \in 1 .. Len(acceptor)
             /\ Owns(AttemptOf(d.msg.dest), d.from)

(* ... a conclusion is parked under an address of its attempt...           *)
ParkedOrigin ==
    \A x \in Addresses : pending[x] # None => Owns(pending[x].attempt, x)

(* ... an accepted connection sends to an address of its attempt...        *)
AcceptorsOrigin ==
    \A id \in 1 .. Len(acceptor) :
       /\ Owns(AttemptOf(id), acceptor[id].peer)
       /\ acceptor[id].latency = Negotiate(ListenerLatency, acceptor[id].conclusion)

(* ... and so does every answer to a conclusion, which is the one that the *)
(* connection it names would give again...                                 *)
AnswersOrigin ==
    \A d \in to_caller :
       d.msg.type = "ConclusionResponse" =>
          /\ d.msg.id \in 1 .. Len(acceptor)
          /\ d.msg = ConclusionResponse(d.msg.id, acceptor[d.msg.id].conclusion)
          /\ Owns(AttemptOf(d.msg.id), d.to)

(* ... so that a caller that is connected has taken the answer of a        *)
(* connection made for it.                                                 *)
PeersOrigin ==
    \A a \in Attempts :
       Established(a) =>
          LET id == caller[a].peer
          IN  /\ id \in 1 .. Len(acceptor)
              /\ caller[a].peer_isn = a
              /\ AttemptOf(id) = a
              /\ caller[a].latency =
                    Negotiate(Latency[a], ConclusionResponse(id, acceptor[id].conclusion))

OriginInv ==
    /\ CallersOrigin
    /\ DatagramsOrigin
    /\ ParkedOrigin
    /\ AcceptorsOrigin
    /\ AnswersOrigin
    /\ PeersOrigin
-----------------------------------------------------------------------------
(* Sequences and records.                                                  *)

(* Two sequences one after the other.                                      *)
LEMMA Joined ==
    ASSUME NEW S, NEW s \in Seq(S), NEW t \in Seq(S)
    PROVE  /\ s \o t \in Seq(S)
           /\ Len(s \o t) = Len(s) + Len(t)
           /\ \A j \in 1 .. Len(s) + Len(t) :
                 (s \o t)[j] = IF j <= Len(s) THEN s[j] ELSE t[j - Len(s)]
<1>1. s \o t \in Seq(S)
  BY SMTT(30)
<1>2. Len(s \o t) = Len(s) + Len(t)
  BY SMTT(30)
<1>3. ASSUME NEW j \in 1 .. Len(s) + Len(t)
      PROVE  (s \o t)[j] = IF j <= Len(s) THEN s[j] ELSE t[j - Len(s)]
  BY SMTT(30)
<1> QED
  BY <1>1, <1>2, <1>3

(* What is left of a sequence of requests when one is taken out.           *)
LEMMA Removed ==
    ASSUME NEW S, NEW q \in Seq(S), NEW i \in 1 .. Len(q)
    PROVE  /\ LeaveOut(q, i) \in Seq(S)
           /\ Len(LeaveOut(q, i)) = Len(q) - 1
           /\ \A j \in 1 .. Len(q) - 1 :
                 LeaveOut(q, i)[j] = IF j < i THEN q[j] ELSE q[j + 1]
<1> DEFINE front == SubSeq(q, 1, i - 1)
           back == SubSeq(q, i + 1, Len(q))
<1>1. Len(q) \in Nat /\ \A j \in 1 .. Len(q) : q[j] \in S
  BY SMTT(30)
<1>2. /\ front \in Seq(S)
      /\ Len(front) = i - 1
      /\ \A j \in 1 .. i - 1 : front[j] = q[j]
  BY <1>1, SMTT(30)
<1>3. /\ back \in Seq(S)
      /\ Len(back) = Len(q) - i
      /\ \A j \in 1 .. Len(q) - i : back[j] = q[i + j]
  BY <1>1, SMTT(30)
<1>4. LeaveOut(q, i) = front \o back
  BY DEF LeaveOut
<1> HIDE DEF front, back
<1>5. /\ front \o back \in Seq(S)
      /\ Len(front \o back) = Len(front) + Len(back)
      /\ \A j \in 1 .. Len(front) + Len(back) :
            (front \o back)[j] = IF j <= Len(front) THEN front[j]
                                ELSE back[j - Len(front)]
  BY <1>2, <1>3, Joined
<1> QED
  BY <1>1, <1>2, <1>3, <1>4, <1>5, SMTT(30)

(* Replacing one element of a sequence.                                    *)
LEMMA Replaced ==
    ASSUME NEW S, NEW q \in Seq(S), NEW i \in 1 .. Len(q), NEW v \in S,
           NEW r, r = [q EXCEPT ![i] = v]
    PROVE  /\ r \in Seq(S)
           /\ Len(r) = Len(q)
           /\ \A j \in 1 .. Len(q) : r[j] = IF j = i THEN v ELSE q[j]
<1>1. /\ DOMAIN q = 1 .. Len(q) /\ Len(q) \in Nat
      /\ \A j \in 1 .. Len(q) : q[j] \in S
  BY SMTT(30)
<1>2. /\ r \in [1 .. Len(q) -> S]
      /\ \A j \in 1 .. Len(q) : r[j] = IF j = i THEN v ELSE q[j]
  BY <1>1
<1> QED
  BY <1>1, <1>2, SMTT(30)

(* What a connection was made of never changes: only where its driver      *)
(* sends and whether it runs does.                                         *)
SameOrigin(r, s) == r.conclusion = s.conclusion /\ r.latency = s.latency

\* The drivers q with one of them stopped, or re-pinned...
StopAt(q, id) == [q EXCEPT ![id].running = FALSE]
PinAt(q, id, x) == [q EXCEPT ![id].peer = x]

(* ... and what that leaves of each of them.                               *)
IsStopped(r, q, id) ==
    /\ r \in Seq(AcceptorRecord)
    /\ Len(r) = Len(q)
    /\ \A j \in 1 .. Len(q) :
          /\ SameOrigin(r[j], q[j])
          /\ r[j].peer = q[j].peer
          /\ r[j].running <=> q[j].running /\ j # id
IsPinned(r, q, id, x) ==
    /\ r \in Seq(AcceptorRecord)
    /\ Len(r) = Len(q)
    /\ \A j \in 1 .. Len(q) :
          /\ SameOrigin(r[j], q[j])
          /\ r[j].peer = IF j = id THEN x ELSE q[j].peer
          /\ r[j].running <=> q[j].running

(* A driver that stops.                                                    *)
LEMMA Stopped ==
    ASSUME NEW q \in Seq(AcceptorRecord), NEW id \in 1 .. Len(q)
    PROVE  IsStopped(StopAt(q, id), q, id)
<1> DEFINE r == StopAt(q, id)
           v == [q[id] EXCEPT !.running = FALSE]
<1>1. \A j \in 1 .. Len(q) : q[j] \in AcceptorRecord
  BY SMTT(30)
<1>2. /\ v \in AcceptorRecord /\ SameOrigin(v, q[id])
      /\ v.peer = q[id].peer /\ ~ v.running
  BY <1>1 DEF AcceptorRecord, SameOrigin
<1>3. r = [q EXCEPT ![id] = v]
  BY DEF StopAt
<1> HIDE DEF r, v
<1>4. \A w : w = [q EXCEPT ![id] = v] =>
         /\ w \in Seq(AcceptorRecord)
         /\ Len(w) = Len(q)
         /\ \A j \in 1 .. Len(q) : w[j] = IF j = id THEN v ELSE q[j]
  BY <1>2, Replaced, SMTT(30)
<1>5. /\ r \in Seq(AcceptorRecord)
      /\ Len(r) = Len(q)
      /\ \A j \in 1 .. Len(q) : r[j] = IF j = id THEN v ELSE q[j]
  BY <1>3, <1>4
<1> QED
  BY <1>2, <1>5 DEF IsStopped, SameOrigin, r

(* A driver that is re-pinned.                                             *)
LEMMA Repinned ==
    ASSUME NEW q \in Seq(AcceptorRecord), NEW id \in 1 .. Len(q), NEW x \in Addresses
    PROVE  IsPinned(PinAt(q, id, x), q, id, x)
<1> DEFINE r == PinAt(q, id, x)
           v == [q[id] EXCEPT !.peer = x]
<1>1. \A j \in 1 .. Len(q) : q[j] \in AcceptorRecord
  BY SMTT(30)
<1>2. /\ v \in AcceptorRecord /\ SameOrigin(v, q[id])
      /\ v.peer = x /\ (v.running <=> q[id].running)
  BY <1>1 DEF AcceptorRecord, SameOrigin
<1>3. r = [q EXCEPT ![id] = v]
  BY DEF PinAt
<1> HIDE DEF r, v
<1>4. \A w : w = [q EXCEPT ![id] = v] =>
         /\ w \in Seq(AcceptorRecord)
         /\ Len(w) = Len(q)
         /\ \A j \in 1 .. Len(q) : w[j] = IF j = id THEN v ELSE q[j]
  BY <1>2, Replaced, SMTT(30)
<1>5. /\ r \in Seq(AcceptorRecord)
      /\ Len(r) = Len(q)
      /\ \A j \in 1 .. Len(q) : r[j] = IF j = id THEN v ELSE q[j]
  BY <1>3, <1>4
<1> QED
  BY <1>2, <1>5 DEF IsPinned, SameOrigin, r
-----------------------------------------------------------------------------
(* Messages.                                                               *)

(* A quotient, without and with its remainder.                             *)
LEMMA Quotient ==
    ASSUME NEW d \in Nat, NEW m \in Nat \ {0}
    PROVE  /\ d \div m \in Nat
           /\ m * (d \div m) <= d
           /\ d < m * (d \div m) + m
<1>1. d \div m \in Int /\ d % m \in 0 .. m - 1 /\ d = m * (d \div m) + (d % m)
  BY SMTT(30)
<1>2. d \div m \in Nat
  BY <1>1, SMTT(30)
<1> QED
  BY <1>1, <1>2, SMTT(30)

(* Multiples are ordered as what they are multiples of.                    *)
LEMMA Scaled ==
    ASSUME NEW j \in Nat, NEW k \in Nat, NEW m \in Nat \ {0}
    PROVE  /\ m * j \in Nat
           /\ j <= k => m * j <= m * k
           /\ m * j < m * (k + 1) => j <= k
BY SMTT(30)

(* The milliseconds reported of a latency are at most the latency, and     *)
(* lack less than one when they fit the field.                             *)
LEMMA Reported ==
    ASSUME NEW latency \in Nat
    PROVE  /\ MillisU16(latency) \in Nat /\ MILLI * MillisU16(latency) \in Nat
           /\ MILLI * MillisU16(latency) <= latency
           /\ latency < MILLI * (MaxMillis + 1) =>
                 latency < MILLI * MillisU16(latency) + MILLI
<1> DEFINE q == latency \div MILLI
<1>1. MILLI \in Nat \ {0} /\ MaxMillis \in Nat
  BY EndpointAssumption
<1>2. q \in Nat /\ MILLI * q <= latency /\ latency < MILLI * q + MILLI
  BY <1>1, Quotient
<1>3. /\ MILLI * q \in Nat /\ MILLI * MaxMillis \in Nat
      /\ MaxMillis <= q => MILLI * MaxMillis <= MILLI * q
      /\ MILLI * q < MILLI * (MaxMillis + 1) => q <= MaxMillis
  BY <1>1, <1>2, Scaled
<1>4. MillisU16(latency) = IF q > MaxMillis THEN MaxMillis ELSE q
  BY DEF MillisU16
<1>5. MILLI * (MaxMillis + 1) \in Nat
  BY <1>1, Scaled, SMTT(30)
<1> HIDE DEF q
<1>6. CASE q > MaxMillis
  <2>1. MillisU16(latency) = MaxMillis
    BY <1>4, <1>6
  <2>2. MILLI * MaxMillis <= latency /\ ~ (latency < MILLI * (MaxMillis + 1))
    <3> DEFINE u == MILLI * q
               v == MILLI * MaxMillis
               w == MILLI * (MaxMillis + 1)
    <3>1. u \in Nat /\ v \in Nat /\ w \in Nat /\ v <= u /\ u <= latency /\ ~ (u < w)
      BY <1>1, <1>2, <1>3, <1>5, <1>6, SMTT(30)
    <3> HIDE DEF u, v, w
    <3>2. v <= latency /\ ~ (latency < w)
      BY <3>1, SMTT(30)
    <3> QED
      BY <3>2 DEF v, w
  <2> QED
    BY <1>1, <1>3, <2>1, <2>2
<1>7. CASE ~ (q > MaxMillis)
  BY <1>2, <1>3, <1>4, <1>7
<1> QED
  BY <1>6, <1>7

(* A longer latency is not reported as less.                               *)
LEMMA ReportedInOrder ==
    ASSUME NEW k \in Nat, NEW l \in Nat, k <= l
    PROVE  MILLI * MillisU16(k) <= MILLI * MillisU16(l)
<1> DEFINE p == k \div MILLI
           q == l \div MILLI
<1>1. MILLI \in Nat \ {0} /\ MaxMillis \in Nat
  BY EndpointAssumption
<1>2. /\ p \in Nat /\ MILLI * p <= k
      /\ q \in Nat /\ l < MILLI * q + MILLI
  BY <1>1, Quotient
<1>3. p <= q
  <2>1. MILLI * (q + 1) = MILLI * q + MILLI
    BY <1>1, <1>2, SMTT(30)
  <2>2. MILLI * p < MILLI * (q + 1)
    <3> DEFINE u == MILLI * p
               v == MILLI * q
    <3>1. u \in Nat /\ v \in Nat /\ u <= k /\ l < v + MILLI
      BY <1>1, <1>2, Scaled
    <3> HIDE DEF p, q, u, v
    <3>2. u < v + MILLI
      BY <1>1, <3>1, SMTT(30)
    <3> QED
      BY <2>1, <3>2 DEF u, v
  <2> QED
    BY <1>1, <1>2, <2>2, Scaled
<1>4. /\ MillisU16(k) = IF p > MaxMillis THEN MaxMillis ELSE p
      /\ MillisU16(l) = IF q > MaxMillis THEN MaxMillis ELSE q
  BY DEF MillisU16
<1> HIDE DEF p, q
<1>5. MillisU16(k) \in Nat /\ MillisU16(l) \in Nat /\ MillisU16(k) <= MillisU16(l)
  BY <1>1, <1>2, <1>3, <1>4, SMTT(30)
<1> QED
  BY <1>1, <1>5, Scaled

(* What an end settles on, from what the other reports, is a latency.      *)
LEMMA NegotiatedTyped ==
    ASSUME NEW latency \in Nat, NEW hs, hs.latency \in Nat
    PROVE  Negotiate(latency, hs) \in Nat
<1>1. hs.latency * MILLI \in Nat
  BY EndpointAssumption, SMTT(30)
<1> QED
  BY <1>1 DEF Negotiate, Larger

(* A conclusion carries its attempt and that attempt's latency.            *)
LEMMA ConclusionFields ==
    ASSUME NEW m \in ConclusionMessage
    PROVE  /\ m.type = "Conclusion" /\ m.attempt \in Attempts /\ m.cookie \in Cookie
           /\ m.latency = MillisU16(Latency[m.attempt]) /\ m.latency \in Nat
           /\ m # None
<1>1. /\ m.type = "Conclusion" /\ m.attempt \in Attempts /\ m.cookie \in Cookie
      /\ m.latency = MillisU16(Latency[m.attempt])
  BY SMTT(30) DEF ConclusionMessage, Conclusion
<1>2. m.latency \in Nat
  BY <1>1, EndpointAssumption, Reported
<1> QED
  BY <1>1, <1>2, NoneAssumption

(* What the listening socket receives is told apart by its type.           *)
LEMMA ListenerMessages ==
    ASSUME NEW m \in HandshakeMessage \cup NamingMessage
    PROVE  /\ m.type = "Conclusion" => m \in ConclusionMessage
           /\ m.type \in {"Induction", "Conclusion"} <=> m \in HandshakeMessage
           /\ m.type \in {"Traffic", "Shutdown"} <=> m \in NamingMessage
           /\ m \in HandshakeMessage => m.attempt \in Attempts /\ DestSocketId(m) = 0
           /\ m \in NamingMessage => m.dest \in Id /\ DestSocketId(m) = m.dest
<1>1. CASE m \in ConclusionMessage
  <2>1. m.type = "Conclusion" /\ m.attempt \in Attempts
    BY <1>1, ConclusionFields
  <2> QED
    BY <1>1, <2>1, SMTT(30) DEF HandshakeMessage, NamingMessage, Traffic, Shutdown,
       DestSocketId
<1>2. CASE \E a \in Attempts : m = Induction(a)
  <2>1. m.type = "Induction" /\ m.attempt \in Attempts
    BY <1>2, SMTT(30) DEF Induction
  <2> QED
    BY <1>2, <2>1, SMTT(30) DEF HandshakeMessage, NamingMessage, Traffic, Shutdown,
       DestSocketId
<1>3. CASE m \in NamingMessage
  <2>1. m.type \in {"Traffic", "Shutdown"} /\ m.dest \in Id
    BY <1>3, SMTT(30) DEF NamingMessage, Traffic, Shutdown
  <2>2. m \notin ConclusionMessage
    BY <2>1, ConclusionFields
  <2> QED
    BY <1>3, <2>1, <2>2, SMTT(30) DEF HandshakeMessage, Induction, DestSocketId
<1> QED
  BY <1>1, <1>2, <1>3 DEF HandshakeMessage

(* What a caller receives is told apart by its type.                       *)
LEMMA AnswerFields ==
    ASSUME NEW m \in AnswerMessage
    PROVE  /\ m.type = "InductionResponse" => m.cookie \in Cookie
           /\ m.type = "ConclusionResponse" =>
                 m.id \in Id /\ m.attempt \in Attempts /\ m.latency \in Nat
<1>1. ASSUME NEW id \in Id, NEW c \in ConclusionMessage
      PROVE  /\ ConclusionResponse(id, c).attempt \in Attempts
             /\ ConclusionResponse(id, c).latency \in Nat
  <2>1. c.attempt \in Attempts /\ Negotiate(ListenerLatency, c) \in Nat
    BY ConclusionFields, EndpointAssumption, NegotiatedTyped
  <2> QED
    BY <2>1, Reported DEF ConclusionResponse
<1>2. CASE \E id \in Id, c \in ConclusionMessage : m = ConclusionResponse(id, c)
  <2>1. PICK id \in Id, c \in ConclusionMessage : m = ConclusionResponse(id, c)
    BY <1>2
  <2>2. m.type = "ConclusionResponse" /\ m.id = id
    BY <2>1 DEF ConclusionResponse
  <2> QED
    BY <1>1, <2>1, <2>2
<1>3. CASE \E cookie \in Cookie : m = InductionResponse(cookie)
  BY <1>3, SMTT(30) DEF InductionResponse
<1>4. CASE \E reason \in Reasons : m = Rejection(reason)
  BY <1>4, SMTT(30) DEF Rejection
<1> QED
  BY <1>2, <1>3, <1>4, SMTT(30) DEF AnswerMessage
-----------------------------------------------------------------------------
(* Type correctness.                                                       *)

(* The types hold initially.                                               *)
LEMMA TypeInit == Init => TypeInv
<1> SUFFICES ASSUME Init PROVE TypeInv
  OBVIOUS
<1> USE DEF Init
<1>1. CallersTyped
  <2>1. \A a \in Attempts : caller[a] = NewCaller /\ ~ Connecting(a) /\ ~ Established(a)
    BY DEF NewCaller, Connecting, Established
  <2>2. \A a \in Attempts : caller[a].timer = FALSE /\ Connecting(a) = FALSE
    BY <2>1, SMTT(30) DEF NewCaller, Connecting
  <2> QED
    BY <2>1, <2>2, EndpointAssumption DEF CallersTyped, NewCaller, CallerRecord
<1>2. MapsTyped
  BY EndpointAssumption, SMTT(30) DEF MapsTyped
<1>3. ListenerTyped /\ ApplicationTyped /\ NetworkTyped
  BY EndpointAssumption, SMTT(30) DEF ListenerTyped, ApplicationTyped, NetworkTyped
<1> QED
  BY <1>1, <1>2, <1>3 DEF TypeInv

(* What a part of the state satisfies, it satisfies after a step that      *)
(* leaves that part alone.                                                 *)
LEMMA TypeFrame ==
    /\ CallersTyped /\ UNCHANGED callers => CallersTyped'
    /\ MapsTyped /\ UNCHANGED demux => MapsTyped'
    /\ ListenerTyped /\ UNCHANGED listener => ListenerTyped'
    /\ ApplicationTyped /\ UNCHANGED application => ApplicationTyped'
    /\ NetworkTyped /\ UNCHANGED <<to_listener, to_caller, budget>> => NetworkTyped'
<1>1. CallersTyped /\ UNCHANGED callers => CallersTyped'
  BY DEF CallersTyped, callers, Connecting, Established
<1>2. MapsTyped /\ UNCHANGED demux => MapsTyped'
  BY DEF MapsTyped, demux
<1>3. ListenerTyped /\ UNCHANGED listener => ListenerTyped'
  <2> SUFFICES ASSUME ListenerTyped, UNCHANGED listener
               PROVE  ListenerTyped'
    OBVIOUS
  <2>1. auto_accept' = auto_accept
    BY DEF listener
  <2>2. pending' = pending /\ stale' = stale /\ minute' = minute
    BY DEF listener
  <2> QED
    BY <2>1, <2>2, ZenonT(30) DEF ListenerTyped
<1>4. ApplicationTyped /\ UNCHANGED application => ApplicationTyped'
  BY DEF ApplicationTyped, application
<1>5. NetworkTyped /\ UNCHANGED <<to_listener, to_caller, budget>> => NetworkTyped'
  BY DEF NetworkTyped, budget
<1> QED
  BY <1>1, <1>2, <1>3, <1>4, <1>5

(* A caller that sends a handshake is connecting and has it to resend.     *)
LEMMA EmitTyped ==
    ASSUME CallersTyped, NEW a \in Attempts, NEW state \in {"Induction", "Conclusion"},
           NEW hs \in HandshakeMessage, EmitHandshake(a, state, hs), UNCHANGED addr
    PROVE  /\ CallersTyped'
           /\ caller'[a].state = state /\ caller'[a].last_handshake = hs
           /\ \A b \in Attempts : b # a => caller'[b] = caller[b]
<1>1. \A b \in Attempts : b # a => caller'[b] = caller[b]
  BY DEF CallersTyped, EmitHandshake
<1>2. /\ caller'[a].state = state /\ caller'[a].timer
      /\ caller'[a].last_handshake = hs
      /\ caller'[a] \in CallerRecord
  <2> DEFINE c == caller[a]
             r == [[[c EXCEPT !.state = state] EXCEPT !.last_handshake = hs]
                     EXCEPT !.timer = TRUE]
  <2>1. c \in CallerRecord /\ caller'[a] = r
    BY DEF CallersTyped, EmitHandshake
  <2>2. r \in CallerRecord /\ r.state = state /\ r.last_handshake = hs /\ r.timer
    BY <2>1 DEF CallerRecord
  <2> QED
    BY <2>1, <2>2
<1>3. caller' \in [Attempts -> CallerRecord]
  BY <1>2 DEF CallersTyped, EmitHandshake
<1>4. Connecting(a)' /\ ~ Established(a)'
  BY <1>2 DEF Connecting, Established
<1>5. \A b \in Attempts : b # a => /\ Connecting(b)' <=> Connecting(b)
                                  /\ Established(b)' <=> Established(b)
  BY <1>1 DEF Connecting, Established
<1>6. caller'[a].timer = TRUE /\ Connecting(a)' = TRUE
  BY <1>2, <1>4 DEF CallerRecord, Connecting
<1>7. \A b \in Attempts : caller'[b].timer = Connecting(b)'
  BY <1>1, <1>5, <1>6 DEF CallersTyped, Connecting
<1> QED
  BY <1>1, <1>2, <1>3, <1>4, <1>5, <1>7 DEF CallersTyped

(* A caller's step changes its own record, its address and what is in      *)
(* flight.                                                                 *)
LEMMA CallerSteps ==
    ASSUME TypeInv, NEW a \in Attempts, Caller(a)
    PROVE  TypeInv'
<1> USE DEF TypeInv
<1>1. CASE Connect(a)
  <2>1. CallersTyped'
    BY <1>1, EmitTyped DEF Connect, HandshakeMessage
  <2>2. NetworkTyped'
    BY <1>1, SMTT(30) DEF Connect, EmitHandshake, NetworkTyped, From, CallersTyped,
       HandshakeMessage, budget
  <2> QED
    BY <1>1, <2>1, <2>2, TypeFrame DEF Connect
<1>2. CASE CallerReceives(a)
  <2>1. PICK d \in to_caller :
           /\ to_caller' = to_caller \ {d}
           /\ \/ d.msg.type = "Rejection" /\ OnRejection(a)
              \/ OnInductionResponse(a, d.msg)
              \/ OnConclusionResponse(a, d.msg)
              \/ UNCHANGED <<caller, to_listener>>
    BY <1>2 DEF CallerReceives
  <2>2. UNCHANGED <<addr, listener, demux, application, budget>>
    BY <1>2 DEF CallerReceives
  <2>3. d.msg \in AnswerMessage
    BY DEF NetworkTyped
  <2>4. CASE UNCHANGED <<caller, to_listener>>
    BY <2>1, <2>2, <2>4, TypeFrame DEF NetworkTyped, budget, callers
  <2>5. CASE OnRejection(a)
    <3>1. CallersTyped'
      BY <2>2, <2>5, SMTT(30) DEF OnRejection, CallersTyped, Connecting, Established,
         CallerRecord
    <3> QED
      BY <2>1, <2>2, <2>5, <3>1, TypeFrame DEF OnRejection, NetworkTyped, budget
  <2>6. CASE OnInductionResponse(a, d.msg)
    <3>1. PICK p \in Passphrases :
             EmitHandshake(a, "Conclusion", Conclusion(a, d.msg.cookie, p))
      BY <2>6 DEF OnInductionResponse
    <3>2. Conclusion(a, d.msg.cookie, p) \in HandshakeMessage
      BY <2>3, <2>6, AnswerFields, SMTT(30) DEF OnInductionResponse, HandshakeMessage,
         ConclusionMessage
    <3>3. CallersTyped'
      BY <2>2, <3>1, <3>2, EmitTyped
    <3>4. NetworkTyped'
      BY <2>1, <2>2, <3>1, <3>2, SMTT(30) DEF EmitHandshake, NetworkTyped, From,
         CallersTyped, budget
    <3> QED
      BY <2>2, <3>3, <3>4, TypeFrame
  <2>7. CASE OnConclusionResponse(a, d.msg)
    <3>1. d.msg.id \in Id /\ d.msg.attempt \in Attempts /\ d.msg.latency \in Nat
      BY <2>3, <2>7, AnswerFields DEF OnConclusionResponse
    <3>2. Negotiate(Latency[a], d.msg) \in Nat
      BY <3>1, EndpointAssumption, NegotiatedTyped
    <3>3. CallersTyped'
      BY <2>2, <2>7, <3>1, <3>2, SMTT(30) DEF OnConclusionResponse, CallersTyped, Connecting,
         Established, CallerRecord
    <3> QED
      BY <2>1, <2>2, <2>7, <3>3, TypeFrame DEF OnConclusionResponse, NetworkTyped,
         budget
  <2> QED
    BY <2>1, <2>4, <2>5, <2>6, <2>7
<1>3. CASE HandshakeTimer(a)
  <2>1. NetworkTyped'
    BY <1>3, SMTT(30) DEF HandshakeTimer, NetworkTyped, From, CallersTyped, budget
  <2> QED
    BY <1>3, <2>1, TypeFrame DEF HandshakeTimer
<1>4. CASE ConnectTimeout(a)
  <2>1. CallersTyped'
    BY <1>4, SMTT(30) DEF ConnectTimeout, CallersTyped, Connecting, Established, CallerRecord
  <2> QED
    BY <1>4, <2>1, TypeFrame DEF ConnectTimeout
<1>5. CASE CallerSends(a)
  <2>1. Traffic(caller[a].peer) \in NamingMessage
    BY <1>5 DEF CallerSends, CallersTyped, NamingMessage, Established
  <2>2. NetworkTyped'
    BY <1>5, <2>1, SMTT(30) DEF CallerSends, NetworkTyped, From, CallersTyped, budget
  <2> QED
    BY <1>5, <2>2, TypeFrame DEF CallerSends
<1>6. CASE CallerEnds(a)
  <2>1. Shutdown(caller[a].peer) \in NamingMessage
    BY <1>6 DEF CallerEnds, CallersTyped, NamingMessage, Established
  <2>2. NetworkTyped'
    BY <1>6, <2>1, SMTT(30) DEF CallerEnds, NetworkTyped, From, CallersTyped, budget
  <2>3. CallersTyped'
    BY <1>6, SMTT(30) DEF CallerEnds, CallersTyped, Connecting, Established, CallerRecord
  <2> QED
    BY <1>6, <2>2, <2>3, TypeFrame DEF CallerEnds
<1>7. CASE Rebind(a)
  <2>1. CallersTyped'
    BY <1>7, EndpointAssumption DEF Rebind, CallersTyped, Connecting, Established
  <2>2. NetworkTyped'
    <3>1. moves' \in 0 .. MaxMoves
      BY <1>7, EndpointAssumption, SMTT(30) DEF Rebind, NetworkTyped
    <3> QED
      BY <1>7, <3>1 DEF Rebind, NetworkTyped
  <2> QED
    BY <1>7, <2>1, <2>2, TypeFrame DEF Rebind
<1>8. CASE CallerCancels(a)
  <2>1. CallersTyped'
    BY <1>8, SMTT(30) DEF CallerCancels, CallersTyped, Connecting, Established,
       CallerRecord
  <2> QED
    BY <1>8, <2>1, TypeFrame DEF CallerCancels
<1> QED
  BY <1>1, <1>2, <1>3, <1>4, <1>5, <1>6, <1>7, <1>8 DEF Caller

(* An answer to a conclusion is one a caller can receive.                  *)
LEMMA RespondTyped ==
    ASSUME NetworkTyped, NEW x \in Addresses, NEW m \in AnswerMessage, Respond(x, m)
    PROVE  to_caller' \subseteq [to : Addresses, msg : AnswerMessage]
BY SMTT(30) DEF NetworkTyped, Respond, To

(* What spawn_accepted() does to the connections and the two maps.         *)
LEMMA Spawned ==
    ASSUME TypeInv, NEW x \in Addresses, NEW m \in ConclusionMessage,
           NEW stream_id \in Attempts, SpawnAccepted(x, m, stream_id)
    PROVE  /\ Len(acceptor) + 1 \in Id
           /\ acceptor' \in Seq(AcceptorRecord)
           /\ Len(acceptor') = Len(acceptor) + 1
           /\ \A j \in 1 .. Len(acceptor) : acceptor'[j] = acceptor[j]
           /\ acceptor'[Len(acceptor) + 1] = Accept(x, m, stream_id)
           /\ MapsTyped'
           /\ to_caller' \subseteq [to : Addresses, msg : AnswerMessage]
<1> DEFINE id == Len(acceptor) + 1
           r == Accept(x, m, stream_id)
           swept == {y \in DOMAIN by_id : acceptor[y].running}
<1> USE DEF TypeInv
<1>1. acceptor \in Seq(AcceptorRecord) /\ Len(acceptor) \in Nat
  BY SMTT(30) DEF MapsTyped
<1>2. id \in Id
  BY <1>1, EndpointAssumption, SMTT(30) DEF SpawnAccepted, Id
<1>3. Negotiate(ListenerLatency, m) \in Nat
  BY ConclusionFields, EndpointAssumption, NegotiatedTyped
<1>4. r \in AcceptorRecord
  BY <1>3 DEF Accept, AcceptorRecord
<1>5. acceptor' = Append(acceptor, r)
  BY DEF SpawnAccepted
<1>6. /\ acceptor' \in Seq(AcceptorRecord)
      /\ Len(acceptor') = Len(acceptor) + 1
      /\ \A j \in 1 .. Len(acceptor) : acceptor'[j] = acceptor[j]
      /\ acceptor'[Len(acceptor) + 1] = r
  <2> HIDE DEF r
  <2> QED
    BY <1>1, <1>4, <1>5, SMTT(30)
<1>7. connections' \in [Addresses -> 1 .. Len(acceptor') \cup {None}]
  <2>1. connections' = [y \in Addresses |->
                          IF y = x THEN id
                          ELSE IF connections[y] # None /\ ~ acceptor[connections[y]].running
                          THEN None ELSE connections[y]]
    BY DEF SpawnAccepted
  <2>2. \A y \in Addresses : connections[y] \in 1 .. Len(acceptor) \cup {None}
    BY DEF MapsTyped
  <2>3. \A y \in Addresses : connections'[y] \in {id, None, connections[y]}
    BY <2>1
  <2>4. \A y \in Addresses : connections'[y] \in 1 .. Len(acceptor') \cup {None}
    BY <1>1, <1>6, <2>2, <2>3, SMTT(30)
  <2> QED
    BY <2>1, <2>4
<1>8. by_id' \in [DOMAIN by_id' -> Addresses] /\ DOMAIN by_id' \subseteq 1 .. Len(acceptor')
  <2>1. by_id' = [y \in swept \cup {id} |-> IF y = id THEN x ELSE by_id[y]]
    BY DEF SpawnAccepted
  <2>2. \A y \in swept : y \in 1 .. Len(acceptor) /\ by_id[y] \in Addresses
    BY DEF MapsTyped
  <2> QED
    BY <1>1, <1>6, <2>1, <2>2, SMTT(30)
<1>9. to_caller' \subseteq [to : Addresses, msg : AnswerMessage]
  <2>1. ConclusionResponse(id, m) \in AnswerMessage
    BY <1>2, SMTT(30) DEF AnswerMessage
  <2> QED
    BY <2>1, RespondTyped DEF SpawnAccepted
<1> QED
  BY <1>1, <1>2, <1>6, <1>7, <1>8, <1>9, SMTT(30) DEF MapsTyped, Id

(* What reaches a driver stops it or is answered, and changes nothing of   *)
(* what the connection was made of.                                        *)
LEMMA Forwarded ==
    ASSUME NetworkTyped, NEW q \in Seq(AcceptorRecord), NEW id \in 1 .. Len(q), id \in Id,
           NEW m, Forward(id, q, m)
    PROVE  /\ acceptor' \in Seq(AcceptorRecord)
           /\ Len(acceptor') = Len(q)
           /\ \A j \in 1 .. Len(q) :
                 /\ SameOrigin(acceptor'[j], q[j])
                 /\ acceptor'[j].peer = q[j].peer
                 /\ acceptor'[j].running <=>
                       q[j].running /\ ~ (j = id /\ m.type = "Shutdown")
           /\ to_caller' \subseteq [to : Addresses, msg : AnswerMessage]
           /\ \/ to_caller' = to_caller
              \/ /\ m.type = "Conclusion"
                 /\ Respond(q[id].peer, ConclusionResponse(id, q[id].conclusion))
<1>1. q[id] \in AcceptorRecord
  BY SMTT(30)
<1>2. /\ acceptor' \in Seq(AcceptorRecord)
      /\ Len(acceptor') = Len(q)
      /\ \A j \in 1 .. Len(q) :
            /\ SameOrigin(acceptor'[j], q[j])
            /\ acceptor'[j].peer = q[j].peer
            /\ acceptor'[j].running <=> q[j].running /\ ~ (j = id /\ m.type = "Shutdown")
  <2>1. CASE m.type = "Shutdown"
    <3>1. acceptor' = StopAt(q, id)
      BY <2>1 DEF Forward, StopAt
    <3>2. IsStopped(acceptor', q, id)
      BY <3>1, Stopped
    <3> QED
      BY <2>1, <3>2 DEF IsStopped
  <2>2. CASE m.type # "Shutdown"
    BY <2>2 DEF Forward, SameOrigin
  <2> QED
    BY <2>1, <2>2
<1>3. ConclusionResponse(id, q[id].conclusion) \in AnswerMessage /\ q[id].peer \in Addresses
  BY <1>1, SMTT(30) DEF AnswerMessage, AcceptorRecord
<1>4. \/ to_caller' = to_caller
      \/ m.type = "Conclusion" /\ Respond(q[id].peer, ConclusionResponse(id, q[id].conclusion))
  BY DEF Forward
<1>5. to_caller' \subseteq [to : Addresses, msg : AnswerMessage]
  BY <1>3, <1>4, RespondTyped DEF NetworkTyped
<1> QED
  BY <1>2, <1>4, <1>5

(* The listener expires what it has parked.                                *)
LEMMA UnexpiredTyped ==
    ASSUME ListenerTyped
    PROVE  /\ Unexpired \in [Addresses -> ConclusionMessage \cup {None}]
           /\ auto_accept => \A x \in Addresses : Unexpired[x] = None
           /\ \A x \in Addresses : Unexpired[x] \in {pending[x], None}
BY DEF ListenerTyped, Unexpired

(* One turn of drive_endpoint().                                           *)
LEMMA EndpointSteps ==
    ASSUME TypeInv, NEW d \in to_listener, EndpointReceives(d)
    PROVE  TypeInv'
<1> DEFINE x == d.from
           m == d.msg
<1> USE DEF TypeInv
<1>1. x \in Addresses /\ m \in HandshakeMessage \cup NamingMessage
  BY DEF NetworkTyped
<1>2. /\ to_listener' \subseteq [from : Addresses, msg : HandshakeMessage \cup NamingMessage]
      /\ lost' \in 0 .. MaxLoss /\ dups' \in 0 .. MaxDup /\ moves' \in 0 .. MaxMoves
      /\ CallersTyped'
  <2>1. to_listener' \subseteq to_listener
    BY DEF EndpointReceives
  <2>2. lost' \in 0 .. MaxLoss /\ dups' \in 0 .. MaxDup /\ moves' \in 0 .. MaxMoves
    BY EndpointAssumption, SMTT(30) DEF EndpointReceives, NetworkTyped
  <2> QED
    BY <2>1, <2>2, TypeFrame DEF EndpointReceives, NetworkTyped
<1>3. Len(acceptor) \in Nat /\ \A id \in 1 .. Len(acceptor) : acceptor[id] \in AcceptorRecord
  BY SMTT(30) DEF MapsTyped
<1>4. \A id \in 1 .. Len(acceptor) : id \in Id
  BY <1>3, EndpointAssumption, SMTT(30) DEF MapsTyped, Id
<1> HIDE DEF x, m
<1>5. CASE FromKnown(x, m)
  <2> DEFINE id == connections[x]
  <2>1. id \in 1 .. Len(acceptor) /\ id \in Id
    BY <1>1, <1>4, <1>5 DEF FromKnown, MapsTyped
  <2>2. CASE acceptor[id].running
    <3>1. Forward(id, acceptor, m) /\ UNCHANGED <<connections, by_id, listener, application>>
      BY <1>5, <2>2 DEF FromKnown
    <3> HIDE DEF id
    <3>2. /\ acceptor' \in Seq(AcceptorRecord) /\ Len(acceptor') = Len(acceptor)
          /\ to_caller' \subseteq [to : Addresses, msg : AnswerMessage]
      BY <2>1, <3>1, Forwarded DEF MapsTyped
    <3>3. MapsTyped'
      BY <3>1, <3>2 DEF MapsTyped
    <3> QED
      BY <1>2, <3>1, <3>2, <3>3, TypeFrame DEF NetworkTyped
  <2>3. CASE ~ acceptor[id].running
    <3>1. /\ connections' = [connections EXCEPT ![x] = None]
          /\ UNCHANGED <<acceptor, to_caller, listener, by_id, application>>
      BY <1>5, <2>3 DEF FromKnown
    <3>2. MapsTyped'
      BY <3>1 DEF MapsTyped
    <3> QED
      BY <1>2, <3>1, <3>2, TypeFrame DEF NetworkTyped
  <2> QED
    BY <2>2, <2>3
<1>6. CASE FromRebound(x, m)
  <2> DEFINE id == DestSocketId(m)
             moved == [connections EXCEPT ![by_id[id]] = None]
  <2>1. id \in DOMAIN by_id /\ id \in 1 .. Len(acceptor) /\ id \in Id
    BY <1>4, <1>6 DEF FromRebound, MapsTyped
  <2>2. moved \in [Addresses -> 1 .. Len(acceptor) \cup {None}]
    BY DEF MapsTyped
  <2>3. CASE acceptor[id].running
    <3>1. /\ connections' = [moved EXCEPT ![x] = id]
          /\ by_id' = [by_id EXCEPT ![id] = x]
          /\ Forward(id, PinAt(acceptor, id, x), m)
          /\ UNCHANGED <<listener, application>>
      BY <1>6, <2>3 DEF FromRebound, PinAt
    <3> HIDE DEF id, moved
    <3>2. PinAt(acceptor, id, x) \in Seq(AcceptorRecord)
          /\ Len(PinAt(acceptor, id, x)) = Len(acceptor)
      <4>1. x \in Addresses /\ acceptor \in Seq(AcceptorRecord)
        BY <1>1 DEF MapsTyped
      <4>2. IsPinned(PinAt(acceptor, id, x), acceptor, id, x)
        BY <2>1, <4>1, Repinned
      <4> QED
        BY <4>2 DEF IsPinned
    <3>3. /\ acceptor' \in Seq(AcceptorRecord) /\ Len(acceptor') = Len(acceptor)
          /\ to_caller' \subseteq [to : Addresses, msg : AnswerMessage]
      BY <2>1, <3>1, <3>2, Forwarded
    <3>4. MapsTyped'
      BY <1>1, <2>1, <2>2, <3>1, <3>3 DEF MapsTyped
    <3> QED
      BY <1>2, <3>1, <3>3, <3>4, TypeFrame DEF NetworkTyped
  <2>4. CASE ~ acceptor[id].running
    <3>1. /\ connections' = moved
          /\ by_id' = [y \in DOMAIN by_id \ {id} |-> by_id[y]]
          /\ UNCHANGED <<acceptor, to_caller, listener, application>>
      BY <1>6, <2>4 DEF FromRebound
    <3> HIDE DEF id, moved
    <3>2. MapsTyped'
      BY <2>2, <3>1 DEF MapsTyped
    <3> QED
      BY <1>2, <3>1, <3>2, TypeFrame DEF NetworkTyped
  <2> QED
    BY <2>3, <2>4
<1>7. ASSUME pending' = Unexpired, stale' = {}, UNCHANGED <<minute, auto_accept>>
      PROVE  ListenerTyped'
  BY <1>7, UnexpiredTyped DEF ListenerTyped
<1>8. CASE OnInduction(x, m)
  <2>1. InductionResponse(<<x, minute>>) \in AnswerMessage
    BY <1>1, SMTT(30) DEF AnswerMessage, Cookie, ListenerTyped
  <2>2. to_caller' \subseteq [to : Addresses, msg : AnswerMessage]
    BY <1>1, <1>8, <2>1, RespondTyped DEF OnInduction
  <2> QED
    BY <1>2, <1>7, <1>8, <2>2, TypeFrame DEF OnInduction, NetworkTyped
<1>9. CASE OnDropped(x, m)
  BY <1>2, <1>7, <1>9, TypeFrame DEF OnDropped, NetworkTyped
<1>10. CASE OnDoomedConclusion(x, m)
  <2>1. Rejection(RejectReason(m)) \in AnswerMessage
    BY <1>10, SMTT(30) DEF OnDoomedConclusion, RejectReason, AnswerMessage, Reasons
  <2>2. to_caller' \subseteq [to : Addresses, msg : AnswerMessage]
    BY <1>1, <1>10, <2>1, RespondTyped DEF OnDoomedConclusion
  <2> QED
    BY <1>2, <1>7, <1>10, <2>2, TypeFrame DEF OnDoomedConclusion, NetworkTyped
<1>11. CASE ParkConclusion(x, m)
  <2>1. m \in ConclusionMessage /\ m.attempt \in Attempts /\ m # None
    BY <1>1, <1>11, ListenerMessages, ConclusionFields DEF ParkConclusion
  <2>2. ASSUME pending' = [Unexpired EXCEPT ![x] = m], ~ auto_accept
        PROVE  ListenerTyped'
    <3>1. stale' = {} /\ UNCHANGED <<minute, auto_accept>>
      BY <1>11 DEF ParkConclusion
    <3> QED
      BY <1>1, <2>1, <2>2, <3>1, UnexpiredTyped DEF ListenerTyped
  <2>3. CASE /\ Unexpired[x] # None
             /\ pending' = [Unexpired EXCEPT ![x] = m]
             /\ UNCHANGED <<demux, incoming, dropped, to_caller>>
    <3>1. ~ auto_accept
      BY <1>1, <2>3, UnexpiredTyped
    <3> QED
      BY <1>2, <1>11, <2>2, <2>3, <3>1, TypeFrame DEF ParkConclusion, NetworkTyped,
         application
  <2>4. CASE Len(incoming) = Backlog /\ SurfaceRequest(x, m)
    <3>1. Len(incoming) < Backlog <=> FALSE
      BY <2>4, EndpointAssumption, SMTT(30)
    <3>2. /\ Respond(x, Rejection("Backlog")) /\ pending' = Unexpired
          /\ UNCHANGED <<demux, incoming, dropped>>
      BY <2>4, <3>1 DEF SurfaceRequest
    <3>3. Rejection("Backlog") \in AnswerMessage
      BY SMTT(30) DEF AnswerMessage, Reasons
    <3>4. to_caller' \subseteq [to : Addresses, msg : AnswerMessage]
      BY <1>1, <3>2, <3>3, RespondTyped
    <3> QED
      BY <1>2, <1>7, <1>11, <3>2, <3>4, TypeFrame DEF ParkConclusion, NetworkTyped,
         application
  <2>5. CASE Len(incoming) # Backlog /\ SurfaceRequest(x, m)
    <3>1. /\ Len(incoming) < Backlog
          /\ dropped' = dropped \ {x}
          /\ incoming' = Append(incoming, [addr |-> x, stream_id |-> m.attempt])
          /\ UNCHANGED held
      BY <1>11, <2>5 DEF SurfaceRequest, ParkConclusion
    <3>2. [addr |-> x, stream_id |-> m.attempt] \in Request
      BY <1>1, <2>1 DEF Request
    <3>3. ApplicationTyped'
      BY <3>1, <3>2, EndpointAssumption, SMTT(30) DEF ApplicationTyped
    <3>4. CASE auto_accept
      <4>1. SpawnAccepted(x, m, m.attempt) /\ pending' = Unexpired
        BY <2>5, <3>4 DEF SurfaceRequest
      <4>2. MapsTyped' /\ to_caller' \subseteq [to : Addresses, msg : AnswerMessage]
        BY <1>1, <2>1, <4>1, Spawned
      <4> QED
        BY <1>2, <1>7, <1>11, <3>3, <4>1, <4>2 DEF ParkConclusion, NetworkTyped
    <3>5. CASE ~ auto_accept
      <4>1. pending' = [Unexpired EXCEPT ![x] = m] /\ UNCHANGED <<demux, to_caller>>
        BY <2>5, <3>5 DEF SurfaceRequest
      <4> QED
        BY <1>2, <2>2, <3>3, <3>5, <4>1, TypeFrame DEF NetworkTyped
    <3> QED
      BY <3>4, <3>5
  <2> QED
    BY <1>11, <2>3, <2>4, <2>5 DEF ParkConclusion
<1> QED
  BY <1>5, <1>6, <1>8, <1>9, <1>10, <1>11 DEF EndpointReceives, x, m

(* The application takes a request and decides or drops it.                *)
LEMMA AppSteps ==
    ASSUME TypeInv, App
    PROVE  TypeInv'
<1> USE DEF TypeInv
<1>1. CASE TakeIncoming
  <2>1. Tail(incoming) \in Seq(Request) /\ Len(Tail(incoming)) <= Backlog
        /\ Head(incoming) \in Request
    BY <1>1, EndpointAssumption, SMTT(30) DEF TakeIncoming, ApplicationTyped
  <2>2. held' \in Seq(Request)
    BY <1>1, <2>1, SMTT(30) DEF TakeIncoming, ApplicationTyped
  <2>3. ApplicationTyped'
    BY <1>1, <2>1, <2>2 DEF TakeIncoming, ApplicationTyped
  <2> QED
    BY <1>1, <2>3, TypeFrame DEF TakeIncoming
<1>2. ASSUME NEW i \in 1 .. Len(held)
      PROVE  held[i].addr \in Addresses /\ held[i].stream_id \in Attempts
             /\ LeaveOut(held, i) \in Seq(Request)
  <2>1. held[i] \in Request
    BY SMTT(30) DEF ApplicationTyped
  <2> QED
    BY <2>1, Removed DEF Request, ApplicationTyped
<1>3. ASSUME NEW i \in 1 .. Len(held), Unpark(held[i].addr), held' = LeaveOut(held, i),
             UNCHANGED <<minute, auto_accept, incoming>>
      PROVE  ListenerTyped' /\ ApplicationTyped'
  BY <1>2, <1>3 DEF Unpark, ListenerTyped, ApplicationTyped
<1>4. ASSUME NEW i \in 1 .. Len(held), AcceptRequest(i)
      PROVE  TypeInv'
  <2> DEFINE x == held[i].addr
  <2>1. CASE pending[x] = None
    <3>1. /\ UNCHANGED <<pending, stale, dropped, demux, to_caller>>
          /\ UNCHANGED <<callers, minute, auto_accept, incoming, to_listener, budget>>
          /\ held' = LeaveOut(held, i)
      BY <1>4, <2>1 DEF AcceptRequest
    <3>2. ApplicationTyped'
      BY <1>2, <3>1 DEF ApplicationTyped
    <3> QED
      BY <3>1, <3>2, TypeFrame DEF listener
  <2>2. CASE pending[x] # None
    <3>1. /\ SpawnAccepted(x, pending[x], held[i].stream_id) /\ Unpark(x)
          /\ UNCHANGED <<callers, minute, auto_accept, incoming, to_listener, budget>>
          /\ held' = LeaveOut(held, i)
      BY <1>4, <2>2 DEF AcceptRequest
    <3>2. pending[x] \in ConclusionMessage
      BY <1>2, <2>2 DEF ListenerTyped
    <3>3. MapsTyped' /\ to_caller' \subseteq [to : Addresses, msg : AnswerMessage]
      BY <1>2, <3>1, <3>2, Spawned
    <3>4. ListenerTyped' /\ ApplicationTyped'
      BY <1>3, <3>1
    <3> QED
      BY <3>1, <3>3, <3>4, TypeFrame DEF NetworkTyped, budget
  <2> QED
    BY <2>1, <2>2
<1>5. ASSUME NEW i \in 1 .. Len(held), RejectRequest(i)
      PROVE  TypeInv'
  <2> DEFINE x == held[i].addr
  <2>1. CASE pending[x] = None
    <3>1. /\ UNCHANGED <<pending, stale, dropped, to_caller>>
          /\ UNCHANGED <<callers, minute, auto_accept, demux, incoming, to_listener, budget>>
          /\ held' = LeaveOut(held, i)
      BY <1>5, <2>1 DEF RejectRequest
    <3>2. ApplicationTyped'
      BY <1>2, <3>1 DEF ApplicationTyped
    <3> QED
      BY <3>1, <3>2, TypeFrame DEF listener
  <2>2. CASE pending[x] # None
    <3>1. /\ Respond(x, Rejection("Application")) /\ Unpark(x)
          /\ UNCHANGED <<callers, minute, auto_accept, demux, incoming, to_listener, budget>>
          /\ held' = LeaveOut(held, i)
      BY <1>5, <2>2 DEF RejectRequest
    <3>2. Rejection("Application") \in AnswerMessage
      BY SMTT(30) DEF AnswerMessage, Reasons
    <3>3. to_caller' \subseteq [to : Addresses, msg : AnswerMessage]
      BY <1>2, <3>1, <3>2, RespondTyped
    <3>4. ListenerTyped' /\ ApplicationTyped'
      BY <1>3, <3>1
    <3> QED
      BY <3>1, <3>3, <3>4, TypeFrame DEF NetworkTyped, budget
  <2> QED
    BY <2>1, <2>2
<1>6. ASSUME NEW i \in 1 .. Len(held), DropRequest(i)
      PROVE  TypeInv'
  <2>1. ApplicationTyped'
    BY <1>2, <1>6 DEF DropRequest, ApplicationTyped
  <2> QED
    BY <1>6, <2>1, TypeFrame DEF DropRequest
<1> QED
  BY <1>1, <1>4, <1>5, <1>6 DEF App

(* Drivers end, time passes, datagrams are lost.                           *)
LEMMA OtherSteps ==
    ASSUME TypeInv,
           \/ \E id \in 1 .. Len(acceptor) : AcceptorEnds(id)
           \/ \E x \in Addresses : PendingAges(x)
           \/ MinutePasses
           \/ Lose
    PROVE  TypeInv'
<1> USE DEF TypeInv
<1>1. ASSUME NEW id \in 1 .. Len(acceptor), AcceptorEnds(id)
      PROVE  TypeInv'
  <2>1. acceptor' = StopAt(acceptor, id) /\ UNCHANGED <<connections, by_id>>
    BY <1>1 DEF AcceptorEnds, StopAt
  <2>2. acceptor' \in Seq(AcceptorRecord) /\ Len(acceptor') = Len(acceptor)
    <3>1. acceptor \in Seq(AcceptorRecord)
      BY DEF MapsTyped
    <3>2. IsStopped(acceptor', acceptor, id)
      BY <2>1, <3>1, Stopped
    <3> QED
      BY <3>2 DEF IsStopped
  <2>3. MapsTyped'
    BY <2>1, <2>2 DEF MapsTyped
  <2> QED
    BY <1>1, <2>3, TypeFrame DEF AcceptorEnds
<1>2. ASSUME NEW x \in Addresses, PendingAges(x)
      PROVE  TypeInv'
  <2>1. ListenerTyped'
    BY <1>2 DEF PendingAges, ListenerTyped
  <2> QED
    BY <1>2, <2>1, TypeFrame DEF PendingAges
<1>3. CASE MinutePasses
  <2>1. ListenerTyped'
    BY <1>3, EndpointAssumption, SMTT(30) DEF MinutePasses, ListenerTyped
  <2> QED
    BY <1>3, <2>1, TypeFrame DEF MinutePasses
<1>4. CASE Lose
  <2>1. NetworkTyped'
    BY <1>4, EndpointAssumption, SMTT(30) DEF Lose, NetworkTyped
  <2> QED
    BY <1>4, <2>1, TypeFrame DEF Lose
<1> QED
  BY <1>1, <1>2, <1>3, <1>4

(* Every step of the endpoint keeps the types.                             *)
LEMMA TypeStep == TypeInv /\ [Next]_vars => TypeInv'
<1> SUFFICES ASSUME TypeInv, [Next]_vars PROVE TypeInv'
  OBVIOUS
<1>1. CASE UNCHANGED vars
  BY <1>1, TypeFrame DEF vars, TypeInv
<1> QED
  BY <1>1, CallerSteps, EndpointSteps, AppSteps, OtherSteps DEF Next

(* The types always hold.                                                  *)
LEMMA TypeInvHolds == Spec => []TypeInv
BY TypeInit, TypeStep, PTL DEF Spec

(* Type correctness, for every value of the constants: in particular the   *)
(* backlog never exceeds its capacity, a caller's handshake timer is armed *)
(* exactly while it is connecting, and only a parked conclusion expires.   *)
THEOREM TypeCorrect == Spec => []TypeOK
<1>1. TypeInv => TypeOK
  <2> SUFFICES ASSUME TypeInv PROVE TypeOK
    OBVIOUS
  <2> USE DEF TypeInv
  <2>1. connections \in [Addresses -> Id \cup {None}]
    BY EndpointAssumption, SMTT(30) DEF MapsTyped, Id
  <2>2. DOMAIN by_id \in SUBSET Id
    BY EndpointAssumption, SMTT(30) DEF MapsTyped, Id
  <2>3. by_id \in UNION {[ids -> Addresses] : ids \in SUBSET Id}
    BY <2>2 DEF MapsTyped
  <2> QED
    BY <2>1, <2>3 DEF TypeOK, CallersTyped, MapsTyped, ListenerTyped, ApplicationTyped,
       NetworkTyped, CallerRecord, AcceptorRecord
<1> QED
  BY <1>1, TypeInvHolds, PTL
-----------------------------------------------------------------------------
(* No caller is forgotten.                                                 *)

\* A request for address x is on its way to the application, or with it.
Queued(x) == \E i \in 1 .. Len(incoming) : incoming[i].addr = x
Undecided(x) == \E i \in 1 .. Len(held) : held[i].addr = x

(* The requests that are left when one is taken out.                       *)
LEMMA HeldWithout ==
    ASSUME ApplicationTyped, NEW i \in 1 .. Len(held), held' = LeaveOut(held, i)
    PROVE  /\ Len(held) \in Nat /\ Len(held') = Len(held) - 1
           /\ \A k \in 1 .. Len(held) - 1 :
                 held'[k] = IF k < i THEN held[k] ELSE held[k + 1]
<1>1. held \in Seq(Request) /\ Len(held) \in Nat
  BY SMTT(30) DEF ApplicationTyped
<1>2. /\ Len(LeaveOut(held, i)) = Len(held) - 1
      /\ \A k \in 1 .. Len(held) - 1 :
            LeaveOut(held, i)[k] = IF k < i THEN held[k] ELSE held[k + 1]
  BY <1>1, Removed
<1> QED
  BY <1>1, <1>2

(* The requests for other addresses stay when one is taken out.            *)
LEMMA UndecidedStays ==
    ASSUME ApplicationTyped, NEW i \in 1 .. Len(held), held' = LeaveOut(held, i),
           NEW y, Undecided(y), y # held[i].addr
    PROVE  Undecided(y)'
<1>1. PICK j \in 1 .. Len(held) : held[j].addr = y
  BY DEF Undecided
<1>2. /\ Len(held) \in Nat /\ Len(held') = Len(held) - 1
      /\ \A k \in 1 .. Len(held) - 1 : held'[k] = IF k < i THEN held[k] ELSE held[k + 1]
  BY HeldWithout
<1>3. CASE j < i
  <2>1. j \in 1 .. Len(held') /\ held'[j] = held[j]
    BY <1>2, <1>3, SMTT(30)
  <2> QED
    BY <1>1, <2>1 DEF Undecided
<1>4. CASE j > i
  <2>1. j - 1 \in 1 .. Len(held') /\ held'[j - 1] = held[j]
    BY <1>2, <1>4, SMTT(30)
  <2> QED
    BY <1>1, <2>1 DEF Undecided
<1> QED
  BY <1>1, <1>3, <1>4, SMTT(30)

(* Every step keeps each parked conclusion known to the application.       *)
LEMMA SurfacedStep == TypeInv /\ ParkedIsSurfaced /\ [Next]_vars => ParkedIsSurfaced'
<1> SUFFICES ASSUME TypeInv, ParkedIsSurfaced, [Next]_vars,
                    NEW y \in Addresses, pending'[y] # None
             PROVE  Queued(y)' \/ Undecided(y)' \/ y \in dropped'
  BY DEF ParkedIsSurfaced, Queued, Undecided
<1> USE DEF TypeInv
<1>1. pending[y] # None => Queued(y) \/ Undecided(y) \/ y \in dropped
  BY DEF ParkedIsSurfaced, Queued, Undecided
<1>2. ASSUME UNCHANGED application, pending'[y] \in {pending[y], None}
      PROVE  Queued(y)' \/ Undecided(y)' \/ y \in dropped'
  BY <1>1, <1>2 DEF Queued, Undecided, application
<1>3. CASE UNCHANGED vars
  BY <1>2, <1>3 DEF vars, listener
<1>4. ASSUME NEW a \in Attempts, Caller(a)
      PROVE  UNCHANGED <<listener, application>>
  BY <1>4 DEF Caller, Connect, CallerReceives, HandshakeTimer, ConnectTimeout,
     CallerSends, CallerEnds, CallerCancels, Rebind
<1>5. ASSUME NEW d \in to_listener, EndpointReceives(d)
      PROVE  Queued(y)' \/ Undecided(y)' \/ y \in dropped'
  <2> DEFINE x == d.from
             m == d.msg
  <2>1. x \in Addresses
    BY DEF NetworkTyped
  <2>2. Unexpired[y] \in {pending[y], None}
    BY UnexpiredTyped
  <2>3. CASE FromKnown(x, m) \/ FromRebound(x, m)
    BY <1>2, <2>3 DEF FromKnown, FromRebound, listener
  <2>4. CASE OnInduction(x, m) \/ OnDropped(x, m) \/ OnDoomedConclusion(x, m)
    BY <1>2, <2>2, <2>4 DEF OnInduction, OnDropped, OnDoomedConclusion
  <2>5. CASE ParkConclusion(x, m)
    <3>1. CASE /\ Unexpired[x] # None
               /\ pending' = [Unexpired EXCEPT ![x] = m]
               /\ UNCHANGED <<incoming, dropped>>
      <4>1. pending[y] # None
        BY <2>1, <3>1, UnexpiredTyped
      <4>2. UNCHANGED held
        BY <2>5 DEF ParkConclusion
      <4> QED
        BY <1>1, <3>1, <4>1, <4>2 DEF Queued, Undecided
    <3>2. CASE /\ Len(incoming) = Backlog
               /\ pending' = Unexpired
               /\ UNCHANGED <<incoming, dropped>>
      <4>1. UNCHANGED application
        BY <2>5, <3>2 DEF ParkConclusion, application
      <4> QED
        BY <1>2, <2>2, <3>2, <4>1
    <3>3. CASE /\ dropped' = dropped \ {x}
               /\ incoming' = Append(incoming, [addr |-> x, stream_id |-> m.attempt])
               /\ pending' \in {Unexpired, [Unexpired EXCEPT ![x] = m]}
      <4>1. m \in HandshakeMessage \cup NamingMessage
        BY DEF NetworkTyped
      <4>2. m.attempt \in Attempts
        BY <2>5, <4>1, ListenerMessages, ConclusionFields DEF ParkConclusion
      <4>3. [addr |-> x, stream_id |-> m.attempt] \in Request
        BY <2>1, <4>2 DEF Request
      <4>4. /\ Len(incoming) \in Nat /\ Len(incoming') = Len(incoming) + 1
            /\ \A i \in 1 .. Len(incoming) : incoming'[i] = incoming[i]
            /\ incoming'[Len(incoming) + 1] = [addr |-> x, stream_id |-> m.attempt]
        BY <3>3, <4>3, SMTT(30) DEF ApplicationTyped
      <4>5. Queued(x)' /\ (Queued(y) => Queued(y)')
        BY <4>4, SMTT(30) DEF Queued
      <4>6. CASE y # x
        <5>1. pending[y] # None
          BY <2>1, <3>3, <4>6, UnexpiredTyped
        <5>2. UNCHANGED held
          BY <2>5 DEF ParkConclusion
        <5> QED
          BY <1>1, <3>3, <4>5, <4>6, <5>1, <5>2 DEF Undecided
      <4> QED
        BY <4>5, <4>6
    <3> QED
      BY <2>5, <3>1, <3>2, <3>3 DEF ParkConclusion, SurfaceRequest
  <2> QED
    BY <1>5, <2>3, <2>4, <2>5 DEF EndpointReceives
<1>6. CASE TakeIncoming
  <2>1. pending[y] # None /\ ~ auto_accept
    BY <1>6 DEF TakeIncoming, listener, ListenerTyped
  <2>2. /\ incoming' = Tail(incoming) /\ held' = Append(held, Head(incoming))
        /\ incoming # <<>> /\ UNCHANGED dropped
    BY <1>6, <2>1 DEF TakeIncoming
  <2>3. /\ Len(incoming) \in Nat \ {0} /\ Head(incoming) = incoming[1]
        /\ Head(incoming) \in Request /\ Len(incoming') = Len(incoming) - 1
        /\ \A i \in 1 .. Len(incoming) - 1 : incoming'[i] = incoming[i + 1]
    BY <2>2, SMTT(30) DEF ApplicationTyped
  <2>4. /\ Len(held) \in Nat /\ Len(held') = Len(held) + 1
        /\ \A i \in 1 .. Len(held) : held'[i] = held[i]
        /\ held'[Len(held) + 1] = incoming[1]
    BY <2>2, <2>3, SMTT(30) DEF ApplicationTyped
  <2>5. Undecided(y) => Undecided(y)'
    BY <2>4, SMTT(30) DEF Undecided
  <2>6. ASSUME Queued(y)
        PROVE  Queued(y)' \/ Undecided(y)'
    <3>1. PICK i \in 1 .. Len(incoming) : incoming[i].addr = y
      BY <2>6 DEF Queued
    <3>2. CASE i = 1
      BY <2>4, <3>1, <3>2, SMTT(30) DEF Undecided
    <3>3. CASE i # 1
      <4>1. i - 1 \in 1 .. Len(incoming') /\ incoming'[i - 1] = incoming[i]
        BY <2>3, <3>3, SMTT(30)
      <4> QED
        BY <3>1, <4>1 DEF Queued
    <3> QED
      BY <3>2, <3>3
  <2> QED
    BY <1>1, <2>1, <2>2, <2>5, <2>6
<1>7. ASSUME NEW i \in 1 .. Len(held), held' = LeaveOut(held, i), UNCHANGED incoming,
             pending[y] # None, y # held[i].addr, y \in dropped => y \in dropped'
      PROVE  Queued(y)' \/ Undecided(y)' \/ y \in dropped'
  BY <1>1, <1>7, UndecidedStays DEF Queued
<1>8. ASSUME NEW i \in 1 .. Len(held), AcceptRequest(i) \/ RejectRequest(i)
      PROVE  Queued(y)' \/ Undecided(y)' \/ y \in dropped'
  <2> DEFINE x == held[i].addr
  <2>1. held' = LeaveOut(held, i) /\ UNCHANGED incoming
    BY <1>8 DEF AcceptRequest, RejectRequest
  <2>2. CASE pending[x] = None
    <3>1. UNCHANGED <<pending, dropped>>
      BY <1>8, <2>2 DEF AcceptRequest, RejectRequest
    <3> QED
      BY <1>7, <2>1, <2>2, <3>1
  <2>3. CASE pending[x] # None
    <3>1. pending' = [pending EXCEPT ![x] = None] /\ dropped' = dropped \ {x}
      BY <1>8, <2>3 DEF AcceptRequest, RejectRequest, Unpark
    <3>2. y # x /\ pending[y] # None
      BY <3>1 DEF ListenerTyped
    <3> QED
      BY <1>7, <2>1, <3>1, <3>2
  <2> QED
    BY <2>2, <2>3
<1>9. ASSUME NEW i \in 1 .. Len(held), DropRequest(i)
      PROVE  Queued(y)' \/ Undecided(y)' \/ y \in dropped'
  <2>1. /\ held' = LeaveOut(held, i) /\ UNCHANGED <<pending, incoming>>
        /\ dropped' = dropped \cup {x \in {held[i].addr} : pending[x] # None}
    BY <1>9 DEF DropRequest, listener
  <2> QED
    BY <1>7, <2>1
<1>10. ASSUME \/ \E id \in 1 .. Len(acceptor) : AcceptorEnds(id)
              \/ \E x \in Addresses : PendingAges(x)
              \/ MinutePasses
              \/ Lose
       PROVE  UNCHANGED <<pending, application>>
  BY <1>10 DEF AcceptorEnds, PendingAges, MinutePasses, Lose, listener
<1> QED
  BY <1>2, <1>3, <1>4, <1>5, <1>6, <1>8, <1>9, <1>10 DEF Next, App, listener

(* No caller is forgotten, whatever the backlog, the number of addresses   *)
(* and the order in which conclusions arrive, are refreshed, expire,       *)
(* return, and are decided or dropped.                                     *)
THEOREM ParkedAlwaysSurfaced == Spec => []ParkedIsSurfaced
<1>1. Init => ParkedIsSurfaced
  BY DEF Init, ParkedIsSurfaced
<1> QED
  BY <1>1, SurfacedStep, TypeInvHolds, PTL DEF Spec
-----------------------------------------------------------------------------
(* Where everything comes from.                                            *)

\* Connections are only added, and keep what they were made of.
Grown ==
    /\ Len(acceptor) <= Len(acceptor')
    /\ \A id \in 1 .. Len(acceptor) : SameOrigin(acceptor'[id], acceptor[id])

(* What is known of the connections that exist stays true of them.         *)
LEMMA GrownFrame ==
    ASSUME TypeInv, Grown, Len(acceptor') \in Nat
    PROVE  /\ \A id \in 1 .. Len(acceptor) :
                 /\ id \in 1 .. Len(acceptor')
                 /\ acceptor'[id].conclusion = acceptor[id].conclusion
                 /\ AttemptOf(id)' = AttemptOf(id)
           /\ DatagramsOrigin /\ to_listener' \subseteq to_listener => DatagramsOrigin'
           /\ AnswersOrigin /\ to_caller' \subseteq to_caller => AnswersOrigin'
           /\ PeersOrigin /\ UNCHANGED caller => PeersOrigin'
<1>1. Len(acceptor) \in Nat
  BY SMTT(30) DEF TypeInv, MapsTyped
<1>2. \A id \in 1 .. Len(acceptor) :
         /\ id \in 1 .. Len(acceptor')
         /\ acceptor'[id].conclusion = acceptor[id].conclusion
         /\ AttemptOf(id)' = AttemptOf(id)
  BY <1>1, SMTT(30) DEF Grown, SameOrigin, AttemptOf
<1>3. DatagramsOrigin /\ to_listener' \subseteq to_listener => DatagramsOrigin'
  BY <1>2 DEF DatagramsOrigin, Owns
<1>4. AnswersOrigin /\ to_caller' \subseteq to_caller => AnswersOrigin'
  BY <1>2 DEF AnswersOrigin, Owns
<1>5. PeersOrigin /\ UNCHANGED caller => PeersOrigin'
  BY <1>2, SMTT(30) DEF PeersOrigin, Established
<1> QED
  BY <1>2, <1>3, <1>4, <1>5

(* The initial state has nothing whose origin is unknown.                  *)
LEMMA OriginInit == Init => OriginInv
<1> SUFFICES ASSUME Init PROVE OriginInv
  OBVIOUS
<1>1. \A a \in Attempts : ~ Connecting(a) /\ ~ Established(a) /\ addr[a] = SourceAddr[a]
  BY DEF Init, NewCaller, Connecting, Established
<1>2. CallersOrigin /\ PeersOrigin
  BY <1>1 DEF CallersOrigin, PeersOrigin, Owns
<1>3. ParkedOrigin
  BY DEF Init, ParkedOrigin
<1>4. DatagramsOrigin /\ AcceptorsOrigin /\ AnswersOrigin
  BY SMTT(30) DEF Init, DatagramsOrigin, AcceptorsOrigin, AnswersOrigin
<1> QED
  BY <1>2, <1>3, <1>4 DEF OriginInv

(* What does not read a part of the state.                                 *)
LEMMA OriginFrame ==
    /\ CallersOrigin /\ UNCHANGED callers => CallersOrigin'
    /\ DatagramsOrigin /\ UNCHANGED acceptor /\ to_listener' \subseteq to_listener
          => DatagramsOrigin'
    /\ ParkedOrigin /\ UNCHANGED pending => ParkedOrigin'
    /\ AcceptorsOrigin /\ UNCHANGED acceptor => AcceptorsOrigin'
    /\ AnswersOrigin /\ UNCHANGED acceptor /\ to_caller' \subseteq to_caller
          => AnswersOrigin'
    /\ PeersOrigin /\ UNCHANGED <<acceptor, caller>> => PeersOrigin'
<1>1. CallersOrigin /\ UNCHANGED callers => CallersOrigin'
  BY DEF CallersOrigin, callers, Owns, Established, Connecting
<1>2. DatagramsOrigin /\ UNCHANGED acceptor /\ to_listener' \subseteq to_listener
         => DatagramsOrigin'
  BY DEF DatagramsOrigin, Owns, AttemptOf
<1>3. ParkedOrigin /\ UNCHANGED pending => ParkedOrigin'
  BY DEF ParkedOrigin, Owns
<1>4. AcceptorsOrigin /\ UNCHANGED acceptor => AcceptorsOrigin'
  BY DEF AcceptorsOrigin, Owns, AttemptOf
<1>5. AnswersOrigin /\ UNCHANGED acceptor /\ to_caller' \subseteq to_caller
         => AnswersOrigin'
  BY DEF AnswersOrigin, Owns, AttemptOf
<1>6. PeersOrigin /\ UNCHANGED <<acceptor, caller>> => PeersOrigin'
  BY DEF PeersOrigin, Established, AttemptOf
<1> QED
  BY <1>1, <1>2, <1>3, <1>4, <1>5, <1>6

(* A handshake leaves from an address of its attempt.                      *)
LEMMA EmitOrigin ==
    ASSUME TypeInv, OriginInv, NEW a \in Attempts, NEW state \in {"Induction", "Conclusion"},
           NEW hs \in HandshakeMessage, hs.attempt = a, EmitHandshake(a, state, hs),
           UNCHANGED <<addr, acceptor>>
    PROVE  CallersOrigin' /\ DatagramsOrigin' /\ PeersOrigin'
<1>1. /\ caller'[a].state = state /\ caller'[a].last_handshake = hs
      /\ \A b \in Attempts : b # a => caller'[b] = caller[b]
  BY EmitTyped, SMTT(30) DEF TypeInv
<1>2. Owns(a, addr[a])
  BY DEF OriginInv, CallersOrigin
<1>3. CallersOrigin'
  BY <1>1, SMTT(30) DEF OriginInv, CallersOrigin, Owns, Connecting
<1>4. PeersOrigin'
  BY <1>1, SMTT(30) DEF OriginInv, PeersOrigin, Established, AttemptOf
<1>5. to_listener' = to_listener \cup {[from |-> addr[a], msg |-> hs]}
  BY DEF EmitHandshake, From
<1>6. hs \notin NamingMessage
  BY ListenerMessages
<1>7. DatagramsOrigin'
  <2> SUFFICES ASSUME NEW d \in to_listener'
               PROVE  /\ d.msg \in HandshakeMessage => Owns(d.msg.attempt, d.from)
                      /\ d.msg \in NamingMessage =>
                            /\ d.msg.dest \in 1 .. Len(acceptor)
                            /\ Owns(AttemptOf(d.msg.dest), d.from)
    BY DEF DatagramsOrigin, AttemptOf, Owns
  <2>1. CASE d \in to_listener
    BY <2>1 DEF OriginInv, DatagramsOrigin
  <2>2. CASE d = [from |-> addr[a], msg |-> hs]
    BY <1>2, <1>6, <2>2
  <2> QED
    BY <1>5, <2>1, <2>2
<1> QED
  BY <1>3, <1>4, <1>7

(* A caller's step.  It takes the answer of a connection made for it,      *)
(* since no other answer is sent to an address it may have.                *)
LEMMA CallerOrigin ==
    ASSUME DistinctAddresses, TypeInv, OriginInv, NEW a \in Attempts, Caller(a)
    PROVE  OriginInv'
<1> USE DEF OriginInv
<1>1. CASE Connect(a)
  <2>1. Induction(a) \in HandshakeMessage /\ Induction(a).attempt = a
    BY DEF HandshakeMessage, Induction
  <2>2. CallersOrigin' /\ DatagramsOrigin' /\ PeersOrigin'
    BY <1>1, <2>1, EmitOrigin DEF Connect, demux
  <2> QED
    BY <1>1, <2>2, OriginFrame DEF Connect, demux, listener
<1>2. CASE CallerReceives(a)
  <2>1. PICK d \in to_caller :
           /\ d.to = addr[a]
           /\ to_caller' = to_caller \ {d}
           /\ \/ d.msg.type = "Rejection" /\ OnRejection(a)
              \/ OnInductionResponse(a, d.msg)
              \/ OnConclusionResponse(a, d.msg)
              \/ UNCHANGED <<caller, to_listener>>
    BY <1>2 DEF CallerReceives
  <2>2. UNCHANGED <<addr, acceptor, pending>>
    BY <1>2 DEF CallerReceives, listener, demux
  <2>3. ParkedOrigin' /\ AcceptorsOrigin' /\ AnswersOrigin'
    BY <2>1, <2>2, OriginFrame
  <2>4. CASE UNCHANGED <<caller, to_listener>>
    BY <2>2, <2>3, <2>4, OriginFrame DEF callers
  <2>5. CASE OnRejection(a)
    <3>1. /\ caller'[a].state = "Rejected" /\ ~ Established(a)
          /\ \A b \in Attempts : b # a => caller'[b] = caller[b]
          /\ UNCHANGED to_listener
      BY <2>5 DEF OnRejection, TypeInv, CallersTyped, CallerRecord, Connecting,
         Established
    <3>2. CallersOrigin'
      BY <2>2, <3>1 DEF CallersOrigin, Owns, Established, Connecting
    <3>3. PeersOrigin'
      BY <2>2, <3>1 DEF PeersOrigin, Established, AttemptOf
    <3> QED
      BY <2>2, <2>3, <3>1, <3>2, <3>3, OriginFrame
  <2>6. CASE OnInductionResponse(a, d.msg)
    <3>1. d.msg \in AnswerMessage
      BY DEF TypeInv, NetworkTyped
    <3>2. PICK p \in Passphrases :
             EmitHandshake(a, "Conclusion", Conclusion(a, d.msg.cookie, p))
      BY <2>6 DEF OnInductionResponse
    <3>3. /\ Conclusion(a, d.msg.cookie, p) \in HandshakeMessage
          /\ Conclusion(a, d.msg.cookie, p).attempt = a
      BY <2>6, <3>1, AnswerFields, SMTT(30) DEF OnInductionResponse, HandshakeMessage,
         Conclusion, ConclusionMessage
    <3>4. CallersOrigin' /\ DatagramsOrigin' /\ PeersOrigin'
      BY <2>2, <3>2, <3>3, EmitOrigin
    <3> QED
      BY <2>3, <3>4
  <2>7. CASE OnConclusionResponse(a, d.msg)
    <3> DEFINE id == d.msg.id
    <3>1. /\ caller'[a].state = "Connected" /\ ~ Established(a)
          /\ caller'[a].peer = id /\ caller'[a].peer_isn = d.msg.attempt
          /\ caller'[a].latency = Negotiate(Latency[a], d.msg)
          /\ \A b \in Attempts : b # a => caller'[b] = caller[b]
          /\ UNCHANGED to_listener
      BY <2>7, SMTT(30) DEF OnConclusionResponse, TypeInv, CallersTyped, CallerRecord,
         Established
    <3>2. /\ id \in 1 .. Len(acceptor)
          /\ d.msg = ConclusionResponse(id, acceptor[id].conclusion)
          /\ Owns(AttemptOf(id), d.to)
      BY <2>7 DEF AnswersOrigin, OnConclusionResponse
    <3>3. d.msg.attempt = AttemptOf(id)
      BY <3>2, SMTT(30) DEF ConclusionResponse, AttemptOf
    <3>4. d.msg.attempt \in Attempts
      BY <2>7, AnswerFields DEF OnConclusionResponse, TypeInv, NetworkTyped
    <3>5. Owns(a, d.to) /\ d.to \in Addresses
      BY <2>1 DEF CallersOrigin, TypeInv, CallersTyped
    <3>6. AttemptOf(id) = a
      BY <3>2, <3>3, <3>4, <3>5 DEF DistinctAddresses
    <3>7. CallersOrigin'
      BY <2>2, <3>1 DEF CallersOrigin, Owns, Established, Connecting
    <3>8. PeersOrigin'
      <4> SUFFICES ASSUME NEW b \in Attempts, Established(b)'
                   PROVE  /\ caller'[b].peer \in 1 .. Len(acceptor)
                          /\ caller'[b].peer_isn = b
                          /\ AttemptOf(caller'[b].peer) = b
                          /\ caller'[b].latency =
                                Negotiate(Latency[b],
                                          ConclusionResponse(caller'[b].peer,
                                             acceptor[caller'[b].peer].conclusion))
        BY <2>2 DEF PeersOrigin, AttemptOf
      <4>1. CASE b = a
        BY <3>1, <3>2, <3>3, <3>6, <4>1
      <4>2. CASE b # a
        BY <3>1, <4>2 DEF PeersOrigin, Established
      <4> QED
        BY <4>1, <4>2
    <3> QED
      BY <2>2, <2>3, <3>1, <3>7, <3>8, OriginFrame
  <2> QED
    BY <2>1, <2>4, <2>5, <2>6, <2>7
<1>3. ASSUME NEW d, to_listener' \subseteq to_listener \cup {d}, UNCHANGED acceptor,
             d.msg \in HandshakeMessage => Owns(d.msg.attempt, d.from),
             d.msg \in NamingMessage => /\ d.msg.dest \in 1 .. Len(acceptor)
                                        /\ Owns(AttemptOf(d.msg.dest), d.from)
      PROVE  DatagramsOrigin'
  BY <1>3 DEF DatagramsOrigin, Owns, AttemptOf
<1>4. CASE HandshakeTimer(a)
  <2> DEFINE hs == caller[a].last_handshake
             d == [from |-> addr[a], msg |-> hs]
  <2>1. hs \in HandshakeMessage /\ hs.attempt = a /\ Owns(a, addr[a])
    BY <1>4 DEF HandshakeTimer, TypeInv, CallersTyped, CallersOrigin
  <2>2. hs \notin NamingMessage
    BY <2>1, ListenerMessages
  <2>3. to_listener' = to_listener \cup {d} /\ UNCHANGED acceptor
    BY <1>4 DEF HandshakeTimer, From, demux
  <2>4. d.msg = hs /\ d.from = addr[a]
    OBVIOUS
  <2> HIDE DEF hs, d
  <2>5. DatagramsOrigin'
    BY <1>3, <2>1, <2>2, <2>3, <2>4
  <2> QED
    BY <1>4, <2>5, OriginFrame DEF HandshakeTimer, callers, demux, listener
<1>5. ASSUME Established(a), NEW m \in {Traffic(caller[a].peer), Shutdown(caller[a].peer)},
             to_listener' \subseteq to_listener \cup {From(a, m)}, UNCHANGED acceptor
      PROVE  DatagramsOrigin'
  <2> DEFINE d == [from |-> addr[a], msg |-> m]
  <2>1. /\ caller[a].peer \in Id /\ caller[a].peer \in 1 .. Len(acceptor)
        /\ AttemptOf(caller[a].peer) = a /\ Owns(a, addr[a])
    BY <1>5 DEF TypeInv, CallersTyped, PeersOrigin, CallersOrigin
  <2>2. m \in NamingMessage /\ m.dest = caller[a].peer
    BY <1>5, <2>1, SMTT(30) DEF NamingMessage, Traffic, Shutdown
  <2>3. m \notin HandshakeMessage
    BY <2>2, ListenerMessages
  <2>4. to_listener' \subseteq to_listener \cup {d} /\ d.msg = m /\ d.from = addr[a]
    BY <1>5 DEF From
  <2> HIDE DEF d
  <2> QED
    BY <1>3, <1>5, <2>1, <2>2, <2>3, <2>4
<1>6. CASE CallerSends(a)
  <2>1. DatagramsOrigin'
    BY <1>5, <1>6 DEF CallerSends, Established, demux
  <2> QED
    BY <1>6, <2>1, OriginFrame DEF CallerSends, callers, demux, listener
<1>7. ASSUME caller'[a].state \in {"TimedOut", "Ended"},
             \A b \in Attempts : b # a => caller'[b] = caller[b],
             UNCHANGED <<addr, acceptor>>
      PROVE  CallersOrigin' /\ PeersOrigin'
  <2>1. CallersOrigin'
    BY <1>7 DEF CallersOrigin, Owns, Connecting
  <2>2. PeersOrigin'
    BY <1>7, SMTT(30) DEF PeersOrigin, Established, AttemptOf
  <2> QED
    BY <2>1, <2>2
<1>8. CASE ConnectTimeout(a)
  <2>1. /\ caller'[a].state = "TimedOut"
        /\ \A b \in Attempts : b # a => caller'[b] = caller[b]
    BY <1>8 DEF ConnectTimeout, TypeInv, CallersTyped, CallerRecord
  <2>2. CallersOrigin' /\ PeersOrigin'
    BY <1>7, <1>8, <2>1 DEF ConnectTimeout, demux
  <2> QED
    BY <1>8, <2>2, OriginFrame DEF ConnectTimeout, demux, listener
<1>9. CASE CallerEnds(a)
  <2>1. /\ Established(a) /\ caller'[a].state = "Ended"
        /\ \A b \in Attempts : b # a => caller'[b] = caller[b]
    BY <1>9 DEF CallerEnds, TypeInv, CallersTyped, CallerRecord, Established
  <2>2. CallersOrigin' /\ PeersOrigin'
    BY <1>7, <1>9, <2>1 DEF CallerEnds, demux
  <2>3. to_listener' \subseteq to_listener \cup {From(a, Shutdown(caller[a].peer))}
    BY <1>9 DEF CallerEnds
  <2>4. DatagramsOrigin'
    BY <1>5, <1>9, <2>1, <2>3 DEF CallerEnds, demux
  <2> QED
    BY <1>9, <2>2, <2>4, OriginFrame DEF CallerEnds, demux, listener
<1>10. CASE Rebind(a)
  <2>1. PICK x \in NatAddresses[a] : addr' = [addr EXCEPT ![a] = x]
    BY <1>10 DEF Rebind
  <2>2. Owns(a, x) /\ UNCHANGED caller
    BY <1>10 DEF Owns, Rebind
  <2>3. \A b \in Attempts : addr'[b] = IF b = a THEN x ELSE addr[b]
    BY <2>1 DEF TypeInv, CallersTyped
  <2>4. CallersOrigin'
    BY <2>2, <2>3 DEF CallersOrigin, Owns, Connecting
  <2> QED
    BY <1>10, <2>4, OriginFrame DEF Rebind, demux, listener
<1>11. CASE CallerCancels(a)
  <2>1. /\ caller'[a].state = "Ended"
        /\ \A b \in Attempts : b # a => caller'[b] = caller[b]
    BY <1>11 DEF CallerCancels, TypeInv, CallersTyped, CallerRecord
  <2>2. CallersOrigin' /\ PeersOrigin'
    BY <1>7, <1>11, <2>1 DEF CallerCancels, demux
  <2> QED
    BY <1>11, <2>2, OriginFrame DEF CallerCancels, demux, listener
<1> QED
  BY <1>1, <1>2, <1>4, <1>6, <1>8, <1>9, <1>10, <1>11 DEF Caller

(* A connection that answers again answers the address its driver has.     *)
LEMMA ForwardOrigin ==
    ASSUME TypeInv, OriginInv,
           NEW q \in Seq(AcceptorRecord), Len(q) = Len(acceptor),
           \A j \in 1 .. Len(q) :
              SameOrigin(q[j], acceptor[j]) /\ Owns(AttemptOf(j), q[j].peer),
           NEW id \in 1 .. Len(q), NEW m, Forward(id, q, m)
    PROVE  Grown /\ Len(acceptor') \in Nat /\ AcceptorsOrigin' /\ AnswersOrigin'
<1>1. Len(acceptor) \in Nat /\ id \in Id /\ NetworkTyped
  BY EndpointAssumption, SMTT(30) DEF TypeInv, MapsTyped, Id
<1>2. /\ Len(acceptor') = Len(q)
      /\ \A j \in 1 .. Len(q) :
            SameOrigin(acceptor'[j], q[j]) /\ acceptor'[j].peer = q[j].peer
      /\ \/ to_caller' = to_caller
         \/ Respond(q[id].peer, ConclusionResponse(id, q[id].conclusion))
  BY <1>1, Forwarded
<1>3. \A j \in 1 .. Len(acceptor) : SameOrigin(acceptor'[j], acceptor[j])
  BY <1>2 DEF SameOrigin
<1>4. Grown /\ Len(acceptor') \in Nat
  BY <1>1, <1>2, <1>3, SMTT(30) DEF Grown
<1>5. AcceptorsOrigin'
  BY <1>2, <1>3, SMTT(30) DEF OriginInv, AcceptorsOrigin, SameOrigin, AttemptOf, Owns
<1>6. AnswersOrigin'
  <2>1. CASE to_caller' = to_caller
    BY <1>4, <2>1, GrownFrame DEF OriginInv
  <2>2. CASE Respond(q[id].peer, ConclusionResponse(id, q[id].conclusion))
    <3>1. to_caller' = to_caller \cup
                         {[to |-> q[id].peer,
                           msg |-> ConclusionResponse(id, acceptor'[id].conclusion)]}
      BY <1>2, <2>2 DEF Respond, To, SameOrigin
    <3>2. ConclusionResponse(id, acceptor'[id].conclusion).id = id
      BY DEF ConclusionResponse
    <3>3. Owns(AttemptOf(id)', q[id].peer)
      BY <1>3 DEF SameOrigin, AttemptOf
    <3>4. \A j \in 1 .. Len(acceptor) :
             /\ j \in 1 .. Len(acceptor')
             /\ acceptor'[j].conclusion = acceptor[j].conclusion
             /\ AttemptOf(j)' = AttemptOf(j)
      BY <1>4, GrownFrame
    <3> SUFFICES ASSUME NEW d \in to_caller', d.msg.type = "ConclusionResponse"
                 PROVE  /\ d.msg.id \in 1 .. Len(acceptor')
                        /\ d.msg = ConclusionResponse(d.msg.id,
                                                      acceptor'[d.msg.id].conclusion)
                        /\ Owns(AttemptOf(d.msg.id)', d.to)
      BY DEF AnswersOrigin, Owns, AttemptOf
    <3>5. CASE d \in to_caller
      BY <3>4, <3>5 DEF OriginInv, AnswersOrigin
    <3>6. CASE d = [to |-> q[id].peer,
                    msg |-> ConclusionResponse(id, acceptor'[id].conclusion)]
      BY <1>2, <3>2, <3>3, <3>6
    <3> QED
      BY <3>1, <3>5, <3>6
  <2> QED
    BY <1>2, <2>1, <2>2
<1> QED
  BY <1>4, <1>5, <1>6

(* A new connection answers the address its conclusion came from.          *)
LEMMA SpawnOrigin ==
    ASSUME TypeInv, OriginInv, NEW x \in Addresses, NEW m \in ConclusionMessage,
           NEW stream_id \in Attempts, Owns(m.attempt, x), SpawnAccepted(x, m, stream_id)
    PROVE  Grown /\ Len(acceptor') \in Nat /\ AcceptorsOrigin' /\ AnswersOrigin'
<1> DEFINE id == Len(acceptor) + 1
           r == Accept(x, m, stream_id)
<1>1. Len(acceptor) \in Nat
  BY SMTT(30) DEF TypeInv, MapsTyped
<1>2. /\ Len(acceptor') = id
      /\ \A j \in 1 .. Len(acceptor) : acceptor'[j] = acceptor[j]
      /\ acceptor'[id] = r
  BY <1>1, Spawned
<1>3. /\ r.conclusion = m /\ r.peer = x
      /\ r.latency = Negotiate(ListenerLatency, m)
  BY DEF Accept
<1>4. to_caller' = to_caller \cup {[to |-> x, msg |-> ConclusionResponse(id, m)]}
  BY DEF SpawnAccepted, Respond, To
<1>5. ConclusionResponse(id, m).id = id
  BY DEF ConclusionResponse
<1> HIDE DEF r
<1>6. Grown /\ Len(acceptor') \in Nat
  BY <1>1, <1>2, SMTT(30) DEF Grown, SameOrigin
<1>7. AcceptorsOrigin'
  <2> SUFFICES ASSUME NEW j \in 1 .. Len(acceptor')
               PROVE  /\ Owns(acceptor'[j].conclusion.attempt, acceptor'[j].peer)
                      /\ acceptor'[j].latency =
                            Negotiate(ListenerLatency, acceptor'[j].conclusion)
    BY DEF AcceptorsOrigin, AttemptOf, Owns
  <2>1. CASE j = id
    BY <1>2, <1>3, <2>1
  <2>2. CASE j # id
    BY <1>1, <1>2, <2>2, SMTT(30) DEF OriginInv, AcceptorsOrigin, AttemptOf
  <2> QED
    BY <2>1, <2>2
<1>8. AnswersOrigin'
  <2> SUFFICES ASSUME NEW d \in to_caller', d.msg.type = "ConclusionResponse"
               PROVE  /\ d.msg.id \in 1 .. Len(acceptor')
                      /\ d.msg = ConclusionResponse(d.msg.id,
                                                    acceptor'[d.msg.id].conclusion)
                      /\ Owns(AttemptOf(d.msg.id)', d.to)
    BY DEF AnswersOrigin, Owns, AttemptOf
  <2>1. CASE d \in to_caller
    <3>1. \A j \in 1 .. Len(acceptor) :
             /\ j \in 1 .. Len(acceptor')
             /\ acceptor'[j].conclusion = acceptor[j].conclusion
             /\ AttemptOf(j)' = AttemptOf(j)
      BY <1>6, GrownFrame
    <3> QED
      BY <2>1, <3>1 DEF OriginInv, AnswersOrigin
  <2>2. CASE d = [to |-> x, msg |-> ConclusionResponse(id, m)]
    <3>1. d.msg.id = id /\ d.msg = ConclusionResponse(id, m) /\ d.to = x
      BY <1>5, <2>2
    <3>2. acceptor'[d.msg.id].conclusion = m /\ d.msg.id \in 1 .. Len(acceptor')
      BY <1>1, <1>2, <1>3, <3>1, SMTT(30)
    <3> QED
      BY <3>1, <3>2 DEF AttemptOf
  <2> QED
    BY <1>4, <2>1, <2>2
<1> QED
  BY <1>6, <1>7, <1>8

(* One turn of drive_endpoint().                                           *)
LEMMA EndpointOrigin ==
    ASSUME TypeInv, OriginInv, NEW d \in to_listener, EndpointReceives(d)
    PROVE  OriginInv'
<1> DEFINE x == d.from
           m == d.msg
<1> USE DEF OriginInv
<1>1. x \in Addresses /\ m \in HandshakeMessage \cup NamingMessage
  BY DEF TypeInv, NetworkTyped
<1>2. to_listener' \subseteq to_listener /\ UNCHANGED callers
  BY DEF EndpointReceives
<1>3. Len(acceptor) \in Nat /\ acceptor \in Seq(AcceptorRecord)
  BY SMTT(30) DEF TypeInv, MapsTyped
<1>4. /\ m.type = "Conclusion" => m \in ConclusionMessage /\ Owns(m.attempt, x)
      /\ DestSocketId(m) \in 1 .. Len(acceptor) => Owns(AttemptOf(DestSocketId(m)), x)
  <2>1. CASE m \in HandshakeMessage
    BY <1>1, <1>3, <2>1, ListenerMessages, SMTT(30) DEF DatagramsOrigin
  <2>2. CASE m \in NamingMessage
    BY <1>1, <2>2, ListenerMessages DEF DatagramsOrigin
  <2> QED
    BY <1>1, <2>1, <2>2
<1> HIDE DEF x, m
<1>5. ASSUME Grown, Len(acceptor') \in Nat, ParkedOrigin', AcceptorsOrigin', AnswersOrigin'
      PROVE  OriginInv'
  BY <1>2, <1>5, GrownFrame, OriginFrame DEF callers
<1>6. ASSUME UNCHANGED acceptor
      PROVE  Grown /\ Len(acceptor') \in Nat /\ AcceptorsOrigin'
  BY <1>3, <1>6, OriginFrame, SMTT(30) DEF Grown, SameOrigin
<1>7. CASE FromKnown(x, m)
  <2> DEFINE id == connections[x]
  <2>1. id \in 1 .. Len(acceptor)
    BY <1>1, <1>7 DEF FromKnown, TypeInv, MapsTyped
  <2>2. ParkedOrigin'
    BY <1>7, OriginFrame DEF FromKnown, listener
  <2>3. CASE acceptor[id].running
    <3>1. Forward(id, acceptor, m)
      BY <1>7, <2>3 DEF FromKnown
    <3>2. \A j \in 1 .. Len(acceptor) :
             SameOrigin(acceptor[j], acceptor[j]) /\ Owns(AttemptOf(j), acceptor[j].peer)
      BY DEF SameOrigin, AcceptorsOrigin
    <3> HIDE DEF id
    <3> QED
      BY <1>3, <1>5, <2>1, <2>2, <3>1, <3>2, ForwardOrigin
  <2>4. CASE ~ acceptor[id].running
    <3>1. UNCHANGED <<acceptor, to_caller>>
      BY <1>7, <2>4 DEF FromKnown
    <3> QED
      BY <1>5, <1>6, <2>2, <3>1, OriginFrame
  <2> QED
    BY <2>3, <2>4
<1>8. CASE FromRebound(x, m)
  <2> DEFINE id == DestSocketId(m)
             q == PinAt(acceptor, id, x)
  <2>1. id \in 1 .. Len(acceptor)
    BY <1>8 DEF FromRebound, TypeInv, MapsTyped
  <2>2. ParkedOrigin'
    BY <1>8, OriginFrame DEF FromRebound, listener
  <2>3. CASE acceptor[id].running
    <3>1. Forward(id, q, m)
      BY <1>8, <2>3 DEF FromRebound, PinAt
    <3>2. Owns(AttemptOf(id), x)
      BY <1>4, <2>1
    <3> HIDE DEF id
    <3>3. /\ q \in Seq(AcceptorRecord) /\ Len(q) = Len(acceptor)
          /\ \A j \in 1 .. Len(acceptor) :
                /\ SameOrigin(q[j], acceptor[j])
                /\ q[j].peer = IF j = id THEN x ELSE acceptor[j].peer
      <4>1. x \in Addresses /\ acceptor \in Seq(AcceptorRecord) /\ id \in 1 .. Len(acceptor)
        BY <1>1, <1>3, <2>1
      <4>2. IsPinned(q, acceptor, id, x)
        BY <4>1, Repinned
      <4> HIDE DEF q
      <4> QED
        BY <4>2 DEF IsPinned
    <3> HIDE DEF q
    <3>4. \A j \in 1 .. Len(q) :
             SameOrigin(q[j], acceptor[j]) /\ Owns(AttemptOf(j), q[j].peer)
      BY <3>2, <3>3 DEF AcceptorsOrigin
    <3> QED
      BY <1>5, <2>1, <2>2, <3>1, <3>3, <3>4, ForwardOrigin
  <2>4. CASE ~ acceptor[id].running
    <3>1. UNCHANGED <<acceptor, to_caller>>
      BY <1>8, <2>4 DEF FromRebound
    <3> QED
      BY <1>5, <1>6, <2>2, <3>1, OriginFrame
  <2> QED
    BY <2>3, <2>4
<1>9. ASSUME pending' = Unexpired
      PROVE  ParkedOrigin'
  BY <1>9, UnexpiredTyped DEF ParkedOrigin, Owns, TypeInv
<1>10. ASSUME NEW answer, answer.type # "ConclusionResponse", Respond(x, answer),
              UNCHANGED acceptor
       PROVE  AnswersOrigin'
  BY <1>10, SMTT(30) DEF Respond, To, AnswersOrigin, AttemptOf, Owns
<1>11. ASSUME NEW reason
       PROVE  Rejection(reason).type # "ConclusionResponse"
  BY DEF Rejection
<1>12. CASE OnInduction(x, m)
  <2>1. InductionResponse(<<x, minute>>).type # "ConclusionResponse"
    BY DEF InductionResponse
  <2>2. AnswersOrigin'
    BY <1>10, <1>12, <2>1 DEF OnInduction, demux
  <2> QED
    BY <1>5, <1>6, <1>9, <1>12, <2>2 DEF OnInduction, demux
<1>13. CASE OnDropped(x, m)
  BY <1>5, <1>6, <1>9, <1>13, OriginFrame DEF OnDropped, demux
<1>14. CASE OnDoomedConclusion(x, m)
  <2>1. AnswersOrigin'
    BY <1>10, <1>11, <1>14 DEF OnDoomedConclusion, demux
  <2> QED
    BY <1>5, <1>6, <1>9, <1>14, <2>1 DEF OnDoomedConclusion, demux
<1>15. CASE ParkConclusion(x, m)
  <2>1. m \in ConclusionMessage /\ Owns(m.attempt, x) /\ m.attempt \in Attempts
    BY <1>4, <1>15, ConclusionFields DEF ParkConclusion
  <2>2. ASSUME pending' = [Unexpired EXCEPT ![x] = m], UNCHANGED <<demux, to_caller>>
        PROVE  OriginInv'
    <3>1. \A y \in Addresses : pending'[y] = IF y = x THEN m ELSE Unexpired[y]
      BY <2>2, UnexpiredTyped DEF TypeInv
    <3>2. \A y \in Addresses : Unexpired[y] # None => Owns(Unexpired[y].attempt, y)
      BY UnexpiredTyped DEF TypeInv, ParkedOrigin
    <3>3. ParkedOrigin'
      BY <2>1, <3>1, <3>2 DEF ParkedOrigin, Owns
    <3> QED
      BY <1>5, <1>6, <2>2, <3>3, OriginFrame DEF demux
  <2>3. CASE /\ Respond(x, Rejection("Backlog"))
             /\ pending' = Unexpired
             /\ UNCHANGED demux
    <3>1. AnswersOrigin'
      BY <1>10, <1>11, <2>3 DEF demux
    <3> QED
      BY <1>5, <1>6, <1>9, <2>3, <3>1 DEF demux
  <2>4. CASE SpawnAccepted(x, m, m.attempt) /\ pending' = Unexpired
    BY <1>1, <1>5, <1>9, <2>1, <2>4, SpawnOrigin
  <2> QED
    BY <1>15, <2>2, <2>3, <2>4 DEF ParkConclusion, SurfaceRequest
<1> QED
  BY <1>7, <1>8, <1>12, <1>13, <1>14, <1>15 DEF EndpointReceives, x, m

(* A conclusion is accepted under the address it was parked under.         *)
LEMMA AppOrigin ==
    ASSUME TypeInv, OriginInv, App
    PROVE  OriginInv'
<1> USE DEF OriginInv
<1>1. Len(acceptor) \in Nat
  BY SMTT(30) DEF TypeInv, MapsTyped
<1>2. ASSUME UNCHANGED acceptor
      PROVE  Grown /\ Len(acceptor') \in Nat /\ AcceptorsOrigin'
  BY <1>1, <1>2, OriginFrame, SMTT(30) DEF Grown, SameOrigin
<1>3. ASSUME Grown, Len(acceptor') \in Nat, ParkedOrigin', AcceptorsOrigin', AnswersOrigin',
             UNCHANGED <<callers, to_listener>>
      PROVE  OriginInv'
  BY <1>3, GrownFrame, OriginFrame DEF callers
<1>4. CASE TakeIncoming
  BY <1>2, <1>3, <1>4, OriginFrame DEF TakeIncoming, demux, listener
<1>5. ASSUME \A y \in Addresses : pending'[y] \in {pending[y], None}
      PROVE  ParkedOrigin'
  BY <1>5 DEF ParkedOrigin, Owns
<1>6. ASSUME NEW i \in 1 .. Len(held), AcceptRequest(i)
      PROVE  OriginInv'
  <2> DEFINE x == held[i].addr
             m == pending[x]
  <2>1. ParkedOrigin'
    <3>1. pending' = pending \/ pending' = [pending EXCEPT ![x] = None]
      BY <1>6 DEF AcceptRequest, Unpark, listener
    <3>2. \A y \in Addresses : pending'[y] \in {pending[y], None}
      BY <3>1 DEF TypeInv, ListenerTyped
    <3> QED
      BY <1>5, <3>2
  <2>2. CASE m = None
    BY <1>2, <1>3, <1>6, <2>1, <2>2, OriginFrame DEF AcceptRequest, demux
  <2>3. CASE m # None
    <3>1. x \in Addresses /\ held[i].stream_id \in Attempts
      <4>1. held[i] \in Request
        BY SMTT(30) DEF TypeInv, ApplicationTyped
      <4> QED
        BY <4>1 DEF Request
    <3>2. m \in ConclusionMessage /\ Owns(m.attempt, x)
      BY <2>3, <3>1 DEF TypeInv, ListenerTyped, ParkedOrigin
    <3>3. SpawnAccepted(x, m, held[i].stream_id) /\ UNCHANGED <<callers, to_listener>>
      BY <1>6, <2>3 DEF AcceptRequest
    <3>4. Grown /\ Len(acceptor') \in Nat /\ AcceptorsOrigin' /\ AnswersOrigin'
      <4> HIDE DEF x, m
      <4> QED
        BY <3>1, <3>2, <3>3, SpawnOrigin
    <3> QED
      BY <1>3, <2>1, <3>3, <3>4
  <2> QED
    BY <2>2, <2>3
<1>7. ASSUME NEW i \in 1 .. Len(held), RejectRequest(i)
      PROVE  OriginInv'
  <2>1. ParkedOrigin'
    <3>1. pending' = pending \/ pending' = [pending EXCEPT ![held[i].addr] = None]
      BY <1>7 DEF RejectRequest, Unpark
    <3>2. \A y \in Addresses : pending'[y] \in {pending[y], None}
      BY <3>1 DEF TypeInv, ListenerTyped
    <3> QED
      BY <1>5, <3>2
  <2>2. UNCHANGED <<acceptor, callers, to_listener>>
    BY <1>7 DEF RejectRequest, demux
  <2>3. \/ UNCHANGED to_caller
        \/ to_caller' = to_caller \cup
                           {[to |-> held[i].addr, msg |-> Rejection("Application")]}
    BY <1>7 DEF RejectRequest, Respond, To
  <2>4. Rejection("Application").type # "ConclusionResponse"
    BY DEF Rejection
  <2>5. AnswersOrigin'
    BY <2>2, <2>3, <2>4, SMTT(30) DEF AnswersOrigin, AttemptOf, Owns
  <2> QED
    BY <1>2, <1>3, <2>1, <2>2, <2>5
<1>8. ASSUME NEW i \in 1 .. Len(held), DropRequest(i)
      PROVE  OriginInv'
  BY <1>2, <1>3, <1>8, OriginFrame DEF DropRequest, demux, listener
<1> QED
  BY <1>4, <1>6, <1>7, <1>8 DEF App

(* A driver that ends keeps what it was made of and where it sends.        *)
LEMMA EndedFrame ==
    ASSUME TypeInv, NEW id \in 1 .. Len(acceptor), AcceptorEnds(id)
    PROVE  /\ Grown /\ Len(acceptor') = Len(acceptor) /\ Len(acceptor') \in Nat
           /\ \A j \in 1 .. Len(acceptor) :
                 /\ SameOrigin(acceptor'[j], acceptor[j])
                 /\ acceptor'[j].peer = acceptor[j].peer
                 /\ acceptor'[j].running <=> acceptor[j].running /\ j # id
<1>1. acceptor \in Seq(AcceptorRecord) /\ Len(acceptor) \in Nat
  BY SMTT(30) DEF TypeInv, MapsTyped
<1>2. acceptor' = StopAt(acceptor, id)
  BY DEF AcceptorEnds, StopAt
<1>3. /\ Len(acceptor') = Len(acceptor)
      /\ \A j \in 1 .. Len(acceptor) :
            /\ SameOrigin(acceptor'[j], acceptor[j])
            /\ acceptor'[j].peer = acceptor[j].peer
            /\ acceptor'[j].running <=> acceptor[j].running /\ j # id
  <2>1. IsStopped(acceptor', acceptor, id)
    BY <1>1, <1>2, Stopped
  <2> QED
    BY <2>1 DEF IsStopped
<1> QED
  BY <1>1, <1>3, SMTT(30) DEF Grown

(* Every step keeps what is in flight, parked and accepted traced to a     *)
(* caller.                                                                 *)
LEMMA OriginStep ==
    DistinctAddresses => (TypeInv /\ OriginInv /\ [Next]_vars => OriginInv')
<1> SUFFICES ASSUME DistinctAddresses, TypeInv, OriginInv, [Next]_vars
             PROVE  OriginInv'
  OBVIOUS
<1>1. ASSUME UNCHANGED <<callers, acceptor, pending>>, to_listener' \subseteq to_listener,
             to_caller' \subseteq to_caller
      PROVE  OriginInv'
  BY <1>1, OriginFrame DEF OriginInv, callers
<1>2. CASE UNCHANGED vars
  BY <1>1, <1>2 DEF vars, listener, demux
<1>3. ASSUME NEW id \in 1 .. Len(acceptor), AcceptorEnds(id)
      PROVE  OriginInv'
  <2>1. /\ Grown /\ Len(acceptor') = Len(acceptor) /\ Len(acceptor') \in Nat
        /\ \A j \in 1 .. Len(acceptor) :
              SameOrigin(acceptor'[j], acceptor[j]) /\ acceptor'[j].peer = acceptor[j].peer
    BY <1>3, EndedFrame
  <2>2. AcceptorsOrigin'
    BY <2>1, SMTT(30) DEF OriginInv, AcceptorsOrigin, SameOrigin, AttemptOf, Owns
  <2> QED
    BY <1>3, <2>1, <2>2, GrownFrame, OriginFrame DEF OriginInv, AcceptorEnds, listener,
       callers
<1>4. CASE (\E x \in Addresses : PendingAges(x)) \/ MinutePasses \/ Lose
  BY <1>1, <1>4 DEF PendingAges, MinutePasses, Lose, listener, demux
<1> QED
  BY <1>2, <1>3, <1>4, CallerOrigin, EndpointOrigin, AppOrigin DEF Next

(* When no two attempts share an address, everything is where it comes     *)
(* from.                                                                   *)
LEMMA OriginHolds == DistinctAddresses => (Spec => []OriginInv)
<1> SUFFICES ASSUME DistinctAddresses PROVE Spec => []OriginInv
  OBVIOUS
<1>1. TypeInv /\ OriginInv /\ [Next]_vars => OriginInv'
  BY OriginStep
<1> QED
  BY <1>1, OriginInit, TypeInvHolds, PTL DEF Spec

(* A connected caller has at the other end a connection made from its own  *)
(* conclusion: as long as no two calls of connect() ever have the same     *)
(* address, however many there are, wherever a NAT moves them, whatever    *)
(* the network repeats and reorders, and although a caller checks nothing  *)
(* in an answer but its kind.                                              *)
THEOREM ConnectedAlwaysUsable == DistinctAddresses => (Spec => []ConnectedIsUsable)
<1> SUFFICES ASSUME DistinctAddresses PROVE Spec => []ConnectedIsUsable
  OBVIOUS
<1>1. OriginInv => ConnectedIsUsable
  BY DEF OriginInv, PeersOrigin, ConnectedIsUsable, Established, AttemptOf
<1>2. Spec => []OriginInv
  BY OriginHolds
<1> QED
  BY <1>1, <1>2, PTL

(* Both ends use at least the larger advertised latency and, unless a      *)
(* configured latency is too large for its field, less than a millisecond  *)
(* more, whatever the latencies and the width of the field.                *)
THEOREM LatencyAlwaysAgreed == DistinctAddresses => (Spec => []LatencyAgreed)
<1> SUFFICES ASSUME DistinctAddresses PROVE Spec => []LatencyAgreed
  OBVIOUS
<1>1. TypeInv /\ OriginInv => LatencyAgreed
  <2> SUFFICES ASSUME TypeInv, OriginInv, NEW a \in Attempts, caller[a].state = "Connected"
               PROVE  LET advertised == MILLI * Larger(MillisU16(Latency[a]),
                                                       MillisU16(ListenerLatency))
                          used == {caller[a].latency, acceptor[caller[a].peer].latency}
                      IN  /\ \A latency \in used : latency >= advertised
                          /\ Larger(Latency[a], ListenerLatency) < MILLI * (MaxMillis + 1) =>
                                \A latency \in used : latency < advertised + MILLI
    BY DEF LatencyAgreed
  <2> DEFINE id == caller[a].peer
             m == acceptor[id].conclusion
             mine == Latency[a]
             its == ListenerLatency
             kept == acceptor[id].latency
             taken == caller[a].latency
             p == MILLI * MillisU16(mine)
             q == MILLI * MillisU16(its)
             r == MILLI * MillisU16(kept)
             top == MILLI * (MaxMillis + 1)
             advertised == MILLI * Larger(MillisU16(mine), MillisU16(its))
  <2>1. /\ id \in 1 .. Len(acceptor) /\ m.attempt = a
        /\ taken = Negotiate(mine, ConclusionResponse(id, m))
        /\ kept = Negotiate(its, m)
    BY DEF OriginInv, PeersOrigin, AcceptorsOrigin, Established, AttemptOf
  <2>2. m \in ConclusionMessage /\ kept \in Nat
    <3>1. acceptor[id] \in AcceptorRecord
      BY <2>1, SMTT(30) DEF TypeInv, MapsTyped
    <3> QED
      BY <3>1 DEF AcceptorRecord
  <2>3. m.latency = MillisU16(mine)
    BY <2>1, <2>2, ConclusionFields
  <2>4. ConclusionResponse(id, m).latency = MillisU16(kept)
    BY <2>1 DEF ConclusionResponse
  <2>5. mine \in Nat /\ its \in Nat /\ MILLI \in Nat \ {0} /\ MaxMillis \in Nat
    BY EndpointAssumption
  <2> HIDE DEF id, m, mine, its, kept, taken
  <2>6. /\ MillisU16(mine) \in Nat /\ MillisU16(its) \in Nat /\ MillisU16(kept) \in Nat
        /\ p \in Nat /\ p <= mine /\ (mine < top => mine < p + MILLI)
        /\ q \in Nat /\ q <= its /\ (its < top => its < q + MILLI)
        /\ r \in Nat /\ r <= kept
    BY <2>2, <2>5, Reported
  <2>7. kept = Larger(its, p) /\ taken = Larger(mine, r)
    <3>1. \A n \in Nat : n * MILLI = MILLI * n
      BY <2>5, SMTT(30)
    <3> QED
      BY <2>1, <2>3, <2>4, <2>6, <3>1 DEF Negotiate
  <2>8. its <= kept
    BY <2>5, <2>6, <2>7, SMTT(30) DEF Larger
  <2>9. q <= r
    BY <2>2, <2>5, <2>8, ReportedInOrder
  <2>10. advertised = Larger(p, q)
    <3>1. MillisU16(mine) > MillisU16(its) => p > q \/ p = q
      BY <2>5, <2>6, Scaled, SMTT(30)
    <3>2. ~ (MillisU16(mine) > MillisU16(its)) => p <= q
      BY <2>5, <2>6, Scaled, SMTT(30)
    <3>3. advertised = IF MillisU16(mine) > MillisU16(its) THEN p ELSE q
      BY DEF Larger
    <3> HIDE DEF p, q, advertised
    <3> QED
      BY <2>6, <3>1, <3>2, <3>3, SMTT(30) DEF Larger
  <2>11. top \in Nat
    BY <2>5, Scaled, SMTT(30)
  <2> HIDE DEF p, q, r, top, advertised
  <2>12. /\ taken >= advertised /\ kept >= advertised
         /\ Larger(mine, its) < top => taken < advertised + MILLI /\ kept < advertised + MILLI
    BY <2>2, <2>5, <2>6, <2>7, <2>8, <2>9, <2>10, <2>11, SMTT(30) DEF Larger
  <2> QED
    BY <2>12 DEF advertised, top, mine, its, kept, taken, id
<1>2. Spec => []OriginInv
  BY OriginHolds
<1> QED
  BY <1>1, <1>2, TypeInvHolds, PTL
-----------------------------------------------------------------------------
(* The demux maps.                                                         *)

(* What DemuxConsistent says of the connection id.                         *)
Mapped(id) ==
    /\ id \in DOMAIN by_id
    /\ \A x \in Addresses : connections[x] = id => x = by_id[id]
    /\ acceptor[id].peer = by_id[id]

(* No step in which entries of connections only go and by_id loses only    *)
(* what has ended takes a live connection's mapping.                       *)
LEMMA MapsFrame ==
    ASSUME TypeInv, DemuxConsistent,
           Len(acceptor') = Len(acceptor),
           \A j \in 1 .. Len(acceptor) :
              /\ acceptor'[j].peer = acceptor[j].peer
              /\ acceptor'[j].running => acceptor[j].running,
           \A x \in Addresses : connections'[x] \in {connections[x], None},
           \A id \in DOMAIN by_id : acceptor[id].running => id \in DOMAIN by_id',
           \A id \in DOMAIN by_id' : by_id'[id] = by_id[id]
    PROVE  DemuxConsistent'
<1> SUFFICES ASSUME NEW id \in 1 .. Len(acceptor), acceptor[id].running
             PROVE  Mapped(id)'
  BY DEF DemuxConsistent, Mapped
<1>1. Mapped(id) /\ id # None
  BY NoneAssumption, SMTT(30) DEF DemuxConsistent, Mapped, TypeInv, MapsTyped
<1>2. id \in DOMAIN by_id' /\ by_id'[id] = by_id[id] /\ acceptor'[id].peer = by_id[id]
  BY <1>1 DEF Mapped
<1>3. \A x \in Addresses : connections'[x] = id => x = by_id[id]
  BY <1>1 DEF Mapped
<1> QED
  BY <1>2, <1>3 DEF Mapped

(* A live connection is re-pinned, whoever had its old address.            *)
LEMMA RepinKept ==
    ASSUME TypeInv, DemuxConsistent, NEW x \in Addresses, NEW id \in DOMAIN by_id,
           acceptor[id].running,
           connections' = [[connections EXCEPT ![by_id[id]] = None] EXCEPT ![x] = id],
           by_id' = [by_id EXCEPT ![id] = x],
           Len(acceptor') = Len(acceptor),
           \A j \in 1 .. Len(acceptor) :
              /\ acceptor'[j].peer = IF j = id THEN x ELSE acceptor[j].peer
              /\ acceptor'[j].running => acceptor[j].running
    PROVE  DemuxConsistent'
<1>1. id \in 1 .. Len(acceptor) /\ by_id[id] \in Addresses
  BY DEF TypeInv, MapsTyped
<1>2. \A y \in Addresses :
         connections'[y] = IF y = x THEN id
                           ELSE IF y = by_id[id] THEN None ELSE connections[y]
  BY DEF TypeInv, MapsTyped
<1>3. /\ DOMAIN by_id' = DOMAIN by_id
      /\ \A j \in DOMAIN by_id : by_id'[j] = IF j = id THEN x ELSE by_id[j]
  BY DEF TypeInv, MapsTyped
<1>4. \A j \in 1 .. Len(acceptor) : j # None
  BY NoneAssumption, SMTT(30) DEF TypeInv, MapsTyped
<1> SUFFICES ASSUME NEW j \in 1 .. Len(acceptor), acceptor[j].running
             PROVE  Mapped(j)'
  BY DEF DemuxConsistent, Mapped
<1>5. Mapped(j) /\ j # None
  BY <1>4 DEF DemuxConsistent, Mapped
<1>6. CASE j = id
  <2>1. \A y \in Addresses : connections[y] = id => y = by_id[id]
    BY <1>5, <1>6 DEF Mapped
  <2>2. \A y \in Addresses : connections'[y] = id => y = x
    BY <1>2, <1>5, <1>6, <2>1
  <2>3. id \in DOMAIN by_id' /\ by_id'[id] = x /\ acceptor'[id].peer = x
    BY <1>1, <1>3
  <2> QED
    BY <1>6, <2>2, <2>3 DEF Mapped
<1>7. CASE j # id
  <2>1. \A y \in Addresses : connections[y] = j => y = by_id[j]
    BY <1>5 DEF Mapped
  <2>2. \A y \in Addresses : connections'[y] \in {id, None, connections[y]}
    BY <1>2
  <2>3. \A y \in Addresses : connections'[y] = j => y = by_id[j]
    BY <1>5, <1>7, <2>1, <2>2
  <2>4. j \in DOMAIN by_id' /\ by_id'[j] = by_id[j] /\ acceptor'[j].peer = by_id[j]
    BY <1>3, <1>5, <1>7 DEF Mapped
  <2> QED
    BY <2>3, <2>4 DEF Mapped
<1> QED
  BY <1>6, <1>7

(* A connection is accepted, whoever is mapped at its address.             *)
LEMMA SpawnKept ==
    ASSUME TypeInv, DemuxConsistent, NEW x \in Addresses, NEW m \in ConclusionMessage,
           NEW stream_id \in Attempts, SpawnAccepted(x, m, stream_id)
    PROVE  DemuxConsistent'
<1> DEFINE id == Len(acceptor) + 1
           swept == {y \in DOMAIN by_id : acceptor[y].running}
<1>1. Len(acceptor) \in Nat /\ \A j \in 1 .. id : j # None
  BY NoneAssumption, SMTT(30) DEF TypeInv, MapsTyped
<1>2. /\ Len(acceptor') = id
      /\ \A j \in 1 .. Len(acceptor) : acceptor'[j] = acceptor[j]
      /\ acceptor'[id].peer = x
  <2>1. Accept(x, m, stream_id).peer = x
    BY DEF Accept
  <2> QED
    BY <2>1, Spawned
<1>3. \A y \in Addresses :
         connections'[y] \in IF y = x THEN {id} ELSE {connections[y], None}
  BY DEF SpawnAccepted
<1>4. by_id' = [y \in swept \cup {id} |-> IF y = id THEN x ELSE by_id[y]]
  BY DEF SpawnAccepted
<1>5. \A y \in Addresses : connections[y] # None => connections[y] \in 1 .. Len(acceptor)
  BY DEF TypeInv, MapsTyped
<1>6. ASSUME NEW j \in 1 .. Len(acceptor'), j = id
      PROVE  Mapped(j)'
  <2>1. \A k \in 1 .. Len(acceptor) : k # j
    BY <1>1, <1>6, SMTT(30)
  <2>2. j # None
    BY <1>1, <1>2, <1>6
  <2>3. \A y \in Addresses : y # x => connections'[y] \in {connections[y], None}
    BY <1>3
  <2>4. j \in DOMAIN by_id' /\ by_id'[j] = x /\ acceptor'[j].peer = x
    BY <1>2, <1>4, <1>6
  <2>5. \A y \in Addresses : connections'[y] = j => y = x
    BY <1>5, <2>1, <2>2, <2>3
  <2> QED
    BY <2>4, <2>5 DEF Mapped
<1>7. ASSUME NEW j \in 1 .. Len(acceptor), acceptor[j].running
      PROVE  Mapped(j)'
  <2>1. Mapped(j) /\ j # id /\ j # None
    BY <1>1, <1>7, SMTT(30) DEF DemuxConsistent, Mapped
  <2>2. j \in DOMAIN by_id' /\ by_id'[j] = by_id[j]
    BY <1>4, <1>7, <2>1 DEF Mapped
  <2>3. \A y \in Addresses : connections'[y] = j => y = by_id[j]
    BY <1>3, <2>1 DEF Mapped
  <2> QED
    BY <1>2, <2>1, <2>2, <2>3 DEF Mapped
<1>8. \A j \in 1 .. Len(acceptor') : acceptor'[j].running => Mapped(j)'
  <2> SUFFICES ASSUME NEW j \in 1 .. Len(acceptor'), acceptor'[j].running
               PROVE  Mapped(j)'
    OBVIOUS
  <2>1. j = id \/ j \in 1 .. Len(acceptor)
    BY <1>1, <1>2, SMTT(30)
  <2>2. CASE j \in 1 .. Len(acceptor)
    BY <1>2, <1>7, <2>2
  <2> QED
    BY <1>6, <2>1, <2>2
<1> QED
  BY <1>8 DEF DemuxConsistent, Mapped

(* The maps stay consistent.                                               *)
LEMMA DemuxStep == TypeInv /\ DemuxConsistent /\ [Next]_vars => DemuxConsistent'
<1> SUFFICES ASSUME TypeInv, DemuxConsistent, [Next]_vars
             PROVE  DemuxConsistent'
  OBVIOUS
<1>1. ASSUME UNCHANGED demux
      PROVE  DemuxConsistent'
  BY <1>1 DEF DemuxConsistent, demux
<1>2. CASE UNCHANGED vars
  BY <1>1, <1>2 DEF vars
<1>3. ASSUME NEW a \in Attempts, Caller(a)
      PROVE  DemuxConsistent'
  BY <1>1, <1>3 DEF Caller, Connect, CallerReceives, HandshakeTimer, ConnectTimeout,
     CallerSends, CallerEnds, Rebind, CallerCancels
<1>4. ASSUME NEW d \in to_listener, EndpointReceives(d)
      PROVE  DemuxConsistent'
  <2> DEFINE x == d.from
             m == d.msg
  <2>1. x \in Addresses /\ m \in HandshakeMessage \cup NamingMessage
    BY DEF TypeInv, NetworkTyped
  <2>2. /\ acceptor \in Seq(AcceptorRecord) /\ NetworkTyped
        /\ \A id \in 1 .. Len(acceptor) : id \in Id
    BY EndpointAssumption, SMTT(30) DEF TypeInv, MapsTyped, Id
  <2>3. CASE FromKnown(x, m)
    <3> DEFINE id == connections[x]
    <3>1. id \in 1 .. Len(acceptor) /\ UNCHANGED by_id
      BY <2>1, <2>3 DEF FromKnown, TypeInv, MapsTyped
    <3>2. CASE acceptor[id].running
      <4>1. Forward(id, acceptor, m) /\ UNCHANGED connections
        BY <2>3, <3>2 DEF FromKnown
      <4> HIDE DEF id, m
      <4>2. /\ Len(acceptor') = Len(acceptor)
            /\ \A j \in 1 .. Len(acceptor) :
                  /\ acceptor'[j].peer = acceptor[j].peer
                  /\ acceptor'[j].running => acceptor[j].running
        BY <2>2, <3>1, <4>1, Forwarded
      <4> QED
        BY <3>1, <4>1, <4>2, MapsFrame
    <3>3. CASE ~ acceptor[id].running
      <4>1. connections' = [connections EXCEPT ![x] = None] /\ UNCHANGED acceptor
        BY <2>3, <3>3 DEF FromKnown
      <4>2. \A y \in Addresses : connections'[y] \in {connections[y], None}
        BY <4>1 DEF TypeInv, MapsTyped
      <4> QED
        BY <3>1, <4>1, <4>2, MapsFrame
    <3> QED
      BY <3>2, <3>3
  <2>4. CASE FromRebound(x, m)
    <3> DEFINE id == DestSocketId(m)
               q == PinAt(acceptor, id, x)
    <3>1. id \in DOMAIN by_id /\ id \in 1 .. Len(acceptor) /\ by_id[id] \in Addresses
      BY <2>4 DEF FromRebound, TypeInv, MapsTyped
    <3>2. CASE acceptor[id].running
      <4>1. /\ connections' = [[connections EXCEPT ![by_id[id]] = None] EXCEPT ![x] = id]
            /\ by_id' = [by_id EXCEPT ![id] = x]
            /\ Forward(id, q, m)
        BY <2>4, <3>2 DEF FromRebound, PinAt
      <4> HIDE DEF id, x, m
      <4>2. /\ q \in Seq(AcceptorRecord) /\ Len(q) = Len(acceptor)
            /\ \A j \in 1 .. Len(acceptor) :
                  /\ q[j].peer = IF j = id THEN x ELSE acceptor[j].peer
                  /\ q[j].running => acceptor[j].running
        <5>1. x \in Addresses /\ acceptor \in Seq(AcceptorRecord) /\ id \in 1 .. Len(acceptor)
          BY <2>1, <2>2, <3>1
        <5>2. IsPinned(q, acceptor, id, x)
          BY <5>1, Repinned
        <5> HIDE DEF q
        <5> QED
          BY <5>2 DEF IsPinned
      <4> HIDE DEF q
      <4>3. /\ Len(acceptor') = Len(q)
            /\ \A j \in 1 .. Len(q) :
                  /\ acceptor'[j].peer = q[j].peer
                  /\ acceptor'[j].running => q[j].running
        BY <2>2, <3>1, <4>1, <4>2, Forwarded
      <4>4. /\ Len(acceptor') = Len(acceptor)
            /\ \A j \in 1 .. Len(acceptor) :
                  /\ acceptor'[j].peer = IF j = id THEN x ELSE acceptor[j].peer
                  /\ acceptor'[j].running => acceptor[j].running
        BY <4>2, <4>3
      <4> QED
        BY <2>1, <3>1, <3>2, <4>1, <4>4, RepinKept
    <3>3. CASE ~ acceptor[id].running
      <4>1. /\ connections' = [connections EXCEPT ![by_id[id]] = None]
            /\ by_id' = [y \in DOMAIN by_id \ {id} |-> by_id[y]]
            /\ UNCHANGED acceptor
        BY <2>4, <3>3 DEF FromRebound
      <4>2. \A y \in Addresses : connections'[y] \in {connections[y], None}
        BY <4>1 DEF TypeInv, MapsTyped
      <4> HIDE DEF id
      <4>3. /\ \A j \in DOMAIN by_id : acceptor[j].running => j \in DOMAIN by_id'
            /\ \A j \in DOMAIN by_id' : by_id'[j] = by_id[j]
        BY <3>3, <4>1
      <4> QED
        BY <4>1, <4>2, <4>3, MapsFrame
    <3> QED
      BY <3>2, <3>3
  <2>5. CASE OnInduction(x, m) \/ OnDropped(x, m) \/ OnDoomedConclusion(x, m)
    BY <1>1, <2>5 DEF OnInduction, OnDropped, OnDoomedConclusion
  <2>6. CASE ParkConclusion(x, m)
    <3>1. m \in ConclusionMessage /\ m.attempt \in Attempts
      BY <2>1, <2>6, ListenerMessages, ConclusionFields DEF ParkConclusion
    <3>2. CASE SpawnAccepted(x, m, m.attempt)
      <4> HIDE DEF x, m
      <4> QED
        BY <2>1, <3>1, <3>2, SpawnKept
    <3> QED
      BY <1>1, <2>6, <3>2 DEF ParkConclusion, SurfaceRequest
  <2> QED
    BY <1>4, <2>3, <2>4, <2>5, <2>6 DEF EndpointReceives
<1>5. ASSUME NEW i \in 1 .. Len(held), AcceptRequest(i)
      PROVE  DemuxConsistent'
  <2> DEFINE x == held[i].addr
             m == pending[x]
  <2>1. CASE m = None
    BY <1>1, <1>5, <2>1 DEF AcceptRequest
  <2>2. CASE m # None
    <3>1. x \in Addresses /\ held[i].stream_id \in Attempts
      <4>1. held[i] \in Request
        BY SMTT(30) DEF TypeInv, ApplicationTyped
      <4> QED
        BY <4>1 DEF Request
    <3>2. m \in ConclusionMessage
      BY <2>2, <3>1 DEF TypeInv, ListenerTyped
    <3>3. SpawnAccepted(x, m, held[i].stream_id)
      BY <1>5, <2>2 DEF AcceptRequest
    <3> HIDE DEF x, m
    <3> QED
      BY <3>1, <3>2, <3>3, SpawnKept
  <2> QED
    BY <2>1, <2>2
<1>6. ASSUME NEW id \in 1 .. Len(acceptor), AcceptorEnds(id)
      PROVE  DemuxConsistent'
  <2>1. UNCHANGED <<connections, by_id>>
    BY <1>6 DEF AcceptorEnds
  <2>2. /\ Len(acceptor') = Len(acceptor)
        /\ \A j \in 1 .. Len(acceptor) :
              /\ acceptor'[j].peer = acceptor[j].peer
              /\ acceptor'[j].running => acceptor[j].running
    BY <1>6, EndedFrame
  <2> QED
    BY <2>1, <2>2, MapsFrame
<1>7. CASE \/ TakeIncoming \/ MinutePasses \/ Lose
           \/ \E i \in 1 .. Len(held) : RejectRequest(i) \/ DropRequest(i)
           \/ \E x \in Addresses : PendingAges(x)
  BY <1>1, <1>7 DEF TakeIncoming, MinutePasses, Lose, RejectRequest, DropRequest,
     PendingAges
<1> QED
  BY <1>2, <1>3, <1>4, <1>5, <1>6, <1>7 DEF Next, App

(* The index by id never disagrees with the map of addresses about a live  *)
(* connection, nor with the peer its driver is pinned to: whatever is      *)
(* accepted, swept, re-pinned and evicted, in whatever order, by whatever  *)
(* way of accepting, and whoever shares or reuses an address.              *)
THEOREM DemuxAlwaysConsistent == Spec => []DemuxConsistent
<1>1. Init => DemuxConsistent
  BY SMTT(30) DEF Init, DemuxConsistent
<1> QED
  BY <1>1, DemuxStep, TypeInvHolds, PTL DEF Spec
-----------------------------------------------------------------------------
(* Handshakes on the wire.                                                 *)

(* Induction over the numbers up to n, for a set of them.                  *)
LEMMA UpTo ==
    ASSUME NEW n \in Nat, NEW T, 0 \in T,
           \A k \in 0 .. n : k + 1 \in 0 .. n /\ k \in T => k + 1 \in T
    PROVE  \A k \in 0 .. n : k \in T
<1> DEFINE R == {ss \in Nat \X Nat : ss[1] < ss[2]}
           bad == {k \in 0 .. n : k \notin T}
<1>1. SUFFICES ASSUME bad # {} PROVE FALSE
  BY <1>1
<1>2. IsWellFoundedOn(R, Nat)
  BY NatLessThanWellFounded DEF OpToRel
<1>3. bad \subseteq Nat
  BY SMTT(30)
<1>4. PICK x \in bad : \A y \in bad : ~ (<<y, x>> \in R)
  <2> HIDE DEF R, bad
  <2> QED
    BY <1>1, <1>2, <1>3, WFMin
<1>5. x # 0 /\ x \in Nat /\ x <= n
  BY <1>4, SMTT(30)
<1>6. x - 1 \in 0 .. n /\ (x - 1) + 1 = x /\ x - 1 \in Nat /\ x - 1 < x
  BY <1>5, SMTT(30)
<1>7. x - 1 \notin T
  BY <1>4, <1>5, <1>6, SMTT(30)
<1>8. <<x - 1, x>> \in R /\ x - 1 \in bad
  BY <1>3, <1>5, <1>6, <1>7, SMTT(30)
<1> QED
  BY <1>4, <1>8

\* The loops of encode() and decode() over the extensions: f[n] is what they have
\* after n turns.
IsEncoding(f, x, m) ==
    f = [n \in 0 .. m |-> IF n = 0 THEN <<>> ELSE f[n - 1] \o EncodeExtension(x[n])]
IsDecoding(f, words, m) ==
    f = [n \in 0 .. m |->
           IF n = 0 THEN [at |-> 1, extensions |-> <<>>, malformed |-> FALSE]
           ELSE DecodeExtension(words, f[n - 1])]

(* The function by which encode() is defined exists: it makes as many      *)
(* turns as there are extensions.                                          *)
LEMMA EncodingExists ==
    ASSUME NEW x, NEW n \in Nat
    PROVE  \E f : IsEncoding(f, x, n)
<1> DEFINE T == {m \in Nat : \E f : IsEncoding(f, x, m)}
<1>1. 0 \in T
  <2> DEFINE f == [k \in 0 .. 0 |-> <<>>]
  <2>1. IsEncoding(f, x, 0)
    BY SMTT(30) DEF IsEncoding
  <2> QED
    BY <2>1, SMTT(30)
<1>2. ASSUME NEW k \in 0 .. n, k \in T PROVE k + 1 \in T
  <2> DEFINE m == k + 1
  <2>1. PICK g : IsEncoding(g, x, k)
    BY <1>2
  <2> DEFINE f == [i \in 0 .. m |-> IF i = m THEN g[k] \o EncodeExtension(x[m]) ELSE g[i]]
  <2>2. m \in Nat /\ m # 0 /\ m - 1 = k /\ k \in 0 .. m /\ k # m
    BY SMTT(30)
  <2> HIDE DEF m
  <2>3. ASSUME NEW i \in 0 .. m
        PROVE  f[i] = IF i = 0 THEN <<>> ELSE f[i - 1] \o EncodeExtension(x[i])
    <3>1. CASE i = m
      BY <2>2, <3>1
    <3>2. CASE i # m
      <4>1. i \in 0 .. k
        BY <2>2, <3>2, SMTT(30)
      <4>2. g[i] = IF i = 0 THEN <<>> ELSE g[i - 1] \o EncodeExtension(x[i])
        BY <2>1, <4>1 DEF IsEncoding
      <4>3. i # 0 => i - 1 \in 0 .. m /\ i - 1 # m
        BY <2>2, <4>1, SMTT(30)
      <4> QED
        BY <3>2, <4>2, <4>3
    <3> QED
      BY <3>1, <3>2
  <2>4. f = [i \in 0 .. m |-> f[i]]
    OBVIOUS
  <2> HIDE DEF f
  <2>5. IsEncoding(f, x, m)
    BY <2>3, <2>4 DEF IsEncoding
  <2>6. m \in T
    BY <2>2, <2>5
  <2> QED
    BY <2>6 DEF m
<1> HIDE DEF T
<1>3. n \in 0 .. n
  BY SMTT(30)
<1>4. n \in T
  BY <1>1, <1>2, <1>3, UpTo
<1> QED
  BY <1>4 DEF T

(* The function by which decode() is defined exists too.                   *)
LEMMA DecodingExists ==
    ASSUME NEW words, NEW n \in Nat
    PROVE  \E f : IsDecoding(f, words, n)
<1> DEFINE T == {m \in Nat : \E f : IsDecoding(f, words, m)}
           start == [at |-> 1, extensions |-> <<>>, malformed |-> FALSE]
<1> HIDE DEF start
<1>1. 0 \in T
  <2> DEFINE f == [k \in 0 .. 0 |-> start]
  <2>1. IsDecoding(f, words, 0)
    BY SMTT(30) DEF IsDecoding, start
  <2> QED
    BY <2>1, SMTT(30)
<1>2. ASSUME NEW k \in 0 .. n, k \in T PROVE k + 1 \in T
  <2> DEFINE m == k + 1
  <2>1. PICK g : IsDecoding(g, words, k)
    BY <1>2
  <2> DEFINE f == [i \in 0 .. m |-> IF i = m THEN DecodeExtension(words, g[k]) ELSE g[i]]
  <2>2. m \in Nat /\ m # 0 /\ m - 1 = k /\ k \in 0 .. m /\ k # m
    BY SMTT(30)
  <2> HIDE DEF m
  <2>3. ASSUME NEW i \in 0 .. m
        PROVE  f[i] = IF i = 0 THEN start ELSE DecodeExtension(words, f[i - 1])
    <3>1. CASE i = m
      BY <2>2, <3>1
    <3>2. CASE i # m
      <4>1. i \in 0 .. k
        BY <2>2, <3>2, SMTT(30)
      <4>2. g[i] = IF i = 0 THEN start ELSE DecodeExtension(words, g[i - 1])
        BY <2>1, <4>1 DEF IsDecoding, start
      <4>3. i # 0 => i - 1 \in 0 .. m /\ i - 1 # m
        BY <2>2, <4>1, SMTT(30)
      <4> QED
        BY <3>2, <4>2, <4>3
    <3> QED
      BY <3>1, <3>2
  <2>4. f = [i \in 0 .. m |-> f[i]]
    OBVIOUS
  <2> HIDE DEF f
  <2>5. IsDecoding(f, words, m)
    BY <2>3, <2>4 DEF IsDecoding, start
  <2>6. m \in T
    BY <2>2, <2>5
  <2> QED
    BY <2>6 DEF m
<1> HIDE DEF T
<1>3. n \in 0 .. n
  BY SMTT(30)
<1>4. n \in T
  BY <1>1, <1>2, <1>3, UpTo
<1> QED
  BY <1>4 DEF T

\* What is encoded: extensions with words of S.
Extensions(S) == [ext_type : Nat, content : Seq(S)]
Words(S) == S \cup (Nat \X Nat)
Size(e) == 1 + Len(e.content)

(* The words of one extension: its type and length, then its content.      *)
LEMMA EncodedExtension ==
    ASSUME NEW S, NEW e \in Extensions(S)
    PROVE  /\ EncodeExtension(e) \in Seq(Words(S))
           /\ Size(e) \in Nat \ {0} /\ Len(EncodeExtension(e)) = Size(e)
           /\ EncodeExtension(e)[1] = <<e.ext_type, Len(e.content)>>
           /\ \A j \in 1 .. Len(e.content) : EncodeExtension(e)[1 + j] = e.content[j]
<1> DEFINE header == <<e.ext_type, Len(e.content)>>
<1>1. e.content \in Seq(S) /\ e.ext_type \in Nat
  BY DEF Extensions
<1>2. Len(e.content) \in Nat /\ e.content \in Seq(Words(S))
  BY <1>1, SMTT(30) DEF Words
<1>3. header \in Words(S)
  BY <1>1, <1>2 DEF Words
<1> HIDE DEF header
<1>4. <<header>> \in Seq(Words(S)) /\ Len(<<header>>) = 1 /\ <<header>>[1] = header
  BY <1>3, SMTT(30)
<1>5. EncodeExtension(e) = <<header>> \o e.content
  BY DEF EncodeExtension, header
<1>6. /\ <<header>> \o e.content \in Seq(Words(S))
      /\ Len(<<header>> \o e.content) = 1 + Len(e.content)
      /\ \A j \in 1 .. 1 + Len(e.content) :
            (<<header>> \o e.content)[j] = IF j <= 1 THEN <<header>>[j] ELSE e.content[j - 1]
  BY <1>2, <1>4, Joined
<1>7. 1 \in 1 .. 1 + Len(e.content) /\ 1 <= 1
  BY <1>2, SMTT(30)
<1>8. ASSUME NEW j \in 1 .. Len(e.content)
      PROVE  1 + j \in 1 .. 1 + Len(e.content) /\ ~ (1 + j <= 1) /\ (1 + j) - 1 = j
  BY <1>2, SMTT(30)
<1>9. Size(e) \in Nat \ {0}
  BY <1>2, SMTT(30) DEF Size
<1>10. EncodeExtension(e)[1] = header
  BY <1>4, <1>5, <1>6, <1>7
<1>11. \A j \in 1 .. Len(e.content) : EncodeExtension(e)[1 + j] = e.content[j]
  BY <1>5, <1>6, <1>8
<1> QED
  BY <1>5, <1>6, <1>9, <1>10, <1>11 DEF header, Size

\* The k-th turn of encode() adds the k-th extension.
AddsExtension(f, x, k) ==
    /\ Len(f[k]) = Len(f[k - 1]) + Size(x[k])
    /\ \A j \in 1 .. Len(f[k]) :
          f[k][j] = IF j <= Len(f[k - 1]) THEN f[k - 1][j]
                    ELSE EncodeExtension(x[k])[j - Len(f[k - 1])]

(* Every turn of encode() adds words, the ones of the extension it takes.  *)
LEMMA EncodingGrows ==
    ASSUME NEW S, NEW x \in Seq(Extensions(S)), NEW f, IsEncoding(f, x, Len(x))
    PROVE  /\ f[0] = <<>>
           /\ \A k \in 0 .. Len(x) :
                 f[k] \in Seq(Words(S)) /\ Len(f[k]) \in Nat /\ k <= Len(f[k])
           /\ \A k \in 1 .. Len(x) : AddsExtension(f, x, k)
<1>1. Len(x) \in Nat /\ \A k \in 1 .. Len(x) : x[k] \in Extensions(S)
  BY SMTT(30)
<1>2. 0 \in 0 .. Len(x) /\ \A k \in 1 .. Len(x) : k \in 0 .. Len(x) /\ k # 0
  BY <1>1, SMTT(30)
<1>3. /\ f[0] = <<>>
      /\ \A k \in 1 .. Len(x) : f[k] = f[k - 1] \o EncodeExtension(x[k])
  BY <1>2 DEF IsEncoding
<1> DEFINE typed(k) == f[k] \in Seq(Words(S)) /\ Len(f[k]) \in Nat /\ k <= Len(f[k])
           T == {k \in Nat : typed(k)}
<1>4. ASSUME NEW k \in 1 .. Len(x), typed(k - 1)
      PROVE  typed(k) /\ AddsExtension(f, x, k)
  <2> DEFINE e == EncodeExtension(x[k])
             g == f[k - 1]
  <2>1. e \in Seq(Words(S)) /\ Size(x[k]) \in Nat \ {0} /\ Len(e) = Size(x[k])
    BY <1>1, EncodedExtension
  <2>2. g \in Seq(Words(S)) /\ Len(g) \in Nat /\ k - 1 <= Len(g) /\ f[k] = g \o e
    BY <1>3, <1>4
  <2> HIDE DEF e, g
  <2>3. /\ g \o e \in Seq(Words(S))
        /\ Len(g \o e) = Len(g) + Len(e)
        /\ \A j \in 1 .. Len(g) + Len(e) :
              (g \o e)[j] = IF j <= Len(g) THEN g[j] ELSE e[j - Len(g)]
    BY <2>1, <2>2, Joined
  <2>4. typed(k)
    BY <1>1, <2>1, <2>2, <2>3, SMTT(30)
  <2> QED
    BY <2>1, <2>2, <2>3, <2>4 DEF AddsExtension, e, g
<1>5. typed(0)
  BY <1>3, SMTT(30)
<1>6. ASSUME NEW k \in 0 .. Len(x), k + 1 \in 0 .. Len(x), k \in T PROVE k + 1 \in T
  <2>1. k + 1 \in 1 .. Len(x) /\ (k + 1) - 1 = k /\ k + 1 \in Nat
    BY <1>1, <1>6, SMTT(30)
  <2>2. typed((k + 1) - 1)
    BY <1>6, <2>1
  <2>3. typed(k + 1)
    BY <1>4, <2>1, <2>2
  <2> QED
    BY <2>1, <2>3
<1>7. 0 \in T
  BY <1>5, SMTT(30)
<1>8. \A k \in 0 .. Len(x) : k \in T
  <2> HIDE DEF T
  <2> QED
    BY <1>1, <1>6, <1>7, UpTo
<1>9. \A k \in 1 .. Len(x) : k - 1 \in 0 .. Len(x)
  BY <1>1, SMTT(30)
<1>10. \A k \in 0 .. Len(x) : typed(k)
  BY <1>8
<1> HIDE DEF T
<1> QED
  BY <1>3, <1>4, <1>9, <1>10

StartsWith(s, t) == Len(t) <= Len(s) /\ \A j \in 1 .. Len(t) : s[j] = t[j]

(* What encode() has written it leaves alone.                              *)
LEMMA EncodingPrefix ==
    ASSUME NEW S, NEW x \in Seq(Extensions(S)), NEW f, IsEncoding(f, x, Len(x)),
           NEW i \in 0 .. Len(x)
    PROVE  StartsWith(f[Len(x)], f[i])
<1> DEFINE starts(m) == StartsWith(f[m], f[i])
           T == {m \in Nat : i <= m => starts(m)}
<1>1. Len(x) \in Nat /\ i \in Nat /\ i <= Len(x) /\ Len(x) \in 0 .. Len(x)
      /\ \A k \in 1 .. Len(x) : x[k] \in Extensions(S)
  BY SMTT(30)
<1>2. \A k \in 0 .. Len(x) : Len(f[k]) \in Nat
  BY EncodingGrows
<1>3. starts(i)
  BY <1>2, SMTT(30) DEF StartsWith
<1>4. ASSUME NEW k \in 0 .. Len(x), k + 1 \in 0 .. Len(x), k \in T PROVE k + 1 \in T
  <2> SUFFICES ASSUME i <= k + 1 PROVE starts(k + 1)
    BY SMTT(30)
  <2>1. CASE i = k + 1
    BY <1>3, <2>1
  <2>2. CASE i # k + 1
    <3>1. k + 1 \in 1 .. Len(x) /\ (k + 1) - 1 = k /\ i <= k
      BY <1>1, <1>4, <2>2, SMTT(30)
    <3>2. starts(k)
      BY <1>4, <3>1
    <3>3. /\ Len(f[k + 1]) = Len(f[k]) + Size(x[k + 1])
          /\ \A j \in 1 .. Len(f[k + 1]) :
                f[k + 1][j] = IF j <= Len(f[k]) THEN f[k][j]
                              ELSE EncodeExtension(x[k + 1])[j - Len(f[k])]
      <4>1. AddsExtension(f, x, k + 1)
        BY <3>1, EncodingGrows
      <4> QED
        BY <3>1, <4>1 DEF AddsExtension
    <3>4. Size(x[k + 1]) \in Nat
      BY <1>1, <3>1, EncodedExtension
    <3>5. Len(f[k]) \in Nat /\ Len(f[i]) \in Nat /\ Len(f[i]) <= Len(f[k])
      BY <1>2, <3>2 DEF StartsWith
    <3>6. Len(f[k + 1]) = Len(f[k]) + Size(x[k + 1])
      BY <3>3
    <3>7. Len(f[k + 1]) \in Nat
      BY <1>2, <1>4
    <3>8. Len(f[i]) <= Len(f[k + 1])
      BY <3>4, <3>5, <3>6, SMTT(30)
    <3>9. \A j \in 1 .. Len(f[i]) :
             j \in 1 .. Len(f[k + 1]) /\ j <= Len(f[k]) /\ j \in 1 .. Len(f[k])
      BY <3>5, <3>7, <3>8, SMTT(30)
    <3> QED
      BY <3>2, <3>3, <3>8, <3>9 DEF StartsWith
  <2> QED
    BY <2>1, <2>2
<1>5. 0 \in T
  <2>1. i <= 0 => i = 0
    BY <1>1, SMTT(30)
  <2> QED
    BY <1>3, <2>1, SMTT(30)
<1>6. Len(x) \in T
  <2> HIDE DEF T
  <2> QED
    BY <1>1, <1>4, <1>5, UpTo
<1> QED
  BY <1>1, <1>6

\* The extension e is encoded in the words after the first p.
EncodedAt(words, p, e) ==
    /\ p + Size(e) <= Len(words)
    /\ words[p + 1] = <<e.ext_type, Len(e.content)>>
    /\ \A j \in 1 .. Len(e.content) : words[(p + 1) + j] = e.content[j]

(* A turn of decode() at the words of an extension reads that extension.   *)
LEMMA OneTurn ==
    ASSUME NEW S, NEW words \in Seq(Words(S)), NEW e \in Extensions(S), WellFormed(e),
           NEW y, NEW p \in Nat, EncodedAt(words, p, e)
    PROVE  DecodeExtension(words, [at |-> p + 1, extensions |-> y, malformed |-> FALSE])
             = [at |-> (p + Size(e)) + 1, extensions |-> Append(y, e), malformed |-> FALSE]
<1> DEFINE n == Len(e.content)
           r == [at |-> p + 1, extensions |-> y, malformed |-> FALSE]
           content == SubSeq(words, (p + 1) + 1, (p + 1) + n)
<1>1. e.content \in Seq(S) /\ e.ext_type \in Nat /\ e = Extension(e.ext_type, e.content)
  BY SMTT(30) DEF Extensions, Extension
<1>2. n \in Nat /\ Len(words) \in Nat /\ e.content \in Seq(Words(S))
  BY <1>1, SMTT(30) DEF Words
<1>3. (p + 1) + n <= Len(words) /\ ~ (p + 1 > Len(words)) /\ ~ ((p + 1) + n > Len(words))
  <2>1. p + Size(e) <= Len(words)
    BY DEF EncodedAt
  <2> HIDE DEF n
  <2>2. Size(e) = 1 + n
    BY DEF Size, n
  <2> QED
    BY <1>2, <2>1, <2>2, SMTT(30)
<1>4. words[p + 1][1] = e.ext_type /\ words[p + 1][2] = n
  <2>1. words[p + 1] = <<e.ext_type, n>>
    BY DEF EncodedAt
  <2> QED
    BY <2>1, SMTT(30)
<1>5. content = e.content
  <2> HIDE DEF n
  <2>1. \A j \in (p + 1) + 1 .. (p + 1) + n : words[j] \in Words(S)
    BY <1>2, <1>3, SMTT(30)
  <2>2. /\ content \in Seq(Words(S))
        /\ Len(content) = n
        /\ \A j \in 1 .. n : content[j] = words[(p + 1) + j]
    BY <1>2, <1>3, <2>1, SMTT(30)
  <2> HIDE DEF content
  <2>3. Len(e.content) = n
    BY DEF n
  <2>4. \A j \in 1 .. n : content[j] = e.content[j]
    BY <2>2, <2>3 DEF EncodedAt
  <2> DEFINE t == e.content
  <2>5. t \in Seq(Words(S)) /\ Len(t) = n /\ \A j \in 1 .. n : content[j] = t[j]
    BY <1>2, <2>3, <2>4
  <2> HIDE DEF t
  <2>6. content = t
    BY <1>2, <2>2, <2>5, SMTT(30)
  <2> QED
    BY <2>6 DEF t
<1>6. r.at = p + 1 /\ r.extensions = y /\ ~ r.malformed
  OBVIOUS
<1>7. WellFormed(Extension(e.ext_type, content))
  BY <1>1, <1>5
<1> HIDE DEF r, content
<1>8. DecodeExtension(words, r)
        = [at |-> (p + 1) + n + 1, extensions |-> Append(y, e), malformed |-> FALSE]
  BY <1>1, <1>3, <1>4, <1>5, <1>6, <1>7 DEF DecodeExtension, content
<1>9. (p + 1) + n + 1 = (p + Size(e)) + 1
  <2> HIDE DEF n
  <2>1. Size(e) = 1 + n
    BY DEF Size, n
  <2> QED
    BY <1>2, <2>1, SMTT(30)
<1> QED
  BY <1>8, <1>9 DEF r

(* In the words encode() ends with, each extension is where decode() will  *)
(* look for it.                                                            *)
LEMMA EncodedInPlace ==
    ASSUME NEW S, NEW x \in Seq(Extensions(S)), NEW f, IsEncoding(f, x, Len(x)),
           NEW k \in 1 .. Len(x)
    PROVE  /\ EncodedAt(f[Len(x)], Len(f[k - 1]), x[k])
           /\ Len(f[k]) = Len(f[k - 1]) + Size(x[k])
<1> DEFINE e == x[k]
           words == f[Len(x)]
           p == Len(f[k - 1])
<1>1. Len(x) \in Nat /\ k \in 0 .. Len(x) /\ k - 1 \in 0 .. Len(x) /\ Len(x) \in 0 .. Len(x)
      /\ e \in Extensions(S)
  BY SMTT(30)
<1>2. \A i \in 0 .. Len(x) : Len(f[i]) \in Nat
  BY EncodingGrows
<1>3. /\ Len(f[k]) = p + Size(e)
      /\ \A j \in 1 .. Len(f[k]) :
            f[k][j] = IF j <= p THEN f[k - 1][j] ELSE EncodeExtension(e)[j - p]
  <2>1. AddsExtension(f, x, k)
    BY EncodingGrows
  <2> QED
    BY <2>1 DEF AddsExtension
<1>4. Len(f[k]) <= Len(words) /\ \A j \in 1 .. Len(f[k]) : words[j] = f[k][j]
  <2>1. StartsWith(words, f[k])
    BY <1>1, EncodingPrefix
  <2> QED
    BY <2>1 DEF StartsWith
<1>5. /\ EncodeExtension(e)[1] = <<e.ext_type, Len(e.content)>>
      /\ \A j \in 1 .. Len(e.content) : EncodeExtension(e)[1 + j] = e.content[j]
  BY <1>1, EncodedExtension
<1>6. p \in Nat /\ Len(f[k]) \in Nat
  BY <1>1, <1>2
<1>7. Len(e.content) \in Nat
  BY <1>1, SMTT(30) DEF Extensions
<1> DEFINE n == Len(e.content)
           last == Len(f[k])
<1>8. n \in Nat /\ last = p + (1 + n)
  BY <1>3, <1>7 DEF Size
<1> HIDE DEF e, words, p, n, last
<1>9. /\ p + 1 \in 1 .. last /\ ~ (p + 1 <= p) /\ (p + 1) - p = 1
      /\ \A j \in 1 .. n :
            (p + 1) + j \in 1 .. last /\ ~ ((p + 1) + j <= p) /\ ((p + 1) + j) - p = 1 + j
  BY <1>6, <1>8, SMTT(30)
<1>10. \A j \in 1 .. last : words[j] = IF j <= p THEN f[k - 1][j] ELSE EncodeExtension(e)[j - p]
  BY <1>3, <1>4 DEF last
<1>11. words[p + 1] = EncodeExtension(e)[1]
  BY <1>9, <1>10
<1>12. \A j \in 1 .. n : words[(p + 1) + j] = EncodeExtension(e)[1 + j]
  BY <1>9, <1>10
<1>13. p + Size(e) <= Len(words)
  BY <1>3, <1>4
<1> QED
  BY <1>3, <1>5, <1>11, <1>12, <1>13 DEF EncodedAt, e, words, p, n

(* decode() takes a turn for each extension, after which it is at the end  *)
(* of the words, and the turns left change nothing.                        *)
LEMMA DecodingRetraces ==
    ASSUME NEW S, NEW x \in Seq(Extensions(S)), \A i \in 1 .. Len(x) : WellFormed(x[i]),
           NEW f, IsEncoding(f, x, Len(x)),
           NEW g, IsDecoding(g, f[Len(x)], Len(f[Len(x)]))
    PROVE  LET r == g[Len(f[Len(x)])] IN r.extensions = x /\ ~ r.malformed
<1> DEFINE words == f[Len(x)]
           after(k) == [at |-> Len(f[k]) + 1, extensions |-> SubSeq(x, 1, k),
                        malformed |-> FALSE]
           T == {k \in Nat : k <= Len(x) => g[k] = after(k)}
           L == {k \in Nat : Len(x) <= k => g[k] = after(Len(x))}
<1>1. Len(x) \in Nat /\ Len(x) \in 0 .. Len(x) /\ \A k \in 1 .. Len(x) : x[k] \in Extensions(S)
  BY SMTT(30)
<1>2. words \in Seq(Words(S)) /\ Len(words) \in Nat /\ Len(x) <= Len(words) /\ f[0] = <<>>
      /\ \A k \in 0 .. Len(x) : Len(f[k]) \in Nat
  BY <1>1, EncodingGrows
<1>3. 0 \in 0 .. Len(words) /\ Len(words) \in 0 .. Len(words)
      /\ \A k \in 0 .. Len(words) :
            k + 1 \in 0 .. Len(words) => k + 1 # 0 /\ (k + 1) - 1 = k
  BY <1>2, SMTT(30)
<1>4. g[0] = [at |-> 1, extensions |-> <<>>, malformed |-> FALSE]
  BY <1>3 DEF IsDecoding
<1>5. ASSUME NEW k \in 0 .. Len(words), k + 1 \in 0 .. Len(words)
      PROVE  g[k + 1] = DecodeExtension(words, g[k])
  <2>1. g[k + 1] = DecodeExtension(words, g[(k + 1) - 1])
    BY <1>3, <1>5 DEF IsDecoding
  <2> QED
    BY <1>3, <1>5, <2>1
<1>6. SubSeq(x, 1, 0) = <<>> /\ SubSeq(x, 1, Len(x)) = x
  BY SMTT(30)
<1>7. after(0) = g[0]
  <2>1. Len(f[0]) + 1 = 1
    BY <1>2, SMTT(30)
  <2> QED
    BY <1>4, <1>6, <2>1
<1>8. ASSUME NEW k \in 0 .. Len(x), k + 1 \in 0 .. Len(x)
      PROVE  DecodeExtension(words, after(k)) = after(k + 1)
  <2> DEFINE e == x[k + 1]
  <2>1. k + 1 \in 1 .. Len(x) /\ (k + 1) - 1 = k /\ e \in Extensions(S) /\ Len(f[k]) \in Nat
    <3>1. k + 1 \in 1 .. Len(x) /\ (k + 1) - 1 = k
      BY <1>1, <1>8, SMTT(30)
    <3> QED
      BY <1>1, <1>2, <3>1
  <2>2. /\ EncodedAt(words, Len(f[(k + 1) - 1]), e)
        /\ Len(f[k + 1]) = Len(f[(k + 1) - 1]) + Size(e)
    BY <2>1, EncodedInPlace
  <2>3. EncodedAt(words, Len(f[k]), e) /\ Len(f[k + 1]) = Len(f[k]) + Size(e)
    BY <2>1, <2>2
  <2>4. Append(SubSeq(x, 1, k), e) = SubSeq(x, 1, k + 1)
    BY <1>1, <2>1, SMTT(30)
  <2>5. WellFormed(e)
    BY <2>1
  <2> HIDE DEF e, words
  <2>6. DecodeExtension(words,
          [at |-> Len(f[k]) + 1, extensions |-> SubSeq(x, 1, k), malformed |-> FALSE])
          = [at |-> (Len(f[k]) + Size(e)) + 1, extensions |-> Append(SubSeq(x, 1, k), e),
             malformed |-> FALSE]
    BY <1>2, <2>1, <2>3, <2>5, OneTurn
  <2> QED
    BY <2>3, <2>4, <2>6
<1>9. DecodeExtension(words, after(Len(x))) = after(Len(x))
  <2> DEFINE r == after(Len(x))
  <2>1. r.at = Len(words) + 1
    OBVIOUS
  <2>2. Len(words) + 1 > Len(words)
    BY <1>2, SMTT(30)
  <2> HIDE DEF r, words
  <2>3. DecodeExtension(words, r) = r
    BY <2>1, <2>2 DEF DecodeExtension
  <2> QED
    BY <2>3 DEF r
<1> HIDE DEF after
<1>10. ASSUME NEW k \in 0 .. Len(x), k + 1 \in 0 .. Len(x), k \in T PROVE k + 1 \in T
  <2>1. k <= Len(x) /\ k \in 0 .. Len(words) /\ k + 1 \in 0 .. Len(words) /\ k + 1 \in Nat
    BY <1>1, <1>2, <1>10, SMTT(30)
  <2>2. g[k] = after(k) /\ g[k + 1] = DecodeExtension(words, g[k])
    BY <1>5, <1>10, <2>1
  <2> QED
    BY <1>8, <1>10, <2>1, <2>2
<1>11. 0 \in T
  BY <1>7, SMTT(30)
<1>12. Len(x) \in T
  <2> HIDE DEF T
  <2> QED
    BY <1>1, <1>10, <1>11, UpTo
<1>13. g[Len(x)] = after(Len(x))
  <2>1. Len(x) <= Len(x)
    BY <1>1, SMTT(30)
  <2> QED
    BY <1>12, <2>1
<1>14. ASSUME NEW k \in 0 .. Len(words), k + 1 \in 0 .. Len(words), k \in L PROVE k + 1 \in L
  <2> SUFFICES ASSUME Len(x) <= k + 1 PROVE g[k + 1] = after(Len(x))
    BY SMTT(30)
  <2>1. CASE Len(x) = k + 1
    BY <1>13, <2>1
  <2>2. CASE Len(x) # k + 1
    <3>1. Len(x) <= k
      BY <1>1, <2>2, SMTT(30)
    <3>2. g[k] = after(Len(x))
      BY <1>14, <3>1
    <3> QED
      BY <1>5, <1>9, <1>14, <3>2
  <2> QED
    BY <2>1, <2>2
<1>15. 0 \in L
  <2>1. Len(x) <= 0 => Len(x) = 0
    BY <1>1, SMTT(30)
  <2> QED
    BY <1>7, <2>1, SMTT(30)
<1>16. Len(words) \in L
  <2> HIDE DEF L
  <2> QED
    BY <1>2, <1>3, <1>14, <1>15, UpTo
<1>17. g[Len(words)] = after(Len(x))
  BY <1>2, <1>16
<1>18. after(Len(x)).extensions = x /\ ~ after(Len(x)).malformed
  BY <1>6 DEF after
<1> QED
  BY <1>17, <1>18

(* decode() yields the extensions that encode() was given.                 *)
LEMMA ExtensionsReadBack ==
    ASSUME NEW S, NEW x \in Seq(Extensions(S)), \A i \in 1 .. Len(x) : WellFormed(x[i])
    PROVE  LET r == DecodeExtensions(EncodeExtensions(x))
           IN  /\ EncodeExtensions(x) \in Seq(Words(S))
               /\ r.extensions = x /\ ~ r.malformed
<1> DEFINE f == CHOOSE f : IsEncoding(f, x, Len(x))
           words == f[Len(x)]
           g == CHOOSE g : IsDecoding(g, words, Len(words))
<1>1. Len(x) \in Nat /\ Len(x) \in 0 .. Len(x)
  BY SMTT(30)
<1>2. IsEncoding(f, x, Len(x))
  BY <1>1, EncodingExists
<1>3. EncodeExtensions(x) = words
  BY DEF EncodeExtensions, IsEncoding
<1> HIDE DEF f
<1>4. words \in Seq(Words(S)) /\ Len(words) \in Nat
  BY <1>1, <1>2, EncodingGrows
<1>5. DecodeExtensions(words) = g[Len(words)]
  BY DEF DecodeExtensions, IsDecoding
<1>6. IsDecoding(g, words, Len(words))
  <2> HIDE DEF words
  <2> QED
    BY <1>4, DecodingExists
<1> HIDE DEF g
<1>7. g[Len(words)].extensions = x /\ ~ g[Len(words)].malformed
  BY <1>2, <1>6, DecodingRetraces
<1> HIDE DEF words
<1> QED
  BY <1>3, <1>4, <1>5, <1>7

\* The fields of a Handshake; no key is advertised, or one of AES-128.
IsHandshake(hs) ==
    /\ hs = [version |-> hs.version, encryption |-> hs.encryption,
             extension_field |-> hs.extension_field, initial_seq |-> hs.initial_seq,
             handshake_type |-> hs.handshake_type, srt_socket_id |-> hs.srt_socket_id,
             syn_cookie |-> hs.syn_cookie, extensions |-> hs.extensions]
    /\ hs.encryption \in {0, 2}

(* decode() undoes encode().                                               *)
LEMMA HandshakeReadBack ==
    ASSUME NEW S, NEW hs, IsHandshake(hs), hs.extensions \in Seq(Extensions(S)),
           \A i \in 1 .. Len(hs.extensions) : WellFormed(hs.extensions[i])
    PROVE  DecodeHandshake(EncodeHandshake(hs)) = hs
<1> DEFINE v == hs.version
           en == hs.encryption
           ef == hs.extension_field
           seq == hs.initial_seq
           ht == hs.handshake_type
           id == hs.srt_socket_id
           ck == hs.syn_cookie
           x == hs.extensions
           second == <<en, ef>>
           base == <<v, second, seq, ht, id, ck>>
           rest == EncodeExtensions(x)
           words == base \o rest
           W == Words(S) \cup {v, second, seq, ht, id, ck}
           decoded == DecodeExtensions(rest)
<1>1. rest \in Seq(Words(S)) /\ decoded.extensions = x /\ ~ decoded.malformed
  BY ExtensionsReadBack
<1>2. second[1] = en /\ second[2] = ef
  BY SMTT(30)
<1>3. EncodeHandshake(hs) = words
  BY DEF EncodeHandshake
<1>4. /\ hs = [version |-> v, encryption |-> en, extension_field |-> ef,
                initial_seq |-> seq, handshake_type |-> ht, srt_socket_id |-> id,
                syn_cookie |-> ck, extensions |-> x]
       /\ en \in {0, 2}
  BY DEF IsHandshake
<1> HIDE DEF v, en, ef, seq, ht, id, ck, x, second, rest, decoded
<1>5. /\ base \in Seq(W) /\ Len(base) = 6
      /\ base[1] = v /\ base[2] = second /\ base[3] = seq
      /\ base[4] = ht /\ base[5] = id /\ base[6] = ck
  BY SMTT(30)
<1>6. Words(S) \subseteq W
  OBVIOUS
<1> HIDE DEF W, base
<1>7. rest \in Seq(W) /\ Len(rest) \in Nat
  BY <1>1, <1>6, SMTT(30)
<1>8. /\ words \in Seq(W) /\ Len(words) = 6 + Len(rest)
      /\ \A j \in 1 .. 6 + Len(rest) : words[j] = IF j <= 6 THEN base[j] ELSE rest[j - 6]
  <2>1. /\ words \in Seq(W) /\ Len(words) = Len(base) + Len(rest)
        /\ \A j \in 1 .. Len(base) + Len(rest) :
              words[j] = IF j <= Len(base) THEN base[j] ELSE rest[j - Len(base)]
    BY <1>5, <1>7, Joined
  <2>2. Len(base) = 6
    BY <1>5
  <2> QED
    BY <2>1, <2>2
<1> HIDE DEF words
<1>9. /\ words[1] = v /\ words[2] = second /\ words[3] = seq
      /\ words[4] = ht /\ words[5] = id /\ words[6] = ck
  <2>1. \A j \in 1 .. 6 : j \in 1 .. 6 + Len(rest) /\ j <= 6
    BY <1>7, SMTT(30)
  <2>2. \A j \in 1 .. 6 : words[j] = base[j]
    BY <1>8, <2>1
  <2>3. 1 \in 1 .. 6 /\ 2 \in 1 .. 6 /\ 3 \in 1 .. 6 /\ 4 \in 1 .. 6 /\ 5 \in 1 .. 6 /\ 6 \in 1 .. 6
    BY SMTT(30)
  <2> QED
    BY <1>5, <2>2, <2>3
<1>10. SubSeq(words, 6 + 1, Len(words)) = rest
  <2>1. \A j \in 1 .. Len(rest) : words[6 + j] = rest[j]
    <3>1. \A j \in 1 .. Len(rest) :
             6 + j \in 1 .. 6 + Len(rest) /\ ~ (6 + j <= 6) /\ (6 + j) - 6 = j
      BY <1>7, SMTT(30)
    <3> QED
      BY <1>8, <3>1
  <2>2. Len(words) = 6 + Len(rest)
    BY <1>8
  <2> DEFINE t == SubSeq(words, 6 + 1, Len(words))
  <2>3. t \in Seq(W) /\ Len(t) = Len(rest) /\ \A j \in 1 .. Len(rest) : t[j] = words[6 + j]
    BY <1>7, <1>8, <2>2, SMTT(30)
  <2> HIDE DEF t
  <2>4. t = rest
    BY <1>7, <2>1, <2>3, SMTT(30)
  <2> QED
    BY <2>4 DEF t
<1>11. ~ (Len(words) < 6)
  BY <1>7, <1>8, SMTT(30)
<1>12. words[2][1] = en /\ words[2][2] = ef /\ en \in {0, 2, 3, 4}
  BY <1>2, <1>4, <1>9
<1>13. DecodeHandshake(words)
         = [version |-> v, encryption |-> en, extension_field |-> ef,
            initial_seq |-> seq, handshake_type |-> ht, srt_socket_id |-> id,
            syn_cookie |-> ck, extensions |-> x]
  BY <1>1, <1>9, <1>10, <1>11, <1>12 DEF DecodeHandshake, BASE_WORDS, decoded
<1> QED
  BY <1>3, <1>4, <1>13

(* The front of a sequence.                                                *)
LEMMA Front ==
    ASSUME NEW S, NEW s \in Seq(S), NEW n \in 0 .. Len(s)
    PROVE  /\ SubSeq(s, 1, n) \in Seq(S) /\ Len(SubSeq(s, 1, n)) = n
           /\ \A j \in 1 .. n : SubSeq(s, 1, n)[j] = s[j]
BY SMTT(30)

(* encode_stream_id() pads and reverses the blocks, decode_stream_id()     *)
(* undoes both.                                                            *)
LEMMA StreamIdReadBack ==
    ASSUME NEW s \in Seq(1 .. 255)
    PROVE  /\ DecodeStreamId(EncodeStreamId(s)) = s
           /\ \E S : EncodeStreamId(s) \in Seq(S)
<1> DEFINE n == Len(s)
           blocks == (n + 3) \div 4
           word(w) == [i \in 1 .. 4 |-> IF 4 * w - i + 1 > n THEN 0 ELSE s[4 * w - i + 1]]
           words == [w \in 1 .. blocks |-> word(w)]
           byte(i) == words[(i + 3) \div 4][4 - ((i + 3) % 4)]
           bytes == [i \in 1 .. 4 * blocks |-> byte(i)]
           Byte == 0 .. 255
           Block == [1 .. 4 -> Byte]
<1>1. /\ n \in Nat /\ s \in Seq(Byte) /\ 0 \in Byte
      /\ \A i \in 1 .. n : s[i] \in Byte /\ s[i] # 0
  <2> DEFINE B == 1 .. 255
  <2>1. s \in Seq(B)
    OBVIOUS
  <2> HIDE DEF B
  <2>2. Len(s) \in Nat /\ \A i \in 1 .. Len(s) : s[i] \in B
    BY <2>1, SMTT(30)
  <2>3. B \subseteq Byte /\ 0 \in Byte /\ 0 \notin B
    BY SMTT(30) DEF B
  <2> HIDE DEF Byte
  <2>4. s \in Seq(Byte)
    BY <2>1, <2>3, SMTT(30)
  <2> QED
    BY <2>2, <2>3, <2>4
<1>2. EncodeStreamId(s) = words
  BY DEF EncodeStreamId
<1> HIDE DEF n, Byte
<1>3. blocks \in Nat /\ n <= 4 * blocks
  BY <1>1, SMTT(30)
<1> HIDE DEF blocks
<1>4. ASSUME NEW w \in 1 .. blocks PROVE word(w) \in Block
  <2>1. ASSUME NEW i \in 1 .. 4
        PROVE  (IF 4 * w - i + 1 > n THEN 0 ELSE s[4 * w - i + 1]) \in Byte
    <3>1. ~ (4 * w - i + 1 > n) => 4 * w - i + 1 \in 1 .. n
      BY <1>1, <1>3, SMTT(30)
    <3> QED
      BY <1>1, <3>1
  <2> QED
    BY <2>1
<1>5. words \in [1 .. blocks -> Block]
  <2> HIDE DEF word, Block
  <2> QED
    BY <1>4
<1>6. words \in Seq(Block) /\ Len(words) = blocks
  <2> HIDE DEF words, Block
  <2> QED
    BY <1>3, <1>5, SMTT(30)
<1>7. ASSUME NEW i \in 1 .. 4 * blocks
      PROVE  bytes[i] = IF i > n THEN 0 ELSE s[i]
  <2> DEFINE w == (i + 3) \div 4
             j == 4 - ((i + 3) % 4)
  <2>1. w \in 1 .. blocks /\ j \in 1 .. 4 /\ 4 * w - j + 1 = i
    BY <1>3, SMTT(30)
  <2>2. bytes[i] = words[w][j]
    OBVIOUS
  <2> HIDE DEF w, j
  <2>3. words[w][j] = IF 4 * w - j + 1 > n THEN 0 ELSE s[4 * w - j + 1]
    BY <2>1
  <2> QED
    BY <2>1, <2>2, <2>3
<1> DEFINE end == CHOOSE m \in 0 .. 4 * blocks :
                    /\ m # 0 => bytes[m] # 0
                    /\ \A i \in m + 1 .. 4 * blocks : bytes[i] = 0
<1>8. bytes = [i \in 1 .. 4 * blocks |-> bytes[i]]
  <2> HIDE DEF byte
  <2> QED
    OBVIOUS
<1> HIDE DEF bytes
<1>9. end = n
  <2> DEFINE last(m) == /\ m # 0 => bytes[m] # 0
                        /\ \A i \in m + 1 .. 4 * blocks : bytes[i] = 0
  <2>1. n \in 0 .. 4 * blocks /\ last(n)
    <3>1. n \in 0 .. 4 * blocks /\ (n # 0 => n \in 1 .. n /\ n \in 1 .. 4 * blocks /\ ~ (n > n))
          /\ \A i \in n + 1 .. 4 * blocks : i \in 1 .. 4 * blocks /\ i > n
      BY <1>1, <1>3, SMTT(30)
    <3>2. n # 0 => bytes[n] # 0
      <4>1. n # 0 => bytes[n] = s[n]
        BY <1>7, <3>1
      <4>2. n # 0 => s[n] # 0
        BY <1>1, <3>1
      <4> QED
        BY <4>1, <4>2
    <3> QED
      BY <1>7, <3>1, <3>2
  <2>2. ASSUME NEW m \in 0 .. 4 * blocks, last(m) PROVE m = n
    <3>1. CASE m < n
      <4>1. n \in m + 1 .. 4 * blocks /\ n # 0
        BY <1>1, <1>3, <3>1, SMTT(30)
      <4> QED
        BY <2>1, <2>2, <4>1
    <3>2. CASE n < m
      <4>1. m # 0 /\ m \in n + 1 .. 4 * blocks
        BY <1>1, <1>3, <3>2, SMTT(30)
      <4> QED
        BY <2>1, <2>2, <4>1
    <3> QED
      BY <1>1, <1>3, <3>1, <3>2, SMTT(30)
  <2> HIDE DEF last
  <2>3. end = CHOOSE m \in 0 .. 4 * blocks : last(m)
    BY DEF last
  <2>4. end \in 0 .. 4 * blocks /\ last(end)
    BY <2>1, <2>3
  <2> QED
    BY <2>2, <2>4
<1>10. bytes \in Seq(Byte) /\ Len(bytes) = 4 * blocks
  <2>1. ASSUME NEW i \in 1 .. 4 * blocks PROVE bytes[i] \in Byte
    <3>1. ~ (i > n) => i \in 1 .. n
      BY <1>1, <1>3, SMTT(30)
    <3> QED
      BY <1>1, <1>7, <3>1
  <2>2. bytes \in [1 .. 4 * blocks -> Byte]
    BY <1>8, <2>1
  <2> DEFINE m == 4 * blocks
  <2>3. m \in Nat
    BY <1>3, SMTT(30)
  <2> HIDE DEF m
  <2>4. bytes \in Seq(Byte) /\ Len(bytes) = m
    BY <2>2, <2>3, SMTT(30) DEF m
  <2> QED
    BY <2>4 DEF m
<1>11. DecodeStreamId(words) = SubSeq(bytes, 1, end)
  <2>1. Len(words) = blocks
    BY <1>6
  <2> HIDE DEF words
  <2>2. bytes = [i \in 1 .. 4 * Len(words) |-> words[(i + 3) \div 4][4 - ((i + 3) % 4)]]
    BY <2>1 DEF bytes
  <2>3. DecodeStreamId(words)
          = SubSeq(bytes, 1, CHOOSE m \in 0 .. Len(bytes) :
                               /\ m # 0 => bytes[m] # 0
                               /\ \A i \in m + 1 .. Len(bytes) : bytes[i] = 0)
    BY <2>2 DEF DecodeStreamId
  <2> QED
    BY <1>10, <2>3
<1>12. SubSeq(bytes, 1, n) = s
  <2>1. \A i \in 1 .. n : bytes[i] = s[i]
    <3>1. \A i \in 1 .. n : i \in 1 .. 4 * blocks /\ ~ (i > n)
      BY <1>1, <1>3, SMTT(30)
    <3> QED
      BY <1>7, <3>1
  <2>2. s \in Seq(Byte) /\ Len(s) = n
    BY <1>1 DEF n
  <2> DEFINE t == SubSeq(bytes, 1, n)
  <2>3. t \in Seq(Byte) /\ Len(t) = n /\ \A i \in 1 .. n : t[i] = bytes[i]
    <3>1. n \in 0 .. Len(bytes)
      BY <1>1, <1>3, <1>10, SMTT(30)
    <3> QED
      BY <1>10, <3>1, Front
  <2> HIDE DEF t
  <2>4. t = s
    BY <1>1, <2>1, <2>2, <2>3, SMTT(30)
  <2> QED
    BY <2>4 DEF t
<1> QED
  BY <1>2, <1>6, <1>9, <1>11, <1>12

(* decode() of Key Material finds the wrapped key where encode() put it.   *)
LEMMA KeyMaterialReadBack ==
    ASSUME NEW p
    PROVE  /\ DecodeKeyMaterial(EncodeKeyMaterial(p)) = p
           /\ \E S : EncodeKeyMaterial(p) \in Seq(S)
<1> DEFINE first == <<1, 2, SIGN, 1>>
           third == <<2, 0, 2, 0>>
           fourth == <<0, SALT_WORDS, 4>>
           head == <<first, 0, third, fourth>>
           salt == [i \in 1 .. 4 |-> "salt"]
           keys == [i \in 1 .. 6 |-> p]
           W == {first, 0, third, fourth, "salt", p}
           words == (head \o salt) \o keys
<1>1. KeyCount(1) * 4 + ICV_WORDS = 6 /\ SALT_WORDS = 4
  BY SMTT(30) DEF KeyCount, ICV_WORDS, SALT_WORDS
<1>2. EncodeKeyMaterial(p) = words
  BY <1>1 DEF EncodeKeyMaterial
<1>3. /\ SubSeq(first, 1, 3) = <<1, 2, SIGN>> /\ first[4] = 1
      /\ third[1] = 2 /\ fourth[2] = SALT_WORDS /\ fourth[3] = 4
  <2> DEFINE t == <<1, 2, SIGN>>
             u == SubSeq(first, 1, 3)
  <2>1. SIGN \in Nat
    BY SMTT(30) DEF SIGN
  <2>2. /\ first \in Seq(Nat) /\ Len(first) = 4
        /\ first[1] = 1 /\ first[2] = 2 /\ first[3] = SIGN /\ first[4] = 1
    BY <2>1, SMTT(30)
  <2>3. t \in Seq(Nat) /\ Len(t) = 3 /\ t[1] = 1 /\ t[2] = 2 /\ t[3] = SIGN
    BY <2>1, SMTT(30)
  <2>4. third[1] = 2 /\ fourth[2] = SALT_WORDS /\ fourth[3] = 4
    BY SMTT(30)
  <2> HIDE DEF first, t, third, fourth
  <2>5. u \in Seq(Nat) /\ Len(u) = 3 /\ \A j \in 1 .. 3 : u[j] = first[j]
    <3>1. 3 \in 0 .. Len(first)
      BY <2>2, SMTT(30)
    <3> QED
      BY <2>2, <3>1, Front
  <2> HIDE DEF u
  <2>6. \A j \in 1 .. 3 : u[j] = t[j]
    BY <2>2, <2>3, <2>5, SMTT(30)
  <2>7. u = t
    BY <2>3, <2>5, <2>6, SMTT(30)
  <2> QED
    BY <2>2, <2>4, <2>7 DEF t, u
<1> HIDE DEF first, third, fourth
<1>4. /\ head \in Seq(W) /\ Len(head) = 4
      /\ head[1] = first /\ head[3] = third /\ head[4] = fourth
  BY SMTT(30)
<1>5. salt \in Seq(W) /\ Len(salt) = 4
  BY SMTT(30)
<1>6. keys \in Seq(W) /\ Len(keys) = 6 /\ keys[1] = p
  BY SMTT(30)
<1> HIDE DEF head, salt, keys, W
<1>7. /\ words \in Seq(W) /\ Len(words) = 14
      /\ words[1] = first /\ words[3] = third /\ words[4] = fourth /\ words[9] = p
  <2> DEFINE front == head \o salt
  <2>1. /\ front \in Seq(W) /\ Len(front) = Len(head) + Len(salt)
        /\ \A j \in 1 .. Len(head) + Len(salt) :
              front[j] = IF j <= Len(head) THEN head[j] ELSE salt[j - Len(head)]
    BY <1>4, <1>5, Joined
  <2>2. Len(front) = 8
    BY <1>4, <1>5, <2>1, SMTT(30)
  <2>3. front[1] = first /\ front[3] = third /\ front[4] = fourth
    BY <1>4, <1>5, <2>1, SMTT(30)
  <2> HIDE DEF front
  <2>4. /\ front \o keys \in Seq(W) /\ Len(front \o keys) = Len(front) + Len(keys)
        /\ \A j \in 1 .. Len(front) + Len(keys) :
              (front \o keys)[j] = IF j <= Len(front) THEN front[j] ELSE keys[j - Len(front)]
    <3>1. front \in Seq(W) /\ keys \in Seq(W)
      BY <1>6, <2>1
    <3> QED
      BY <3>1, Joined
  <2> DEFINE all == front \o keys
  <2> HIDE DEF all
  <2>5. /\ all \in Seq(W) /\ Len(all) = 14
        /\ all[1] = first /\ all[3] = third /\ all[4] = fourth /\ all[9] = p
    <3>1. /\ all \in Seq(W) /\ Len(all) = Len(front) + Len(keys)
          /\ \A j \in 1 .. Len(front) + Len(keys) :
                all[j] = IF j <= Len(front) THEN front[j] ELSE keys[j - Len(front)]
      BY <2>4 DEF all
    <3> QED
      BY <1>6, <2>2, <2>3, <3>1, SMTT(30)
  <2> QED
    BY <2>5 DEF all, front
<1> HIDE DEF words
<1>8. Len(words) >= 4 /\ 1 \in 1 .. 3 /\ 4 + SALT_WORDS + 1 = 9
      /\ Len(words) >= 4 + SALT_WORDS + KeyCount(1) * 4 + ICV_WORDS
  BY <1>7, SMTT(30) DEF KeyCount, ICV_WORDS, SALT_WORDS
<1>9. /\ words[1][4] = 1 /\ words[4][3] = 4 /\ SubSeq(words[1], 1, 3) = <<1, 2, SIGN>>
      /\ words[3][1] \in {2, 4} /\ words[4][2] = SALT_WORDS /\ words[4][3] \in {4, 6, 8}
  BY <1>3, <1>7
<1>10. DecodeKeyMaterial(words) = words[4 + SALT_WORDS + 1]
  BY <1>8, <1>9 DEF DecodeKeyMaterial
<1> QED
  BY <1>2, <1>7, <1>8, <1>10

(* The extension a reader looks for, when there is one of the kind.        *)
LEMMA ContentOf ==
    ASSUME NEW hs, NEW types, NEW i \in Int, Found(hs, types) = {i}
    PROVE  Content(hs, types) = hs.extensions[i].content
<1>1. i <= i
  BY SMTT(30)
<1>2. (CHOOSE k \in {i} : \A j \in {i} : k <= j) = i
  BY <1>1
<1> QED
  BY <1>2 DEF Content

(* The handshake types that are not a rejection are told from one and from *)
(* each other.                                                             *)
LEMMA TypesApart ==
    /\ ~ IsRejection(INDUCTION) /\ ~ IsRejection(CONCLUSION)
    /\ INDUCTION # CONCLUSION
<1>1. U32_MAX \in Nat /\ U32_MAX > 10000
  BY SMTT(30) DEF U32_MAX
<1> QED
  BY <1>1, SMTT(30) DEF IsRejection, REJECTION_BASE, DONE, INDUCTION, CONCLUSION

(* A rejection's code is in the rejections' range and stands for its       *)
(* reason.                                                                 *)
LEMMA RejectionReadBack ==
    ASSUME NEW r \in DOMAIN Code
    PROVE  /\ IsRejection(REJECTION_BASE + Code[r])
           /\ ReasonOf(REJECTION_BASE + Code[r]) = r
<1>1. DOMAIN Code = {"Backlog", "BadSecret", "Unsecure", "Application"}
  BY DEF Code
<1>2. /\ Code["Backlog"] = 5 /\ Code["BadSecret"] = 10
      /\ Code["Unsecure"] = 11 /\ Code["Application"] = 2000
  BY DEF Code
<1>3. Code[r] \in {5, 10, 11, 2000}
  <2>1. r \in {"Backlog", "BadSecret", "Unsecure", "Application"}
    BY <1>1
  <2> QED
    BY <1>2, <2>1, SMTT(30)
<1>5. \A q \in DOMAIN Code : Code[q] = Code[r] => q = r
  BY <1>1, <1>2, SMTT(30)
<1>6. IsRejection(REJECTION_BASE + Code[r])
      /\ (REJECTION_BASE + Code[r]) - REJECTION_BASE = Code[r]
  <2> DEFINE n == Code[r]
  <2>1. n \in {5, 10, 11, 2000}
    BY <1>3, SMTT(30)
  <2>2. U32_MAX \in Nat /\ U32_MAX > 10000
    BY SMTT(30) DEF U32_MAX
  <2> HIDE DEF n
  <2>3. IsRejection(REJECTION_BASE + n) /\ (REJECTION_BASE + n) - REJECTION_BASE = n
    BY <2>1, <2>2, SMTT(30) DEF IsRejection, REJECTION_BASE, DONE
  <2> QED
    BY <2>3 DEF n
<1>7. ReasonOf(REJECTION_BASE + Code[r]) = CHOOSE q \in DOMAIN Code : Code[q] = Code[r]
  BY <1>6 DEF ReasonOf
<1> DEFINE same(q) == Code[q] = Code[r]
           c == CHOOSE q \in DOMAIN Code : same(q)
<1>8. c \in DOMAIN Code /\ same(c)
  <2>1. same(r)
    OBVIOUS
  <2> HIDE DEF same
  <2> QED
    BY <2>1
<1> HIDE DEF c
<1>9. c = r
  BY <1>5, <1>8
<1> QED
  BY <1>6, <1>7, <1>9 DEF c

\* A reader that looks for these types finds the extension e.
Carries(hs, types, e) == Found(hs, types) # {} /\ Content(hs, types) = e.content

\* The extensions of a conclusion: a, and maybe b and c, whose words are of S.
Extended(hs, S, a, b, c, t, u, key) ==
    /\ a \in Extensions(S) /\ b \in Extensions(S) /\ c \in Extensions(S)
    /\ t \in {<<>>, <<b>>} /\ u \in {<<>>, <<c>>} /\ hs.extensions = (<<a>> \o t) \o u
    /\ a.ext_type \in {EXT_HSREQ, EXT_HSRSP} /\ b.ext_type = EXT_SID /\ c.ext_type = key
    /\ key \in {EXT_KMREQ, EXT_KMRSP}
    /\ WellFormed(a)

(* Each of them is found by its type.                                      *)
LEMMA CarriedExtensions ==
    ASSUME NEW hs, NEW S, NEW a, NEW b, NEW c, NEW t, NEW u, NEW key,
           Extended(hs, S, a, b, c, t, u, key)
    PROVE  /\ hs.extensions \in Seq(Extensions(S))
           /\ \A i \in 1 .. Len(hs.extensions) : WellFormed(hs.extensions[i])
           /\ Carries(hs, {EXT_HSREQ, EXT_HSRSP}, a)
           /\ IF t = <<>> THEN Found(hs, {EXT_SID}) = {} ELSE Carries(hs, {EXT_SID}, b)
           /\ IF u = <<>> THEN Found(hs, {key}) = {} ELSE Carries(hs, {key}, c)
<1> DEFINE E == Extensions(S)
           y == <<a>> \o t
           x == y \o u
           size == Len(x)
<1>1. /\ a \in E /\ b \in E /\ c \in E
      /\ t \in {<<>>, <<b>>} /\ u \in {<<>>, <<c>>}
  BY DEF Extended
<1>2. /\ a.ext_type \in {1, 2} /\ b.ext_type = 5 /\ c.ext_type = key /\ key \in {3, 4}
      /\ EXT_HSREQ = 1 /\ EXT_HSRSP = 2 /\ EXT_SID = 5
  BY DEF Extended, EXT_HSREQ, EXT_HSRSP, EXT_SID, EXT_KMREQ, EXT_KMRSP
<1>3. hs.extensions = x /\ WellFormed(a)
  BY DEF Extended
<1> HIDE DEF E
<1>4. t \in Seq(E) /\ Len(t) \in {0, 1} /\ (t = <<>> <=> Len(t) = 0) /\ (Len(t) = 1 => t[1] = b)
  <2>1. /\ <<>> \in Seq(E) /\ Len(<<>>) = 0
        /\ <<b>> \in Seq(E) /\ Len(<<b>>) = 1 /\ <<b>>[1] = b /\ 0 # 1
    BY <1>1, SMTT(30)
  <2>2. CASE t = <<>>
    BY <2>1, <2>2
  <2>3. CASE t = <<b>>
    BY <2>1, <2>3
  <2> QED
    BY <1>1, <2>2, <2>3
<1>5. u \in Seq(E) /\ Len(u) \in {0, 1} /\ (u = <<>> <=> Len(u) = 0) /\ (Len(u) = 1 => u[1] = c)
  <2>1. /\ <<>> \in Seq(E) /\ Len(<<>>) = 0
        /\ <<c>> \in Seq(E) /\ Len(<<c>>) = 1 /\ <<c>>[1] = c /\ 0 # 1
    BY <1>1, SMTT(30)
  <2>2. CASE u = <<>>
    BY <2>1, <2>2
  <2>3. CASE u = <<c>>
    BY <2>1, <2>3
  <2> QED
    BY <1>1, <2>2, <2>3
<1>6. /\ y \in Seq(E) /\ Len(y) = 1 + Len(t)
      /\ y[1] = a /\ (Len(t) = 1 => y[2] = b)
  <2> DEFINE o == <<a>>
  <2>1. o \in Seq(E) /\ Len(o) = 1 /\ o[1] = a
    BY <1>1, SMTT(30)
  <2> HIDE DEF o
  <2> DEFINE z == o \o t
  <2>2. /\ z \in Seq(E) /\ Len(z) = Len(o) + Len(t)
        /\ \A j \in 1 .. Len(o) + Len(t) : z[j] = IF j <= Len(o) THEN o[j] ELSE t[j - Len(o)]
    <3>1. t \in Seq(E) /\ o \in Seq(E)
      BY <1>4, <2>1
    <3> QED
      BY <3>1, Joined
  <2> HIDE DEF z
  <2>3. z \in Seq(E) /\ Len(z) = 1 + Len(t) /\ z[1] = a /\ (Len(t) = 1 => z[2] = b)
    BY <1>4, <2>1, <2>2, SMTT(30)
  <2> QED
    BY <2>3 DEF z, o
<1> HIDE DEF y
<1>7. /\ x \in Seq(E) /\ size = (1 + Len(t)) + Len(u)
      /\ x[1] = a /\ (Len(t) = 1 => x[2] = b) /\ (Len(u) = 1 => x[size] = c)
  <2>1. /\ x \in Seq(E) /\ size = Len(y) + Len(u)
        /\ \A j \in 1 .. Len(y) + Len(u) : x[j] = IF j <= Len(y) THEN y[j] ELSE u[j - Len(y)]
    <3>1. y \in Seq(E) /\ u \in Seq(E)
      BY <1>5, <1>6
    <3> QED
      BY <3>1, Joined
  <2> HIDE DEF x, size
  <2>2. size = (1 + Len(t)) + Len(u)
    BY <1>6, <2>1
  <2> DEFINE k == Len(t)
             l == Len(u)
  <2>3. k \in {0, 1} /\ l \in {0, 1} /\ Len(y) = 1 + k /\ size = (1 + k) + l
    BY <1>4, <1>5, <1>6, <2>2
  <2> HIDE DEF k, l
  <2>4. /\ 1 \in 1 .. (1 + k) + l /\ 1 <= 1 + k
        /\ k = 1 => 2 \in 1 .. (1 + k) + l /\ 2 <= 1 + k
        /\ l = 1 => size \in 1 .. (1 + k) + l /\ ~ (size <= 1 + k) /\ size - (1 + k) = 1
    BY <2>3, SMTT(30)
  <2>5. \A j \in 1 .. (1 + k) + l : x[j] = IF j <= 1 + k THEN y[j] ELSE u[j - (1 + k)]
    BY <2>1, <2>3 DEF l
  <2>6. x[1] = y[1] /\ (k = 1 => x[2] = y[2]) /\ (l = 1 => x[size] = u[1])
    BY <2>4, <2>5
  <2> QED
    BY <1>5, <1>6, <2>1, <2>2, <2>6 DEF k, l
<1> DEFINE tn == Len(t)
           un == Len(u)
<1>8. /\ tn \in {0, 1} /\ un \in {0, 1} /\ size = (1 + tn) + un
      /\ (t = <<>> <=> tn = 0) /\ (u = <<>> <=> un = 0)
      /\ x[1] = a /\ (tn = 1 => x[2] = b) /\ (un = 1 => x[size] = c)
  BY <1>4, <1>5, <1>7
<1> HIDE DEF x, size, tn, un
<1>9. \A i \in 1 .. size : i = 1 \/ (tn = 1 /\ i = 2) \/ (un = 1 /\ i = size)
  BY <1>8, SMTT(30)
<1>10. /\ 1 \in 1 .. size /\ (tn = 1 => 2 \in 1 .. size /\ 2 # 1)
       /\ (un = 1 => size \in 1 .. size /\ size # 1 /\ size \in Int)
       /\ (tn = 1 /\ un = 1 => size # 2)
  BY <1>8, SMTT(30)
<1>11. /\ a.ext_type \in {1, 2} /\ a.ext_type # 5 /\ a.ext_type # key
       /\ b.ext_type \notin {1, 2} /\ b.ext_type = 5 /\ b.ext_type # key
       /\ c.ext_type \notin {1, 2} /\ c.ext_type # 5 /\ c.ext_type = key
  BY <1>2, SMTT(30)
<1>12. size = Len(hs.extensions)
  BY <1>3 DEF size
<1>13. /\ Found(hs, {1, 2}) = {1}
       /\ Found(hs, {5}) = IF tn = 0 THEN {} ELSE {2}
       /\ Found(hs, {key}) = IF un = 0 THEN {} ELSE {size}
  <2>1. ASSUME NEW T PROVE \A i : i \in Found(hs, T) <=> i \in 1 .. size /\ x[i].ext_type \in T
    BY <1>3, <1>12 DEF Found
  <2>2. ASSUME NEW i \in 1 .. size
        PROVE  /\ x[i].ext_type \in {1, 2} <=> i = 1
               /\ x[i].ext_type \in {5} <=> tn = 1 /\ i = 2
               /\ x[i].ext_type \in {key} <=> un = 1 /\ i = size
    <3>1. CASE i = 1
      BY <1>8, <1>10, <1>11, <3>1
    <3>2. CASE tn = 1 /\ i = 2
      <4>1. x[i] = b /\ i # 1 /\ (un = 1 => i # size)
        BY <1>8, <1>10, <3>2
      <4> QED
        BY <1>11, <3>2, <4>1
    <3>3. CASE un = 1 /\ i = size
      <4>1. x[i] = c /\ i # 1 /\ (tn = 1 => i # 2)
        BY <1>8, <1>10, <3>3
      <4> QED
        BY <1>11, <3>3, <4>1
    <3> QED
      BY <1>9, <3>1, <3>2, <3>3
  <2>3. (tn = 0 <=> ~ (tn = 1)) /\ (un = 0 <=> ~ (un = 1))
    BY <1>8, SMTT(30)
  <2>4. Found(hs, {1, 2}) = {1}
    <3>1. ASSUME NEW i PROVE i \in Found(hs, {1, 2}) <=> i \in {1}
      <4>1. i \in Found(hs, {1, 2}) <=> i \in 1 .. size /\ x[i].ext_type \in {1, 2}
        BY <2>1
      <4> QED
        BY <1>10, <2>2, <4>1
    <3> QED
      BY <3>1
  <2>5. Found(hs, {5}) = IF tn = 0 THEN {} ELSE {2}
    <3>1. ASSUME NEW i PROVE i \in Found(hs, {5}) <=> tn = 1 /\ i = 2
      <4>1. i \in Found(hs, {5}) <=> i \in 1 .. size /\ x[i].ext_type \in {5}
        BY <2>1
      <4> QED
        BY <1>10, <2>2, <4>1
    <3> QED
      BY <2>3, <3>1
  <2>6. Found(hs, {key}) = IF un = 0 THEN {} ELSE {size}
    <3>1. ASSUME NEW i PROVE i \in Found(hs, {key}) <=> un = 1 /\ i = size
      <4>1. i \in Found(hs, {key}) <=> i \in 1 .. size /\ x[i].ext_type \in {key}
        BY <2>1
      <4> QED
        BY <1>10, <2>2, <4>1
    <3> QED
      BY <2>3, <3>1
  <2> QED
    BY <2>4, <2>5, <2>6
<1>14. Carries(hs, {1, 2}, a)
  <2>1. 1 \in Int
    BY SMTT(30)
  <2>2. Content(hs, {1, 2}) = hs.extensions[1].content
    BY <1>13, <2>1, ContentOf
  <2> QED
    BY <1>3, <1>8, <1>13, <2>2 DEF Carries
<1>15. ASSUME tn # 0 PROVE Carries(hs, {5}, b)
  <2>1. 2 \in Int
    BY SMTT(30)
  <2>2. tn = 1 /\ Found(hs, {5}) = {2}
    BY <1>8, <1>13, <1>15
  <2>3. Content(hs, {5}) = hs.extensions[2].content
    BY <2>1, <2>2, ContentOf
  <2> QED
    BY <1>3, <1>8, <2>2, <2>3 DEF Carries
<1>16. ASSUME un # 0 PROVE Carries(hs, {key}, c)
  <2>2. un = 1 /\ Found(hs, {key}) = {size} /\ size \in Int
    BY <1>8, <1>10, <1>13, <1>16
  <2>3. Content(hs, {key}) = hs.extensions[size].content
    BY <2>2, ContentOf
  <2> QED
    BY <1>3, <1>8, <2>2, <2>3 DEF Carries
<1>17. \A i \in 1 .. size : WellFormed(x[i])
  <2>1. WellFormed(b) /\ WellFormed(c)
    BY <1>2, <1>11 DEF WellFormed
  <2> QED
    BY <1>3, <1>8, <1>9, <2>1
<1>18. hs.extensions \in Seq(Extensions(S))
  BY <1>3, <1>7 DEF E
<1>19. \A i \in 1 .. Len(hs.extensions) : WellFormed(hs.extensions[i])
  BY <1>3, <1>12, <1>17
<1> QED
  BY <1>2, <1>8, <1>13, <1>14, <1>15, <1>16, <1>18, <1>19

(* What the SRT extension of a handshake carries.                          *)
LEMMA SrtExtension ==
    ASSUME NEW latency
    PROVE  /\ \E S : SrtHandshakeExt(latency) \in Seq(S)
           /\ Len(SrtHandshakeExt(latency)) = 3
           /\ SrtHandshakeExt(latency)[3][1] = latency
<1> DEFINE delays == <<latency, latency>>
           S == {66820, 59, delays}
<1>1. delays[1] = latency
  BY SMTT(30)
<1> HIDE DEF delays
<1>2. /\ SrtHandshakeExt(latency) \in Seq(S) /\ Len(SrtHandshakeExt(latency)) = 3
      /\ SrtHandshakeExt(latency)[3] = delays
  BY SMTT(30) DEF SrtHandshakeExt, delays
<1> HIDE DEF S
<1> QED
  BY <1>1, <1>2

(* A handshake that was decoded is no refusal.                             *)
LEMMA Decodable ==
    ASSUME NEW hs, hs.version \in Nat
    PROVE  hs # Undecodable
<1>1. Undecodable.version = None
  BY DEF Undecodable
<1> QED
  BY <1>1, NoneAssumption

\* A conclusion that carries the latency and maybe a Stream ID and a key.
IsConclusion(hs, ext, latency, t, s, u, key, p) ==
    /\ IsHandshake(hs)
    /\ ext \in {EXT_HSREQ, EXT_HSRSP} /\ key \in {EXT_KMREQ, EXT_KMRSP}
    /\ s \in Seq(1 .. 255)
    /\ t \in {<<>>, <<Extension(EXT_SID, EncodeStreamId(s))>>}
    /\ u \in {<<>>, <<Extension(key, EncodeKeyMaterial(p))>>}
    /\ hs.extensions = (<<Extension(ext, SrtHandshakeExt(latency))>> \o t) \o u

(* A conclusion with its SRT, Stream ID and Key Material extensions comes  *)
(* back whole, and the reader finds what is in them.                       *)
LEMMA ExtensionsFound ==
    ASSUME NEW hs, NEW ext, NEW latency, NEW t, NEW s, NEW u, NEW key, NEW p,
           IsConclusion(hs, ext, latency, t, s, u, key, p)
    PROVE  /\ DecodeHandshake(EncodeHandshake(hs)) = hs
           /\ ReportedLatency(hs) = latency
           /\ ReadsStreamId(hs) = IF t = <<>> THEN None ELSE s
           /\ key = EXT_KMREQ => ReportedKey(hs) = IF u = <<>> THEN NoPassphrase ELSE p
<1> DEFINE a == Extension(ext, SrtHandshakeExt(latency))
           b == Extension(EXT_SID, EncodeStreamId(s))
           c == Extension(key, EncodeKeyMaterial(p))
           x == (<<a>> \o t) \o u
<1>1. PICK Q : SrtHandshakeExt(latency) \in Seq(Q)
  BY SrtExtension
<1>2. PICK R : EncodeKeyMaterial(p) \in Seq(R)
  BY KeyMaterialReadBack
<1>3. PICK Block : EncodeStreamId(s) \in Seq(Block)
  BY StreamIdReadBack DEF IsConclusion
<1> DEFINE S == (Q \cup R) \cup Block
<1>4. EXT_HSREQ \in Nat /\ EXT_HSRSP \in Nat /\ EXT_KMREQ \in Nat /\ EXT_KMRSP \in Nat
      /\ EXT_SID \in Nat
  BY SMTT(30) DEF EXT_HSREQ, EXT_HSRSP, EXT_KMREQ, EXT_KMRSP, EXT_SID
<1>5. ext \in Nat /\ key \in Nat
  BY <1>4 DEF IsConclusion
<1>6. /\ SrtHandshakeExt(latency) \in Seq(S) /\ EncodeKeyMaterial(p) \in Seq(S)
      /\ EncodeStreamId(s) \in Seq(S)
  <2>1. Q \subseteq S /\ R \subseteq S /\ Block \subseteq S
    OBVIOUS
  <2> HIDE DEF S
  <2>2. \A U : U \subseteq S => Seq(U) \subseteq Seq(S)
    BY SMTT(30)
  <2> QED
    BY <1>1, <1>2, <1>3, <2>1, <2>2
<1> HIDE DEF S
<1>7. \A n \in Nat : \A w \in Seq(S) :
         /\ Extension(n, w) \in Extensions(S)
         /\ Extension(n, w).ext_type = n /\ Extension(n, w).content = w
  BY DEF Extension, Extensions
<1>8. /\ a \in Extensions(S) /\ a.ext_type = ext /\ a.content = SrtHandshakeExt(latency)
      /\ b \in Extensions(S) /\ b.ext_type = EXT_SID /\ b.content = EncodeStreamId(s)
      /\ c \in Extensions(S) /\ c.ext_type = key /\ c.content = EncodeKeyMaterial(p)
  BY <1>4, <1>5, <1>6, <1>7
<1>9. /\ t \in {<<>>, <<b>>} /\ u \in {<<>>, <<c>>} /\ hs.extensions = (<<a>> \o t) \o u
      /\ ext \in {EXT_HSREQ, EXT_HSRSP} /\ key \in {EXT_KMREQ, EXT_KMRSP}
      /\ IsHandshake(hs)
  BY DEF IsConclusion
<1>10. WellFormed(a)
  BY <1>8, SrtExtension DEF WellFormed
<1> HIDE DEF a, b, c
<1>11. Extended(hs, S, a, b, c, t, u, key)
  BY <1>8, <1>9, <1>10 DEF Extended
<1>12. /\ hs.extensions \in Seq(Extensions(S))
       /\ \A i \in 1 .. Len(hs.extensions) : WellFormed(hs.extensions[i])
       /\ Carries(hs, {EXT_HSREQ, EXT_HSRSP}, a)
       /\ IF t = <<>> THEN Found(hs, {EXT_SID}) = {} ELSE Carries(hs, {EXT_SID}, b)
       /\ IF u = <<>> THEN Found(hs, {key}) = {} ELSE Carries(hs, {key}, c)
  BY <1>11, CarriedExtensions
<1>13. DecodeHandshake(EncodeHandshake(hs)) = hs
  BY <1>9, <1>12, HandshakeReadBack
<1>14. ReportedLatency(hs) = latency
  BY <1>8, <1>12, SrtExtension DEF ReportedLatency, Carries
<1>15. ReadsStreamId(hs) = IF t = <<>> THEN None ELSE s
  <2>1. DecodeStreamId(EncodeStreamId(s)) = s
    BY StreamIdReadBack DEF IsConclusion
  <2> QED
    BY <1>8, <1>12, <2>1 DEF ReadsStreamId, Carries
<1>16. ASSUME key = EXT_KMREQ
       PROVE  ReportedKey(hs) = IF u = <<>> THEN NoPassphrase ELSE p
  BY <1>8, <1>12, <1>16, KeyMaterialReadBack DEF ReportedKey, Carries
<1> QED
  BY <1>13, <1>14, <1>15, <1>16

(* The listener reads a conclusion as the caller meant it.                 *)
LEMMA ConclusionReadBack ==
    ASSUME NEW m \in ConclusionMessage
    PROVE  LET hs == DecodeHandshake(EncodeHandshake(CallerHandshake(m)))
           IN  ListenerReads(hs) = m /\ ReadsStreamId(hs) = StreamId[m.attempt]
<1> DEFINE a == m.attempt
           s == IF StreamId[a] = None THEN <<>> ELSE StreamId[a]
           t == StreamIdExtension(a)
           u == KeyExtension(EXT_KMREQ, m.km)
           en == IF m.km = NoPassphrase THEN 0 ELSE 2
           ef == ExtFlags(m.km) + IF StreamId[a] = None THEN 0 ELSE 4
           x == (<<Extension(EXT_HSREQ, SrtHandshakeExt(m.latency))>> \o t) \o u
           hs == CallerHandshake(m)
<1>1. /\ m = [type |-> "Conclusion", attempt |-> a, cookie |-> m.cookie,
              latency |-> m.latency, km |-> m.km]
      /\ a \in Attempts /\ m.type = "Conclusion"
  BY SMTT(30) DEF ConclusionMessage, Conclusion
<1>2. s \in Seq(1 .. 255)
  <2>1. StreamId[a] \in Seq(1 .. 255) \cup {None}
    BY <1>1, HandshakeWireAssumption
  <2>2. <<>> \in Seq(1 .. 255)
    BY SMTT(30)
  <2> QED
    BY <2>1, <2>2
<1>3. t = IF StreamId[a] = None THEN <<>> ELSE <<Extension(EXT_SID, EncodeStreamId(s))>>
  BY DEF StreamIdExtension
<1>4. u = IF m.km = NoPassphrase THEN <<>>
          ELSE <<Extension(EXT_KMREQ, EncodeKeyMaterial(m.km))>>
  BY DEF KeyExtension
<1>5. \A e : <<e>> # <<>>
  BY SMTT(30)
<1>6. en \in {0, 2} /\ HS_VERSION_SRT \in Nat
  BY SMTT(30) DEF HS_VERSION_SRT
<1>7. hs = [version |-> HS_VERSION_SRT, encryption |-> en, extension_field |-> ef,
            initial_seq |-> a, handshake_type |-> CONCLUSION, srt_socket_id |-> a,
            syn_cookie |-> m.cookie, extensions |-> x]
  <2> HIDE DEF t, u, a
  <2>1. hs = Encrypted(Handshake(HS_VERSION_SRT, ef, a, CONCLUSION, a, m.cookie, x), m.km)
    BY <1>1 DEF CallerHandshake, a, t, u
  <2> HIDE DEF hs, x, ef
  <2> QED
    BY <2>1 DEF Encrypted, Handshake
<1> HIDE DEF hs, s, t, u, en, ef
<1>8. /\ DecodeHandshake(EncodeHandshake(hs)) = hs
      /\ ReportedLatency(hs) = m.latency
      /\ ReadsStreamId(hs) = IF t = <<>> THEN None ELSE s
      /\ ReportedKey(hs) = IF u = <<>> THEN NoPassphrase ELSE m.km
  <2>1. IsHandshake(hs) /\ hs.extensions = x
    BY <1>6, <1>7 DEF IsHandshake
  <2>2. /\ t \in {<<>>, <<Extension(EXT_SID, EncodeStreamId(s))>>}
        /\ u \in {<<>>, <<Extension(EXT_KMREQ, EncodeKeyMaterial(m.km))>>}
    BY <1>3, <1>4
  <2>3. IsConclusion(hs, EXT_HSREQ, m.latency, t, s, u, EXT_KMREQ, m.km)
    BY <1>2, <2>1, <2>2 DEF IsConclusion
  <2> QED
    BY <2>3, ExtensionsFound
<1>9. ReportedKey(hs) = m.km
  BY <1>4, <1>5, <1>8
<1>10. ReadsStreamId(hs) = StreamId[a]
  BY <1>3, <1>5, <1>8 DEF s
<1>11. /\ hs.version = HS_VERSION_SRT /\ hs.handshake_type = CONCLUSION
       /\ hs.initial_seq = a /\ hs.syn_cookie = m.cookie
  BY <1>7
<1>12. hs # Undecodable
  BY <1>6, <1>11, Decodable
<1>13. CONCLUSION # INDUCTION
  BY TypesApart
<1>14. ListenerReads(hs)
         = [type |-> "Conclusion", attempt |-> a, cookie |-> m.cookie,
            latency |-> m.latency, km |-> m.km]
  BY <1>8, <1>9, <1>11, <1>12, <1>13 DEF ListenerReads
<1> QED
  BY <1>1, <1>8, <1>10, <1>14 DEF hs

(* A handshake without extensions comes back whole.                        *)
LEMMA PlainReadBack ==
    ASSUME NEW v, NEW ef, NEW seq, NEW ht, NEW id, NEW ck
    PROVE  LET hs == Handshake(v, ef, seq, ht, id, ck, <<>>)
           IN  DecodeHandshake(EncodeHandshake(hs)) = hs
<1> DEFINE hs == Handshake(v, ef, seq, ht, id, ck, <<>>)
<1>1. IsHandshake(hs) /\ hs.extensions = <<>>
  BY DEF IsHandshake, Handshake
<1>2. <<>> \in Seq(Extensions({})) /\ \A i \in 1 .. Len(<<>>) : WellFormed(<<>>[i])
  BY SMTT(30)
<1> HIDE DEF hs
<1>3. DecodeHandshake(EncodeHandshake(hs)) = hs
  BY <1>1, <1>2, HandshakeReadBack
<1> QED
  BY <1>3 DEF hs

(* The listener reads an induction as the caller meant it.                 *)
LEMMA InductionReadBack ==
    ASSUME NEW a
    PROVE  ListenerReads(DecodeHandshake(EncodeHandshake(CallerHandshake(Induction(a)))))
             = Induction(a)
<1> DEFINE hs == Handshake(HS_VERSION_UDT, 2, a, INDUCTION, a, 0, <<>>)
<1>1. CallerHandshake(Induction(a)) = hs
  BY DEF CallerHandshake, Induction
<1>2. hs.version = HS_VERSION_UDT /\ hs.handshake_type = INDUCTION /\ hs.srt_socket_id = a
  BY DEF Handshake
<1>3. DecodeHandshake(EncodeHandshake(hs)) = hs
  BY PlainReadBack
<1> HIDE DEF hs
<1>4. HS_VERSION_UDT \in Nat
  BY SMTT(30) DEF HS_VERSION_UDT
<1>5. hs # Undecodable
  BY <1>2, <1>4, Decodable
<1>6. INDUCTION # CONCLUSION
  BY TypesApart
<1>7. ListenerReads(hs) = Induction(a)
  BY <1>2, <1>5, <1>6 DEF ListenerReads
<1> QED
  BY <1>1, <1>3, <1>7

(* A caller reads an induction response as the listener meant it.          *)
LEMMA InductionResponseReadBack ==
    ASSUME NEW cookie
    PROVE  CallerReads(DecodeHandshake(EncodeHandshake(
             AnswerHandshake(InductionResponse(cookie))))) = InductionResponse(cookie)
<1> DEFINE hs == Handshake(HS_VERSION_SRT, SRT_MAGIC, 0, INDUCTION, 0, cookie, <<>>)
           m == InductionResponse(cookie)
<1>1. m.type = "InductionResponse" /\ m.cookie = cookie
  BY DEF InductionResponse
<1> HIDE DEF m
<1>2. AnswerHandshake(m) = hs
  BY <1>1, SMTT(30) DEF AnswerHandshake
<1>3. /\ hs.version = HS_VERSION_SRT /\ hs.handshake_type = INDUCTION
      /\ hs.extension_field = SRT_MAGIC /\ hs.syn_cookie = cookie
  BY DEF Handshake
<1>4. DecodeHandshake(EncodeHandshake(hs)) = hs
  BY PlainReadBack
<1> HIDE DEF hs
<1>5. HS_VERSION_SRT \in Nat
  BY SMTT(30) DEF HS_VERSION_SRT
<1>6. hs # Undecodable
  BY <1>3, <1>5, Decodable
<1>7. INDUCTION # CONCLUSION /\ ~ IsRejection(INDUCTION)
  BY TypesApart
<1>8. CallerReads(hs) = InductionResponse(cookie)
  BY <1>3, <1>6, <1>7 DEF CallerReads
<1> QED
  BY <1>2, <1>4, <1>8 DEF m

(* A caller reads a rejection as the listener meant it.                    *)
LEMMA RejectedReadBack ==
    ASSUME NEW r \in DOMAIN Code
    PROVE  CallerReads(DecodeHandshake(EncodeHandshake(AnswerHandshake(Rejection(r)))))
             = Rejection(r)
<1> DEFINE ht == REJECTION_BASE + Code[r]
           hs == Handshake(HS_VERSION_SRT, 0, 0, ht, 0, 0, <<>>)
           m == Rejection(r)
<1>1. m.type = "Rejection" /\ m.reason = r
  BY DEF Rejection
<1>2. IsRejection(ht) /\ ReasonOf(ht) = r
  BY RejectionReadBack
<1> HIDE DEF m
<1>3. AnswerHandshake(m) = hs
  BY <1>1, SMTT(30) DEF AnswerHandshake
<1> HIDE DEF ht
<1>4. hs.version = HS_VERSION_SRT /\ hs.handshake_type = ht
  BY DEF Handshake
<1>5. DecodeHandshake(EncodeHandshake(hs)) = hs
  BY PlainReadBack
<1> HIDE DEF hs
<1>6. HS_VERSION_SRT \in Nat
  BY SMTT(30) DEF HS_VERSION_SRT
<1>7. hs # Undecodable
  BY <1>4, <1>6, Decodable
<1>8. ht # INDUCTION /\ ht # CONCLUSION
  BY <1>2, TypesApart
<1>9. CallerReads(hs) = Rejection(r)
  BY <1>2, <1>4, <1>7, <1>8 DEF CallerReads
<1> QED
  BY <1>3, <1>5, <1>9 DEF m

(* A caller reads a conclusion response as the listener meant it.          *)
LEMMA ConclusionResponseReadBack ==
    ASSUME NEW id, NEW conclusion
    PROVE  LET m == ConclusionResponse(id, conclusion)
           IN  CallerReads(DecodeHandshake(EncodeHandshake(AnswerHandshake(m)))) = m
<1> DEFINE m == ConclusionResponse(id, conclusion)
           p == ListenerPassphrase
           ext == Extension(EXT_HSRSP, SrtHandshakeExt(m.latency))
           u == KeyExtension(EXT_KMRSP, p)
           en == IF p = NoPassphrase THEN 0 ELSE 2
           x == <<ext>> \o u
           hs == AnswerHandshake(m)
<1>1. /\ m.type = "ConclusionResponse"
      /\ m = [type |-> "ConclusionResponse", id |-> m.id, attempt |-> m.attempt,
              latency |-> m.latency]
  BY DEF ConclusionResponse
<1> HIDE DEF m
<1>2. u \in {<<>>, <<Extension(EXT_KMRSP, EncodeKeyMaterial(p))>>}
  BY DEF KeyExtension
<1>3. en \in {0, 2} /\ HS_VERSION_SRT \in Nat /\ <<>> \in Seq(1 .. 255)
  BY SMTT(30) DEF HS_VERSION_SRT
<1>4. hs = Encrypted(Handshake(HS_VERSION_SRT, ExtFlags(p), m.attempt, CONCLUSION, m.id, 0, x),
             p)
  <2> HIDE DEF u
  <2> QED
    BY <1>1, SMTT(30) DEF AnswerHandshake, u
<1> HIDE DEF hs, x
<1>5. hs = [version |-> HS_VERSION_SRT, encryption |-> en, extension_field |-> ExtFlags(p),
            initial_seq |-> m.attempt, handshake_type |-> CONCLUSION,
            srt_socket_id |-> m.id, syn_cookie |-> 0, extensions |-> x]
  BY <1>4 DEF Encrypted, Handshake
<1> HIDE DEF en
<1>6. <<ext>> = <<ext>> \o <<>>
  <2> HIDE DEF ext
  <2> QED
    BY SMTT(30)
<1>7. IsHandshake(hs) /\ hs.extensions = (<<ext>> \o <<>>) \o u
  <2>1. IsHandshake(hs) /\ hs.extensions = x
    BY <1>3, <1>5 DEF IsHandshake
  <2> HIDE DEF ext, u
  <2> QED
    BY <1>6, <2>1 DEF x
<1> HIDE DEF u
<1>8. IsConclusion(hs, EXT_HSRSP, m.latency, <<>>, <<>>, u, EXT_KMRSP, p)
  BY <1>2, <1>3, <1>7 DEF IsConclusion
<1>9. DecodeHandshake(EncodeHandshake(hs)) = hs /\ ReportedLatency(hs) = m.latency
  BY <1>8, ExtensionsFound
<1>10. /\ hs.version = HS_VERSION_SRT /\ hs.handshake_type = CONCLUSION
       /\ hs.srt_socket_id = m.id /\ hs.initial_seq = m.attempt
  BY <1>5
<1>11. hs # Undecodable
  BY <1>3, <1>10, Decodable
<1>12. CONCLUSION # INDUCTION /\ ~ IsRejection(CONCLUSION)
  BY TypesApart
<1>13. CallerReads(hs) = [type |-> "ConclusionResponse", id |-> m.id,
                          attempt |-> m.attempt, latency |-> m.latency]
  BY <1>9, <1>10, <1>11, <1>12 DEF CallerReads
<1> QED
  BY <1>1, <1>9, <1>13 DEF m, hs

(* Every handshake that the endpoints put in flight is read by the other   *)
(* end as it was meant: the encoder's and the decoder's loops over the     *)
(* extensions, the padding and the byte order of the Stream ID, the layout *)
(* of the Key Material and the ranges of the handshake types undo each     *)
(* other for every Stream ID, latency, passphrase and cookie.              *)
THEOREM HandshakesAlwaysUnderstood == Spec => []HandshakesUnderstood
<1>1. TypeInv => HandshakesUnderstood
  <2> SUFFICES ASSUME TypeInv PROVE HandshakesUnderstood
    OBVIOUS
  <2>1. ASSUME NEW d \in to_listener, d.msg.type \in {"Induction", "Conclusion"}
        PROVE  LET hs == DecodeHandshake(EncodeHandshake(CallerHandshake(d.msg)))
               IN  /\ ListenerReads(hs) = d.msg
                   /\ d.msg.type = "Conclusion" =>
                         ReadsStreamId(hs) = StreamId[d.msg.attempt]
    <3>1. d.msg \in HandshakeMessage
      BY <2>1, ListenerMessages DEF TypeInv, NetworkTyped
    <3>2. CASE d.msg \in ConclusionMessage
      BY <3>2, ConclusionReadBack
    <3>3. ASSUME NEW a \in Attempts, d.msg = Induction(a)
          PROVE  /\ d.msg.type # "Conclusion"
                 /\ ListenerReads(DecodeHandshake(EncodeHandshake(CallerHandshake(d.msg))))
                      = d.msg
      <4>1. Induction(a).type = "Induction"
        BY DEF Induction
      <4> QED
        BY <3>3, <4>1, InductionReadBack
    <3> QED
      BY <3>1, <3>2, <3>3 DEF HandshakeMessage
  <2>2. ASSUME NEW d \in to_caller
        PROVE  CallerReads(DecodeHandshake(EncodeHandshake(AnswerHandshake(d.msg)))) = d.msg
    <3>1. d.msg \in AnswerMessage
      BY <2>2 DEF TypeInv, NetworkTyped
    <3>2. Reasons \subseteq DOMAIN Code
      BY DEF Reasons, Code
    <3>3. ASSUME NEW cookie, d.msg = InductionResponse(cookie)
          PROVE  CallerReads(DecodeHandshake(EncodeHandshake(AnswerHandshake(d.msg)))) = d.msg
      BY <3>3, InductionResponseReadBack
    <3>4. ASSUME NEW id, NEW c, d.msg = ConclusionResponse(id, c)
          PROVE  CallerReads(DecodeHandshake(EncodeHandshake(AnswerHandshake(d.msg)))) = d.msg
      BY <3>4, ConclusionResponseReadBack
    <3>5. ASSUME NEW r \in Reasons, d.msg = Rejection(r)
          PROVE  CallerReads(DecodeHandshake(EncodeHandshake(AnswerHandshake(d.msg)))) = d.msg
      BY <3>2, <3>5, RejectedReadBack
    <3>6. \/ \E cookie \in Cookie : d.msg = InductionResponse(cookie)
          \/ \E id \in Id, c \in ConclusionMessage : d.msg = ConclusionResponse(id, c)
          \/ \E r \in Reasons : d.msg = Rejection(r)
      BY <3>1, SMTT(30) DEF AnswerMessage
    <3> QED
      BY <3>3, <3>4, <3>5, <3>6
  <2> QED
    BY <2>1, <2>2 DEF HandshakesUnderstood
<1> QED
  BY <1>1, TypeInvHolds, PTL
=============================================================================
