------------------------------ MODULE Timeline ------------------------------
(***************************************************************************)
(* What the receiver's clockwork rests on: packets stamped with a clock    *)
(* that wraps, accepted late, out of order or not at all, and the times    *)
(* the receiver makes of their stamps (tsbpd_base and ts_wrap in           *)
(* srt-protocol/src/connection/arq.rs).                                    *)
(*                                                                         *)
(* A time is a pair [base, micros]: the stamp on the wire and, known only  *)
(* to the specification, the microseconds of the completed periods.        *)
(***************************************************************************)
EXTENDS Timestamp

VARIABLES clock,   \* the sender's time
          sent,    \* the times of the packets it has sent
          first,   \* tsbpd_base: the time of the first packet accepted, or Never
          newest,  \* the latest time accepted, or Never
          wrap     \* ts_wrap

timeline == <<clock, sent, first, newest, wrap>>

Time == [base : Nat, micros : Micros]
Never == [base |-> 0, micros |-> -1]

Elapsed(t, u) == (t.base + t.micros) - (u.base + u.micros)

\* The time d microseconds after t.
Later(t, d) ==
    IF t.micros + d < SPACE THEN [t EXCEPT !.micros = @ + d]
    ELSE [base |-> t.base + SPACE, micros |-> t.micros + d - SPACE]

TimelineInit ==
    /\ clock \in Time
    /\ sent = {}
    /\ first = Never
    /\ newest = Never
    /\ wrap = NewTsbpdWrap(0)

\* wire_ts(): a packet is stamped with the time of its sending.
Stamp(d) ==
    /\ clock' = Later(clock, d)
    /\ sent' = sent \cup {clock'}
    /\ UNCHANGED <<first, newest, wrap>>

\* Within half the timestamp space of the newest packet: the limit the code states.
Resolvable(t) ==
    newest # Never => Elapsed(t, newest) \in -TS_HALF .. TS_HALF - 1

\* insert_data() accepts the packet sent at t and anchors or follows the timeline.
Follow(t) ==
    /\ t \in sent
    /\ Resolvable(t)
    /\ first' = IF first = Never THEN t ELSE first
    /\ newest' = IF newest = Never \/ Elapsed(t, newest) > 0 THEN t ELSE newest
    /\ wrap' = IF first = Never THEN NewTsbpdWrap(t.micros) ELSE Observe(wrap, t.micros)
    /\ UNCHANGED <<clock, sent>>

TimelineNext ==
    \/ \E d \in 0 .. TS_HALF - 1 : Stamp(d)
    \/ \E t \in sent : Follow(t)

TimelineSpec == TimelineInit /\ [][TimelineNext]_timeline

\* tsbpd_expected_arrival(), relative to the arrival of the first packet and
\* before drift correction.
ExpectedArrival(micros) == OffsetOf(wrap, micros) - first.micros
-----------------------------------------------------------------------------
(* The receiver's timeline is the sender's: the expected arrival of every  *)
(* packet within half the timestamp space of the newest one is as long     *)
(* after the first packet as it was sent after it, however often the       *)
(* 32-bit stamp has wrapped and in whatever order packets were accepted.   *)
TimelineTrue ==
    first # Never =>
       \A t \in sent : Resolvable(t) => ExpectedArrival(t.micros) = Elapsed(t, first)
=============================================================================
