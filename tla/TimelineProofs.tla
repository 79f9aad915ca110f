--------------------------- MODULE TimelineProofs ---------------------------
(***************************************************************************)
(* The receiver's timeline is the sender's, for every size of the          *)
(* timestamp space and after any number of wraps.                          *)
(***************************************************************************)
EXTENDS Timeline, TLAPS

USE Zenon

\* Base b is that of the period of base c, of the one before, or an earlier one.
Precedes(b, c) == b = c \/ b + SPACE = c \/ b + 2 * SPACE <= c

\* The periods of two times are a whole number of periods apart.
Aligned(t, u) == Precedes(t.base, u.base) \/ Precedes(u.base, t.base)

\* The tracker has counted the periods between the first and the newest packet.
Tracks ==
    IF first = Never THEN newest = Never
    ELSE /\ first \in sent
         /\ newest \in sent
         /\ wrap.base = newest.base - first.base
         /\ wrap.last = newest.micros

IInv ==
    /\ clock \in Time
    /\ sent \subseteq Time
    /\ \A t \in sent : Precedes(t.base, clock.base)
    /\ \A t, u \in sent : Aligned(t, u)
    /\ wrap \in [base : Int, last : Micros]
    /\ Tracks

\* Adding less than a period to a time yields a time of the same or the next one.
LEMMA LaterIsNext ==
    ASSUME NEW t \in Time, NEW d \in 0 .. TS_HALF - 1
    PROVE  /\ Later(t, d) \in Time
           /\ Later(t, d).base = t.base \/ Later(t, d).base = t.base + SPACE
BY TsHalfAssumption, SMT DEF Time, Later, Micros, SPACE

\* Two aligned times within half the space of each other: the difference of their
\* stamps is the time between them.
LEMMA DiffIsElapsed ==
    ASSUME NEW t \in Time, NEW u \in Time, Aligned(t, u),
           Elapsed(t, u) \in -TS_HALF .. TS_HALF - 1
    PROVE  WrappingDiff(t.micros, u.micros) = Elapsed(t, u)
<1> DEFINE d == t.base - u.base
<1>1. /\ t.base \in Nat /\ u.base \in Nat /\ t.micros \in Micros /\ u.micros \in Micros
  BY DEF Time
<1>2. d \in {0, SPACE, -SPACE}
  BY <1>1, TsHalfAssumption, SMT DEF Aligned, Precedes, Elapsed, Micros, SPACE
<1>3. Elapsed(t, u) = d + t.micros - u.micros
  BY <1>1, TsHalfAssumption, SMT DEF Elapsed, Micros, SPACE
<1> QED
  BY <1>1, <1>2, <1>3, TsHalfAssumption, SMT DEF WrappingDiff, Micros, SPACE

\* Following a packet keeps the tracker on the newest one.
LEMMA ObserveTracks ==
    ASSUME NEW t \in Time, NEW u \in Time, NEW w \in [base : Int, last : Micros],
           Aligned(t, u), w.last = u.micros,
           Elapsed(t, u) \in -TS_HALF .. TS_HALF - 1
    PROVE  Observe(w, t.micros) =
              IF Elapsed(t, u) > 0
              THEN [base |-> w.base + (t.base - u.base), last |-> t.micros] ELSE w
<1>1. WrappingDiff(t.micros, u.micros) = Elapsed(t, u)
  BY DiffIsElapsed
<1>2. /\ t.base \in Nat /\ u.base \in Nat /\ t.micros \in Micros /\ u.micros \in Micros
      /\ w.base \in Int
  BY DEF Time
<1>3. CASE Elapsed(t, u) > 0
  <2>1. t.base = u.base \/ t.base = u.base + SPACE
    BY <1>2, <1>3, TsHalfAssumption, SMT DEF Aligned, Precedes, Elapsed, Micros, SPACE
  <2>2. (t.micros < u.micros) <=> (t.base = u.base + SPACE)
    BY <1>2, <1>3, <2>1, TsHalfAssumption, SMT DEF Elapsed, Micros, SPACE
  <2> QED
    BY <1>1, <1>2, <1>3, <2>1, <2>2, TsHalfAssumption, SMT DEF Observe, Micros, SPACE
<1>4. CASE ~ (Elapsed(t, u) > 0)
  BY <1>1, <1>4 DEF Observe
<1> QED
  BY <1>3, <1>4

\* Sending keeps the periods aligned.
LEMMA StampKeeps ==
    ASSUME IInv, NEW d \in 0 .. TS_HALF - 1, Stamp(d)
    PROVE  IInv'
<1> DEFINE now == Later(clock, d)
<1> HIDE DEF now
<1>1. clock' = now /\ sent' = sent \cup {now}
  BY DEF Stamp, now
<1>2. now \in Time /\ (now.base = clock.base \/ now.base = clock.base + SPACE)
  BY LaterIsNext DEF IInv, now
<1>3. clock.base \in Nat /\ now.base \in Nat /\ SPACE \in Nat \ {0}
  BY <1>2, TsHalfAssumption, SMT DEF IInv, Time, SPACE
<1>4. \A t \in sent : t.base \in Nat /\ Precedes(t.base, clock.base)
  BY DEF IInv, Time
<1>5. \A t \in sent' : Precedes(t.base, now.base)
  <2>1. \A t \in sent : Precedes(t.base, now.base)
    BY <1>2, <1>3, <1>4, SMT DEF Precedes
  <2>2. Precedes(now.base, now.base)
    BY DEF Precedes
  <2> QED
    BY <1>1, <2>1, <2>2
<1>6. \A t, u \in sent' : Aligned(t, u)
  <2>1. \A t, u \in sent : Aligned(t, u)
    BY DEF IInv
  <2>2. \A t \in sent' : Aligned(t, now) /\ Aligned(now, t)
    BY <1>5 DEF Aligned
  <2> QED
    BY <1>1, <2>1, <2>2
<1>7. sent' \subseteq Time /\ clock' \in Time
  BY <1>1, <1>2 DEF IInv
<1>8. first' = first /\ newest' = newest /\ wrap' = wrap
  BY DEF Stamp
<1>9. Tracks'
  BY <1>1, <1>8 DEF IInv, Tracks
<1> QED
  BY <1>1, <1>5, <1>6, <1>7, <1>8, <1>9 DEF IInv

\* Accepting a packet keeps the tracker on the newest one.
LEMMA FollowKeeps ==
    ASSUME IInv, NEW t \in sent, Follow(t)
    PROVE  IInv'
<1>1. t \in Time /\ t # Never
  BY TsHalfAssumption, SMT DEF IInv, Time, Never, Micros, SPACE
<1>2. clock' = clock /\ sent' = sent
  BY DEF Follow
<1>3. t.base \in Nat /\ t.micros \in Micros
  BY <1>1 DEF Time
<1>4. CASE first = Never
  <2>1. newest = Never
    BY <1>4 DEF IInv, Tracks
  <2>2. first' = t /\ newest' = t /\ wrap' = [base |-> 0, last |-> t.micros]
    BY <1>4, <2>1 DEF Follow, NewTsbpdWrap
  <2>3. Tracks'
    BY <1>1, <1>2, <1>3, <2>2, SMT DEF Tracks
  <2>4. wrap' \in [base : Int, last : Micros]
    BY <1>3, <2>2, SMT
  <2> QED
    BY <1>2, <2>3, <2>4 DEF IInv
<1>5. CASE first # Never
  <2>1. /\ first \in sent /\ newest \in sent
        /\ wrap.base = newest.base - first.base /\ wrap.last = newest.micros
    BY <1>5 DEF IInv, Tracks
  <2>2. newest \in Time /\ newest # Never /\ first \in Time /\ Aligned(t, newest)
    BY <2>1, TsHalfAssumption, SMT DEF IInv, Time, Never, Micros, SPACE
  <2>3. Elapsed(t, newest) \in -TS_HALF .. TS_HALF - 1
    BY <2>2 DEF Follow, Resolvable
  <2>4. wrap \in [base : Int, last : Micros]
    BY DEF IInv
  <2>5. Observe(wrap, t.micros) =
           IF Elapsed(t, newest) > 0
           THEN [base |-> wrap.base + (t.base - newest.base), last |-> t.micros] ELSE wrap
    BY <1>1, <2>1, <2>2, <2>3, <2>4, ObserveTracks
  <2>6. first' = first /\ wrap' = Observe(wrap, t.micros)
    BY <1>5 DEF Follow
  <2>7. newest' = IF Elapsed(t, newest) > 0 THEN t ELSE newest
    BY <2>2 DEF Follow
  <2>8. first.base \in Nat /\ newest.base \in Nat /\ wrap.base \in Int
    BY <2>2, <2>4 DEF Time
  <2>9. Tracks' /\ wrap' \in [base : Int, last : Micros]
    <3>1. CASE Elapsed(t, newest) > 0
      BY <1>1, <1>2, <1>3, <1>5, <2>1, <2>5, <2>6, <2>7, <2>8, <3>1, SMT DEF Tracks
    <3>2. CASE ~ (Elapsed(t, newest) > 0)
      BY <1>2, <1>5, <2>1, <2>4, <2>5, <2>6, <2>7, <3>2 DEF Tracks
    <3> QED
      BY <3>1, <3>2
  <2> QED
    BY <1>2, <2>9 DEF IInv
<1> QED
  BY <1>4, <1>5

\* The tracker is inductively right.
LEMMA IInvHolds == TimelineSpec => []IInv
<1>1. TimelineInit => IInv
  BY TsHalfAssumption, SMT DEF TimelineInit, IInv, Tracks, NewTsbpdWrap, Micros, SPACE
<1>2. IInv /\ [TimelineNext]_timeline => IInv'
  <2>1. SUFFICES ASSUME IInv, [TimelineNext]_timeline
                 PROVE  IInv'
    OBVIOUS
  <2>2. CASE \E d \in 0 .. TS_HALF - 1 : Stamp(d)
    BY <2>1, <2>2, StampKeeps
  <2>3. CASE \E t \in sent : Follow(t)
    BY <2>1, <2>3, FollowKeeps
  <2>4. CASE UNCHANGED timeline
    BY <2>1, <2>4 DEF IInv, timeline, Tracks
  <2> QED
    BY <2>1, <2>2, <2>3, <2>4 DEF TimelineNext
<1> QED
  BY <1>1, <1>2, PTL DEF TimelineSpec

(* TimelineTrue, for every size of the timestamp space: tsbpd_base and     *)
(* ts_wrap place every packet within half the space of the newest exactly  *)
(* as long after the first packet as it was sent, through any number of    *)
(* wraps and any order of acceptance.                                      *)
THEOREM TimelineIsTrue == TimelineSpec => []TimelineTrue
<1>1. IInv => TimelineTrue
  <2>1. SUFFICES ASSUME IInv, first # Never, NEW t \in sent, Resolvable(t)
                 PROVE  ExpectedArrival(t.micros) = Elapsed(t, first)
    BY DEF TimelineTrue
  <2>2. /\ first \in sent /\ newest \in sent
        /\ wrap.base = newest.base - first.base /\ wrap.last = newest.micros
    BY <2>1 DEF IInv, Tracks
  <2>3. t \in Time /\ newest \in Time /\ newest # Never /\ first \in Time
    BY <2>1, <2>2, TsHalfAssumption, SMT DEF IInv, Time, Never, Micros, SPACE
  <2>4. Aligned(t, newest) /\ Elapsed(t, newest) \in -TS_HALF .. TS_HALF - 1
    BY <2>1, <2>2, <2>3 DEF IInv, Resolvable
  <2>5. WrappingDiff(t.micros, wrap.last) = Elapsed(t, newest)
    BY <2>2, <2>3, <2>4, DiffIsElapsed
  <2>6. /\ t.base \in Nat /\ newest.base \in Nat /\ first.base \in Nat
        /\ t.micros \in Int /\ newest.micros \in Int /\ first.micros \in Int
    BY <2>3, SMT DEF Time, Micros
  <2> QED
    BY <2>2, <2>5, <2>6, SMT DEF ExpectedArrival, OffsetOf, Elapsed
<1> QED
  BY <1>1, IInvHolds, PTL
=============================================================================
