------------------------------- MODULE SeqNum -------------------------------
(***************************************************************************)
(* SRT's circular data sequence numbers (srt-protocol/src/seq.rs).         *)
(*                                                                         *)
(* The code numbers packets modulo COUNT = 2^31 and compares two numbers   *)
(* by the shorter way around the circle.  HALF is the code's 2^30; every   *)
(* operator is linear in its arguments so that the provers can follow it.  *)
(***************************************************************************)
EXTENDS Integers

CONSTANT HALF

ASSUME HalfAssumption == HALF \in Nat /\ HALF >= 2

COUNT == 2 * HALF
THRESHOLD == HALF - 1
SeqNumber == 0 .. COUNT - 1

\* Reduction to the number space ("& MASK").  Every argument in the code lies
\* within one turn of it.
Mask(n) ==
    IF n < 0 THEN n + COUNT ELSE IF n >= COUNT THEN n - COUNT ELSE n

\* Mutant: forgets to wrap.
SeqNextUnmasked(s) == s + 1

SeqNext(s) == Mask(s + 1)

SeqPrev(s) == Mask(s - 1)

SeqAdd(s, n) == Mask(s + n)

\* SeqNumber::offset_from: the signed circular distance from b to a.
OffsetFrom(a, b) ==
    LET forward == Mask(a - b)
    IN  IF forward <= THRESHOLD THEN forward ELSE forward - COUNT

\* SeqNumber::circular_cmp(a, b) is Less, respectively Greater.
Before(a, b) == OffsetFrom(a, b) < 0
After(a, b) == OffsetFrom(a, b) > 0
=============================================================================
