----------------------------- MODULE Timestamp ------------------------------
(***************************************************************************)
(* SRT's wrapping packet timestamps and the tracker that unwraps them      *)
(* (srt-protocol/src/timestamp.rs).                                        *)
(*                                                                         *)
(* The code's timestamps are microseconds modulo SPACE = 2^32, compared by *)
(* their difference read as a signed number; TS_HALF is its 2^31.  A       *)
(* tracker is a record [base, last], as TsbpdWrap is.                      *)
(***************************************************************************)
EXTENDS Integers

CONSTANT TS_HALF

ASSUME TsHalfAssumption == TS_HALF \in Nat \ {0}

SPACE == 2 * TS_HALF
Micros == 0 .. SPACE - 1

\* u32 wrapping subtraction, reinterpreted as i32.
WrappingDiff(a, b) ==
    LET forward == IF a >= b THEN a - b ELSE a - b + SPACE
    IN  IF forward < TS_HALF THEN forward ELSE forward - SPACE

NewTsbpdWrap(first) == [base |-> 0, last |-> first]

\* Mutant: takes every numerically smaller timestamp for a wrap.
ObserveNaive(w, ts) ==
    [base |-> IF ts < w.last THEN w.base + SPACE ELSE w.base, last |-> ts]

Observe(w, ts) ==
    IF WrappingDiff(ts, w.last) > 0
    THEN [base |-> IF ts < w.last THEN w.base + SPACE ELSE w.base, last |-> ts]
    ELSE w

OffsetOf(w, ts) == w.base + w.last + WrappingDiff(ts, w.last)
=============================================================================
