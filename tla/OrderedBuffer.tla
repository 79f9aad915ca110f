--------------------------- MODULE OrderedBuffer ---------------------------
(***************************************************************************)
(* What the reassembly buffer promises, on unbounded packet indices: it    *)
(* holds packets that have not been delivered or given up on, delivers the *)
(* earliest one it holds, and never goes back.                             *)
(***************************************************************************)
EXTENDS Integers

VARIABLES next,  \* every index below it is delivered or given up on
          held,  \* the indices in the buffer
          out    \* the index delivered last

vars == <<next, held, out>>

Init ==
    /\ next = 0
    /\ held = {}
    /\ out = -1

Receive ==
    /\ \E n \in held' \ held : /\ n \in Nat
                             /\ n >= next
                             /\ held' = held \cup {n}
    /\ UNCHANGED <<next, out>>

Deliver ==
    \E n \in held :
       /\ \A m \in held : n <= m
       /\ out' = n
       /\ next' = n + 1
       /\ held' = held \ {n}

GiveUp ==
    /\ next' \in Nat
    /\ next' > next
    /\ held' = {m \in held : m >= next'}
    /\ UNCHANGED out

Next == Receive \/ Deliver \/ GiveUp

Spec == Init /\ [][Next]_vars
=============================================================================
