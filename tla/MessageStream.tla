--------------------------- MODULE MessageStream ---------------------------
(***************************************************************************)
(* What an SRT connection promises one direction of traffic: the messages  *)
(* the application receives are messages the other application sent, each  *)
(* whole and at most once, in the order they were sent.  Some may be       *)
(* missing: live delivery gives up on what is too late.                    *)
(***************************************************************************)
EXTENDS Integers, Sequences

VARIABLES sent,       \* the messages sent, in order
          delivered,  \* the messages received, in order
          last        \* the position in sent of the message received last

vars == <<sent, delivered, last>>

Init ==
    /\ sent = <<>>
    /\ delivered = <<>>
    /\ last = 0

\* One message, or a batch of them.
SendMessages ==
    /\ Len(sent') > Len(sent)
    /\ SubSeq(sent', 1, Len(sent)) = sent
    /\ UNCHANGED <<delivered, last>>

\* Several messages may become available at once: the ones at the positions
\* chosen[1] < ... < chosen[n], all of them after the last one received.
DeliverMessages ==
    \E n \in 1 .. Len(sent) - last :
       \E chosen \in [1 .. n -> last + 1 .. Len(sent)] :
          /\ \A i, j \in 1 .. n : i < j => chosen[i] < chosen[j]
          /\ delivered' = delivered \o [i \in 1 .. n |-> sent[chosen[i]]]
          /\ last' = chosen[n]
          /\ UNCHANGED sent

Next == SendMessages \/ DeliverMessages

Spec == Init /\ [][Next]_vars
=============================================================================
