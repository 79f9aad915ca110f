----------------------------- MODULE MCEndpoint -----------------------------
(* Callers and a listening endpoint for TLC.                               *)
EXTENDS HandshakeWire

\* Values of SourceAddr: two hosts, or one that binds the same port twice.
Apart == [a \in Attempts |-> IF a = "p" THEN "x" ELSE "y"]
Alike == [a \in Attempts |-> "x"]

\* Values of NatAddresses: nobody moves, or everybody to "z" and back.
Fixed == [a \in Attempts |-> {}]
Moving == [a \in Attempts |-> {"z", SourceAddr[a]}]

\* The value of Latency, with MILLI = 2, MaxMillis = 3 and ListenerLatency = 5: less
\* than the listener's, and more than the field holds, neither in whole milliseconds.
Fractional == [a \in Attempts |-> IF a = "p" THEN 3 ELSE 9]

\* The value of StreamId: a word and a half, and none.
Names == [a \in Attempts |-> IF a = "p" THEN <<1, 2, 3, 4, 5, 6>> ELSE None]
=============================================================================
