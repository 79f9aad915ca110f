------------------------------- MODULE MCLink -------------------------------
(* The link for TLC.                                                       *)
EXTENDS PacketWire, TLC

\* Values of MaxPackets and MaxInFlight: at "a" and at "b".
Both(m, n) == ("a" :> m) @@ ("b" :> n)
Of10 == Both(1, 0)
Of11 == Both(1, 1)
Of12 == Both(1, 2)
Of13 == Both(1, 3)
Of20 == Both(2, 0)
Of22 == Both(2, 2)
Of30 == Both(3, 0)
Of34 == Both(3, 4)
=============================================================================
