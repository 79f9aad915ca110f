------------------------------ MODULE MCRekey -------------------------------
(* Key rotation for TLC.                                                   *)
EXTENDS Rekey

\* Values of Senders.
OneWay == {"caller"}
BothWays == {"caller", "acceptor"}
=============================================================================
