---------------------------- MODULE MCConnDriver ----------------------------
(* The driver of one connection for TLC.                                   *)
EXTENDS ConnDriver
=============================================================================
