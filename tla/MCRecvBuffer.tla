---------------------------- MODULE MCRecvBuffer ----------------------------
(* The reassembly buffer for TLC: a number space of 8, wrapped twice.      *)
EXTENDS RecvBufferSpec
=============================================================================
