---------------------------- MODULE MCClientStream ----------------------------
(* A small instance of ClientStream for TLC. *)
EXTENDS ClientStream

CONSTANTS p1, g1, g2
=============================================================================
