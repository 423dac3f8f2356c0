-------------------------- MODULE MCBusSubscriber --------------------------
(* Small instances of BusSubscriber for TLC. *)
EXTENDS BusSubscriber

CONSTANTS pa, pb
=============================================================================
