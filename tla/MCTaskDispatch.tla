---------------------------- MODULE MCTaskDispatch ----------------------------
(* A small instance of TaskDispatch for TLC. *)
EXTENDS TaskDispatch, TLC

CONSTANTS t1, t2, t3, b1

Symmetry == Permutations(Tasks \ Cancellable)
=============================================================================
