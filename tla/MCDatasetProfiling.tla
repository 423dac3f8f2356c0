------------------------ MODULE MCDatasetProfiling ------------------------
(* Small instances of DatasetProfiling for TLC. *)
EXTENDS DatasetProfiling

CONSTANTS d1, d2, j1, j2, f1
=============================================================================
