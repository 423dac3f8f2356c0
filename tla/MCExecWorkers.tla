-------------------------- MODULE MCExecWorkers --------------------------
(* Small instances of ExecWorkers for TLC. *)
EXTENDS ExecWorkers, TLC

CONSTANTS wa, wb

\* Stream order and string order agree except for the last two entries, as for
\* 1700-9 and 1700-10.
MCLexRank == [j \in 1..NJobs |-> IF NJobs > 1 /\ j = NJobs THEN NJobs - 1
                                 ELSE IF j = NJobs - 1 THEN NJobs ELSE j]
MCKind == [j \in 1..NJobs |-> IF j = 2 THEN "unknown" ELSE IF j = 3 THEN "missing" ELSE "known"]
OneSlot == {"s0"}
TwoSlots == {"s0", "s1"}

\* Nothing tells one worker process from another.
Symmetry == Permutations({wa, wb})
=============================================================================
