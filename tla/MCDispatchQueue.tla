-------------------------- MODULE MCDispatchQueue --------------------------
(* Small instances of DispatchQueue for TLC. *)
EXTENDS DispatchQueue, TLC

CONSTANTS u1, u2, u3, g1, g2, alice, bob, system

\* Two tasks of one free user, one of a paying user, two generated ones.
MCTasks == {u1, u2, u3, g1, g2}
\* For liveness: one task of each user, two generated ones.
MCFewTasks == {u1, u3, g1, g2}

UserOf(t) == IF t \in {u1, u2} THEN alice ELSE IF t = u3 THEN bob ELSE system
TierOf(t) ==
  IF t \in {u1, u2} THEN "free" ELSE IF t = u3 THEN "standard" ELSE "background"

MCUid == [t \in Tasks |-> UserOf(t)]
MCTier == [t \in Tasks |-> TierOf(t)]
MCGenerated == {g1, g2}
\* u3 comes from the Rust backend, the others through backend/queue.py.
MCSilent == {u3}

\* The two tasks of alice differ in nothing.
MCSymmetry == Permutations({u1, u2})
=============================================================================
