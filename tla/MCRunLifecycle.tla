--------------------------- MODULE MCRunLifecycle ---------------------------
(* Small instances of RunLifecycle for TLC. *)
EXTENDS RunLifecycle

CONSTANTS n1, n2, n3

\* One source feeding two sinks: two topological orders, a node with a
\* dependency, and a node left behind when its sibling fails.
ForkNodes == {n1, n2, n3}
ForkDeps == [n \in ForkNodes |-> IF n = n1 THEN {} ELSE {n1}]
=============================================================================
