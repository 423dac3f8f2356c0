---------------------------- MODULE MCEventBus ----------------------------
(* Small instances of EventBus for TLC. *)
EXTENDS EventBus

CONSTANTS u1, u2, u3, u4, b1, b2, r, g

LaneOf(i) == IF i \in {b1, b2} THEN "bg" ELSE "user"
MCLane == [i \in Items |-> LaneOf(i)]
\* The handlers of u1 and u2 emit u3 and u4: with aemit if they are awaited, else with aemit_bg.
MCParent == [i \in Items |-> IF i = u3 THEN u1 ELSE IF i = u4 THEN u2 ELSE Nobody]
=============================================================================
