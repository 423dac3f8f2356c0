--------------------------- MODULE EventDelivery ---------------------------
(***************************************************************************)
(* What the in-process event bus (backend/events.py) promises of each      *)
(* handler call that an emit asks for, whatever its queues and workers do: *)
(* it is run at most once, it is settled only by running or discarding it, *)
(* and a call for a user event is discarded only when the pool stops, or   *)
(* when its emitter is cancelled before the bus has accepted it.           *)
(***************************************************************************)
CONSTANTS Items, Lane

VARIABLES
  call,      \* "new", "offered", "accepted", "running", "handled" or "discarded"
  stopping   \* a stop of the worker pool is under way

vars == <<call, stopping>>

Init == call = [i \in Items |-> "new"] /\ stopping = FALSE

Move(i, from, to) == call[i] = from /\ call' = [call EXCEPT ![i] = to]

Accept(i) == (Move(i, "new", "accepted") \/ Move(i, "offered", "accepted")) /\ UNCHANGED stopping
\* The emitter waits until there is room, or is cancelled meanwhile.
Offer(i) == Move(i, "new", "offered") /\ UNCHANGED stopping
Withdraw(i) == Move(i, "offered", "discarded") /\ UNCHANGED stopping
\* Without a pool, or with its queue full, the emitter's side runs it.
RunInPlace(i) == Move(i, "new", "running") /\ UNCHANGED stopping
\* To make room for i, an older background call is discarded.
AcceptForAnother(i, old) ==
  /\ call[i] = "new" /\ call[old] = "accepted" /\ Lane[old] = "bg"
  /\ call' = [call EXCEPT ![i] = "accepted", ![old] = "discarded"] /\ UNCHANGED stopping
Run(i) == Move(i, "accepted", "running") /\ UNCHANGED stopping
\* A worker that took a background call beside the one it runs may find no room for it.
RunAndDiscard(i, b) ==
  /\ call[i] = "accepted" /\ call[b] = "accepted" /\ Lane[b] = "bg" /\ b # i
  /\ call' = [call EXCEPT ![i] = "running", ![b] = "discarded"] /\ UNCHANGED stopping
Handled(i) == Move(i, "running", "handled") /\ UNCHANGED stopping
Discard(i) == Lane[i] = "bg" /\ Move(i, "accepted", "discarded") /\ UNCHANGED stopping
BeginStop == ~stopping /\ stopping' = TRUE /\ UNCHANGED call
\* The pool is gone: what it had accepted and not run is discarded.
EndStop(left) ==
  /\ stopping /\ stopping' = FALSE
  /\ \A i \in left : call[i] = "accepted"
  /\ call' = [i \in Items |-> IF i \in left THEN "discarded" ELSE call[i]]

Next == \/ \E i \in Items : \/ Offer(i) \/ Withdraw(i) \/ Accept(i) \/ RunInPlace(i)
                           \/ Run(i) \/ Handled(i) \/ Discard(i)
        \/ \E i, j \in Items : AcceptForAnother(i, j) \/ RunAndDiscard(i, j)
        \/ BeginStop \/ \E left \in SUBSET Items : EndStop(left)

Spec == Init /\ [][Next]_vars
=============================================================================
