---------------------------- MODULE JobDelivery ----------------------------
(***************************************************************************)
(* What the execution-engine workers (dorian/exec) promise of each job     *)
(* submitted to them, however many processes handle it, crash, or take it  *)
(* over from one another: it is delivered until it is settled and never    *)
(* again, reported only when there is a result to fetch, given up only     *)
(* after its deliveries are used up, and settled only when one of these    *)
(* was done for it - or when the workers cut it off.                       *)
(***************************************************************************)
EXTENDS Integers

CONSTANTS NJobs, Kind, MaxDeliveries

VARIABLES
  added,      \* jobs 1..added were submitted
  attempts,   \* deliveries of each job
  results,    \* jobs whose result can be fetched
  reported,   \* jobs whose completion was published
  buried,     \* jobs given up as poisonous
  settled,    \* jobs that will not be delivered again
  cancelled,  \* jobs cut off by a stop of their worker
  broken      \* jobs for which storing, reporting or settling failed

vars == <<added, attempts, results, reported, buried, settled, cancelled, broken>>

Jobs == 1..NJobs
Due(j) == attempts[j] > 0
Open == (1..added) \ settled

Init ==
  /\ added = 0 /\ attempts = [j \in Jobs |-> 0]
  /\ results = {} /\ reported = {} /\ buried = {} /\ settled = {}
  /\ cancelled = {} /\ broken = {}

Submit ==
  /\ added < NJobs /\ added' = added + 1
  /\ UNCHANGED <<attempts, results, reported, buried, settled, cancelled, broken>>

Deliver(js) ==
  /\ js # {} /\ js \subseteq Open
  /\ attempts' = [j \in Jobs |-> attempts[j] + (IF j \in js THEN 1 ELSE 0)]
  /\ UNCHANGED <<added, results, reported, buried, settled, cancelled, broken>>

Store(j) ==
  /\ Due(j) /\ results' = results \cup {j}
  /\ UNCHANGED <<added, attempts, reported, buried, settled, cancelled, broken>>

Report(j) ==
  /\ Due(j)
  /\ j \in results \cup broken \/ Kind[j] = "unknown"
  /\ reported' = reported \cup {j}
  /\ UNCHANGED <<added, attempts, results, buried, settled, cancelled, broken>>

Bury(j) ==
  /\ attempts[j] > MaxDeliveries
  /\ buried' = buried \cup {j}
  /\ UNCHANGED <<added, attempts, results, reported, settled, cancelled, broken>>

\* Only a job that was answered is settled, or one a worker failed before.
Answered(j) == j \in reported \cup buried \cup cancelled \cup broken \/ Kind[j] = "missing"

Settle(j) ==
  /\ Due(j) /\ Answered(j)
  /\ settled' = settled \cup {j}
  /\ UNCHANGED <<added, attempts, results, reported, buried, cancelled, broken>>

Fail(j) ==
  /\ Due(j) /\ broken' = broken \cup {j}
  /\ UNCHANGED <<added, attempts, results, reported, buried, settled, cancelled>>

\* A worker stops: the jobs it runs are cut off, those it was settling may be settled.
StopWorker(cut, done) ==
  /\ \A j \in cut \cup done : Due(j)
  /\ \A j \in done : Answered(j)
  /\ cancelled' = cancelled \cup cut /\ settled' = settled \cup done
  /\ UNCHANGED <<added, attempts, results, reported, buried, broken>>

Next ==
  \/ Submit
  \/ \E js \in SUBSET Jobs : Deliver(js)
  \/ \E j \in Jobs : Store(j) \/ Report(j) \/ Bury(j) \/ Settle(j) \/ Fail(j)
  \/ \E cut, done \in SUBSET Jobs : StopWorker(cut, done)

Spec == Init /\ [][Next]_vars
=============================================================================
