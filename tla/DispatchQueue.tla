---------------------------- MODULE DispatchQueue ----------------------------
(***************************************************************************)
(* The pipeline execution queue (backend/queue.py, dorian/infra/tiers.py): *)
(* submissions score tasks into a Redis sorted set, the bridge loop pops   *)
(* the lowest score while fewer than DispatchCap runs are counted active,  *)
(* and each popped task becomes a coroutine (_run_safely) that, for tasks  *)
(* of the RL generator, first passes a gate with a limit that can be       *)
(* changed while it is in use. Users' runs are submitted by                *)
(* submit_for_execution or by its Rust port, which knows one tier and      *)
(* cannot set the in-process signal; generators and engines submit theirs  *)
(* with fixed scores.                                                      *)
(*                                                                         *)
(* Everything here runs on one asyncio event loop: an action is what the   *)
(* loop executes between two suspension points. The two locks of the       *)
(* module are never held across a suspension, so they never block. A new   *)
(* coroutine gets its first turn before the bridge's next Redis reply.     *)
(***************************************************************************)
EXTENDS Integers, FiniteSets, Sequences, SequencesExt, Functions

CONSTANTS
  Tasks,          \* execution requests
  Uid,            \* Uid[t]: the user of t
  Tier,           \* Tier[t]: tier of that user, or the kind of generated work
  Generated,      \* the tasks _is_rl_payload recognises
  Silent,         \* tasks the Rust processes ZADD themselves, without the signal
  DispatchCap,    \* DORIAN_DISPATCH_CAP
  RLMaxConcurrent,\* RL_MAX_CONCURRENT, the gate's limit at start-up
  Day,            \* clock ticks per day (86400 in the code)
  MaxClock,       \* bound: last clock tick
  MaxLimit,       \* bound: largest limit set at run time
  MaxResizes,     \* bound: calls of set_rl_concurrency
  MaxFaults       \* bound: process crashes and Redis errors

ASSUME TasksAssumption == IsFiniteSet(Tasks) /\ Generated \subseteq Tasks /\ Silent \subseteq Tasks
UserTiers == {"free", "standard", "priority", "enterprise"}
WorkTiers == {"background", "automl", "xproduct"}

ASSUME TierAssumption ==
  /\ Tier \in [Tasks -> UserTiers \cup WorkTiers]
  /\ \A t \in Silent : Tier[t] \in UserTiers => Tier[t] = "standard"
ASSUME BoundsAssumption ==
  /\ DispatchCap \in Nat \ {0} /\ RLMaxConcurrent \in Nat /\ Day \in Nat \ {0}
  /\ MaxClock \in Nat /\ MaxLimit \in Nat /\ MaxResizes \in Nat /\ MaxFaults \in Nat

VARIABLES
  now,        \* the wall clock
  at,         \* where each task is
  stamp,      \* time.time() when the task was scored, while its score exists
  active,     \* _active_runs
  rlLimit, rlInflight,
  waiters,    \* coroutines parked in _rl_cond.wait(), oldest first
  bridge,     \* where bridge_logic is suspended
  signal,     \* _task_signal
  resizes, faults

vars == <<now, at, stamp, active, rlLimit, rlInflight, waiters, bridge, signal, resizes,
          faults>>

Uids == {Uid[t] : t \in Tasks}

\* Where a task can be: "scored" between time.time() and ZADD in
\* submit_for_execution, "queued" in the sorted set, "spawned" popped with its
\* coroutine not yet started, "gate" waiting for an RL slot, "woken" notified and
\* about to re-check, "active" inside handle_pipeline_execution, "executing" with
\* run_pipeline on its own thread, "lost" in a crash.
Places == {"unborn", "scored", "queued", "spawned", "gate", "woken", "active",
           "executing", "finished", "lost"}
InMemory == {"scored", "spawned", "gate", "woken", "active", "executing"}

In(places) == {t \in Tasks : at[t] \in places}

TypeOK ==
  /\ now \in 0..MaxClock
  /\ at \in [Tasks -> Places]
  /\ stamp \in [Tasks -> 0..MaxClock]
  /\ active \in [Uids -> Nat]
  /\ rlLimit \in Nat /\ rlInflight \in Nat
  /\ waiters \in Seq(Generated)
  /\ bridge \in {"popping", "sleeping", "waiting"}
  /\ signal \in BOOLEAN
  /\ resizes \in 0..MaxResizes /\ faults \in 0..MaxFaults

-----------------------------------------------------------------------------
(* Priorities. Scores are in units of 1/Day, so that the tiebreaker, the     *)
(* fraction of the day that has passed, is an integer below Day.             *)

TierPriority(tier) ==
  CASE tier = "enterprise" -> -40
    [] tier = "priority" -> -30
    [] tier = "standard" -> -20
    [] tier = "free" -> -10
    [] tier = "background" -> -1
    [] tier = "automl" -> 50
    [] tier = "xproduct" -> 100

\* Faulty: adds the seconds of the day without normalising them to [0, 1).
ScoreUnnormalised(t) ==
  TierPriority(Tier[t]) + (IF Tier[t] \in UserTiers THEN 10 * (stamp[t] % Day) ELSE 0)

\* base_score + tiebreaker; generated work has the bare score.
Score(t) ==
  TierPriority(Tier[t]) * Day + (IF Tier[t] \in UserTiers THEN stamp[t] % Day ELSE 0)

\* What ZPOPMIN may return (equal scores are ordered by the text of the member).
Lowest == {t \in In({"queued"}) : \A u \in In({"queued"}) : Score(t) <= Score(u)}

-----------------------------------------------------------------------------
(* Submission *)

Tick ==
  /\ now < MaxClock
  /\ now' = now + 1
  /\ UNCHANGED <<at, stamp, active, rlLimit, rlInflight, waiters, bridge, signal, resizes,
                 faults>>

\* submit_for_execution, or handle_execute_pipeline of the Rust backend, up to its
\* first await after the score. A user at the tier's concurrency limit is only told
\* so; the task is scored and queued all the same.
ScoreTask(t) ==
  /\ at[t] = "unborn" /\ Tier[t] \in UserTiers
  /\ at' = [at EXCEPT ![t] = "scored"]
  /\ stamp' = [stamp EXCEPT ![t] = now]
  /\ UNCHANGED <<now, active, rlLimit, rlInflight, waiters, bridge, signal, resizes,
                 faults>>

\* ZADD and _task_signal.set(), at the end of submit_for_execution, in
\* submit_background, or from a Rust process, which cannot set the signal.
Enqueue(t) ==
  /\ at[t] = IF Tier[t] \in UserTiers THEN "scored" ELSE "unborn"
  /\ at' = [at EXCEPT ![t] = "queued"]
  /\ signal' = IF t \in Silent THEN signal ELSE TRUE
  /\ UNCHANGED <<now, stamp, active, rlLimit, rlInflight, waiters, bridge, resizes,
                 faults>>

-----------------------------------------------------------------------------
(* The bridge *)

SumActive == FoldFunction(+, 0, active)

\* Faulty: the cap is tested when the loop starts to drain, not before each pop.
NextBridgeUncapped ==
  IF bridge # "popping" /\ SumActive >= DispatchCap THEN "sleeping" ELSE "popping"

\* The cap is tested on what _active_runs holds now; a coroutine created in the
\* same turn has not counted itself yet.
NextBridge == IF SumActive >= DispatchCap THEN "sleeping" ELSE "popping"

\* ZPOPMIN answers with a task, which leaves the set with its score: create its
\* coroutine and go round drain_queue.
PopTask(t) ==
  /\ bridge = "popping" /\ In({"spawned"}) = {}
  /\ t \in Lowest
  /\ at' = [at EXCEPT ![t] = "spawned"]
  /\ stamp' = [stamp EXCEPT ![t] = 0]
  /\ bridge' = NextBridge
  /\ UNCHANGED <<now, active, rlLimit, rlInflight, waiters, signal, resizes, faults>>

\* ZPOPMIN finds the set empty: drain_queue returns, the loop waits for the signal.
PopNothing ==
  /\ bridge = "popping" /\ In({"spawned"}) = {}
  /\ In({"queued"}) = {}
  /\ bridge' = "waiting"
  /\ UNCHANGED <<now, at, stamp, active, rlLimit, rlInflight, waiters, signal, resizes,
                 faults>>

\* The one-second sleep at the cap ends, and the cap is tested again.
WakeFromSleep ==
  /\ bridge = "sleeping" /\ In({"spawned"}) = {}
  /\ bridge' = NextBridge
  /\ UNCHANGED <<now, at, stamp, active, rlLimit, rlInflight, waiters, signal, resizes,
                 faults>>

\* Faulty: waits for the signal alone, without the poll interval.
WakeBySignalOnly ==
  /\ bridge = "waiting" /\ signal
  /\ signal' = FALSE
  /\ bridge' = NextBridge
  /\ UNCHANGED <<now, at, stamp, active, rlLimit, rlInflight, waiters, resizes, faults>>

\* The signal is set or the poll interval is over: clear the signal, then drain.
WakeFromWait ==
  /\ bridge = "waiting"
  /\ signal' = FALSE
  /\ bridge' = NextBridge
  /\ UNCHANGED <<now, at, stamp, active, rlLimit, rlInflight, waiters, resizes, faults>>

-----------------------------------------------------------------------------
(* _run_safely *)

\* Past the gate: count the run and call handle_pipeline_execution.
Admit(t) ==
  /\ at' = [at EXCEPT ![t] = "active"]
  /\ active' = [active EXCEPT ![Uid[t]] = @ + 1]
  /\ rlInflight' = IF t \in Generated THEN rlInflight + 1 ELSE rlInflight

\* The coroutine's first turn: an RL task enters the gate or parks in it.
StartTask(t) ==
  /\ at[t] = "spawned"
  /\ IF t \in Generated /\ rlInflight >= rlLimit
     THEN /\ at' = [at EXCEPT ![t] = "gate"]
          /\ waiters' = Append(waiters, t)
          /\ UNCHANGED <<active, rlInflight>>
     ELSE Admit(t) /\ UNCHANGED waiters
  /\ UNCHANGED <<now, stamp, rlLimit, bridge, signal, resizes, faults>>

\* A notified waiter tests the limit again.
RecheckGate(t) ==
  /\ at[t] = "woken"
  /\ IF rlInflight >= rlLimit
     THEN /\ at' = [at EXCEPT ![t] = "gate"]
          /\ waiters' = Append(waiters, t)
          /\ UNCHANGED <<active, rlInflight>>
     ELSE Admit(t) /\ UNCHANGED waiters
  /\ UNCHANGED <<now, stamp, rlLimit, bridge, signal, resizes, faults>>

\* Faulty: an early return leaves the run counted.
LeaveUncounted(t, place) ==
  LET woken == IF t \in Generated /\ waiters # <<>> THEN {Head(waiters)} ELSE {} IN
  /\ at[t] = "active"
  /\ at' = [u \in Tasks |-> IF u = t THEN place
                            ELSE IF u \in woken THEN "woken" ELSE at[u]]
  /\ waiters' = IF woken = {} THEN waiters ELSE Tail(waiters)
  /\ active' = IF place = "finished" THEN active ELSE [active EXCEPT ![Uid[t]] = @ - 1]
  /\ rlInflight' = IF t \in Generated /\ rlInflight > 0 THEN rlInflight - 1 ELSE rlInflight
  /\ UNCHANGED <<now, stamp, rlLimit, bridge, signal, resizes, faults>>

\* handle_pipeline_execution returns or raises: _active_runs and the gate's slot are
\* given back and one waiter is notified, all in one turn.
Leave(t, place) ==
  LET woken == IF t \in Generated /\ waiters # <<>> THEN {Head(waiters)} ELSE {} IN
  /\ at[t] = "active"
  /\ at' = [u \in Tasks |-> IF u = t THEN place
                            ELSE IF u \in woken THEN "woken" ELSE at[u]]
  /\ waiters' = IF woken = {} THEN waiters ELSE Tail(waiters)
  /\ active' = [active EXCEPT ![Uid[t]] = @ - 1]
  /\ rlInflight' = IF t \in Generated /\ rlInflight > 0 THEN rlInflight - 1 ELSE rlInflight
  /\ UNCHANGED <<now, stamp, rlLimit, bridge, signal, resizes, faults>>

\* It created the run and left run_pipeline on a thread of its own ...
LaunchTask(t) == Leave(t, "executing")

\* ... or rejected the request, or raised.
RejectTask(t) == Leave(t, "finished")

\* run_pipeline returns; nothing here waits for it.
FinishRun(t) ==
  /\ at[t] = "executing"
  /\ at' = [at EXCEPT ![t] = "finished"]
  /\ UNCHANGED <<now, stamp, active, rlLimit, rlInflight, waiters, bridge, signal, resizes,
                 faults>>

-----------------------------------------------------------------------------
(* Administration and failure *)

\* Faulty: changes the limit without waking the waiters.
SetRLConcurrencySilently(n) ==
  /\ resizes < MaxResizes
  /\ rlLimit' = n /\ resizes' = resizes + 1
  /\ UNCHANGED <<at, waiters, now, stamp, active, rlInflight, bridge, signal, faults>>

\* set_rl_concurrency: change the limit and wake every waiter.
SetRLConcurrency(n) ==
  /\ resizes < MaxResizes
  /\ rlLimit' = n /\ resizes' = resizes + 1
  /\ at' = [t \in Tasks |-> IF at[t] = "gate" THEN "woken" ELSE at[t]]
  /\ waiters' = <<>>
  /\ UNCHANGED <<now, stamp, active, rlInflight, bridge, signal, faults>>

\* ZPOPMIN raises before Redis executed it or after (the popped task is lost with the
\* reply), or the member is no JSON: bridge_logic reports, sleeps and drains again.
BridgeError ==
  /\ faults < MaxFaults
  /\ faults' = faults + 1
  /\ bridge = "popping" /\ In({"spawned"}) = {}
  /\ \/ UNCHANGED <<at, stamp>>
     \/ \E t \in Lowest : /\ at' = [at EXCEPT ![t] = "lost"]
                          /\ stamp' = [stamp EXCEPT ![t] = 0]
  /\ bridge' = "sleeping"
  /\ UNCHANGED <<now, active, rlLimit, rlInflight, waiters, signal, resizes>>

\* The process dies and restarts: Redis keeps the queue, everything else is gone.
Crash ==
  /\ faults < MaxFaults
  /\ faults' = faults + 1
  /\ at' = [t \in Tasks |-> IF at[t] \in InMemory THEN "lost" ELSE at[t]]
  /\ stamp' = [t \in Tasks |-> IF at[t] \in InMemory THEN 0 ELSE stamp[t]]
  /\ active' = [u \in Uids |-> 0]
  /\ rlLimit' = RLMaxConcurrent /\ rlInflight' = 0 /\ waiters' = <<>>
  /\ bridge' = "popping" /\ signal' = FALSE
  /\ UNCHANGED <<now, resizes>>

-----------------------------------------------------------------------------

Init ==
  /\ now = 0
  /\ at = [t \in Tasks |-> "unborn"] /\ stamp = [t \in Tasks |-> 0]
  /\ active = [u \in Uids |-> 0]
  /\ rlLimit = RLMaxConcurrent /\ rlInflight = 0 /\ waiters = <<>>
  /\ bridge = "popping" /\ signal = FALSE
  /\ resizes = 0 /\ faults = 0

Bridge == (\E t \in Tasks : PopTask(t)) \/ PopNothing \/ WakeFromSleep \/ WakeFromWait

Coroutine(t) == StartTask(t) \/ RecheckGate(t) \/ LaunchTask(t) \/ RejectTask(t)

Next ==
  \/ Tick \/ Bridge \/ BridgeError \/ Crash
  \/ \E t \in Tasks : ScoreTask(t) \/ Enqueue(t) \/ Coroutine(t) \/ FinishRun(t)
  \/ \E n \in 0..MaxLimit : SetRLConcurrency(n)

\* The event loop gives every ready coroutine its turn, and Redis answers.
Fairness ==
  /\ WF_vars(Bridge)
  /\ \A t \in Tasks : WF_vars(Coroutine(t))

Spec == Init /\ [][Next]_vars

FairSpec == Spec /\ Fairness

-----------------------------------------------------------------------------
(* Properties *)

\* _active_runs counts exactly the coroutines inside handle_pipeline_execution, user
\* by user, and rlInflight the generated ones among them, across re-checks,
\* rejections, limit changes and restarts. A leaked count would hold the cap for ever.
CountsAreExact ==
  /\ \A u \in Uids : active[u] = Cardinality({t \in In({"active"}) : Uid[t] = u})
  /\ rlInflight = Cardinality(In({"active"}) \cap Generated)

\* The bridge exceeds its cap by at most the one coroutine it created in the same
\* turn as the test; only gated RL tasks, which no test of the cap counts, add to it.
DispatchIsBounded == Cardinality(In({"active"}) \ Generated) <= DispatchCap + 1

\* Nobody waits in the gate while a slot is free and no wake-up is under way: the
\* single notify of __aexit__ and the notify_all of set_rl_concurrency lose none.
NoLostWakeup ==
  waiters # <<>> /\ rlInflight < rlLimit => In({"woken"}) # {}

\* A task is popped only if no queued task has a better tier: the tiebreaker, whoever
\* computed it and at whatever time of the day, never outweighs the gap between tiers.
BetterTierFirst ==
  [][\A t, u \in Tasks :
       at[t] = "queued" /\ at'[t] = "spawned" /\ at[u] = "queued"
         => TierPriority(Tier[t]) <= TierPriority(Tier[u])]_vars

\* The generated tasks that are really inside, whatever the counter says, become more only
\* below the limit in force: changes of the limit, waiters that park again, rejections and
\* a crash let none slip in (_RLGate).
Inside == Cardinality(In({"active"}) \cap Generated)
GateBoundsInside == [][Inside' > Inside => Inside < rlLimit]_vars

\* A queued task of a user is handed to execution, unless a crash or a lost reply takes
\* it: neither the cap, nor a lost signal, nor generated tasks ahead stop the queue.
QueuedTasksRun ==
  \A t \in Tasks \ Generated : at[t] = "queued" ~> at[t] \in {"executing", "finished", "lost"}

\* Once the limit stays above zero, every task in the gate leaves it.
GateDrains ==
  <>[](rlLimit > 0) => \A t \in Generated : at[t] = "gate" ~> at[t] \notin {"gate", "woken"}
=============================================================================
