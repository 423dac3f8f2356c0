---------------------------- MODULE RunLifecycle ----------------------------
(***************************************************************************)
(* The life of one pipeline run, from the request taken off the queue to   *)
(* its last write (dorian/pipeline/execution.py, run_state.py and the      *)
(* CancelPipeline handler of the Rust backend).                            *)
(*                                                                         *)
(* Three actors share the Redis keys of the run:                           *)
(*   - the orchestrator, run_pipeline() on a worker thread (variable pc);  *)
(*   - the runner, the daemon thread that walks the graph node by node and *)
(*     calls the _instrument wrapper of each (variables runner and cur);   *)
(*   - the user, who may cancel at any time.                               *)
(* The session's meta document is also rewritten as a whole by the other   *)
(* handlers of the session, which take no part in the run.                 *)
(* One action is one access to Redis, or one access and the local          *)
(* computation around it, so that every interleaving of the two threads is *)
(* a behaviour of the model. A node's result, error text and timestamps    *)
(* are abstracted away; statuses are the source's.                         *)
(***************************************************************************)
EXTENDS FiniteSets

CONSTANTS
  Nodes,      \* node ids of the expanded pipeline
  Deps        \* Deps[n]: the nodes whose results n takes as arguments

ASSUME NodesAssumption == IsFiniteSet(Nodes) /\ Nodes # {}
ASSUME DepsAssumption == Deps \in [Nodes -> SUBSET Nodes]

VARIABLES
  \* Redis
  status,      \* status field of execution:{run_id}
  summary,     \* node_states embedded in execution:{run_id}
  node,        \* execution:{run_id}:node:{node_id}, the status field
  lastRun,     \* what the session's meta document says in "lastRun" of this run:
               \* its status, "NONE" for nothing, "NOMETA" when there is no document
  cancelFlag,  \* does the cancel key of the run exist?
  \* orchestrator thread
  pc, verdict, cause, deadline, snap,
  \* runner thread
  runner, cur, results, outcome,
  elided,      \* nodes whose graph entry is a constant, such as a cached output
  \* another handler of the session
  held,        \* the lastRun of the document it has read and will write back
  \* history
  announced,   \* run-level terminal events emitted so far
  faulty,      \* has a Redis call of the orchestrator failed?
  overwritten  \* has another handler changed lastRun after run_pipeline returned?

redisVars == <<status, summary, node, lastRun, cancelFlag>>
orchVars == <<pc, verdict, cause, deadline, snap>>
runnerVars == <<runner, cur, results, outcome, elided>>
metaVars == <<held, overwritten>>
history == <<announced, faulty>>
vars == <<redisVars, orchVars, runnerVars, history, metaVars>>

NodeStatus == {"PENDING", "RUNNING", "SUCCESS", "FAILED", "SKIPPED", "CANCELLED"}
PipelineRunStatus == {"PENDING", "RUNNING", "SUCCESS", "FAILED", "CANCELLED"}
RunTerminal == {"SUCCESS", "FAILED", "CANCELLED"}
Unsettled == {"PENDING", "RUNNING"}
RunEvents == {"PipelineRunCompleted", "PipelineRunFailed", "PipelineRunCancelled"}

LastRuns == PipelineRunStatus \cup {"NONE", "NOMETA"}
Nothing == "nothing"
NoNode == "none"
NoStates == [n \in Nodes |-> "ABSENT"]

\* Where the orchestrator is before it decides the fate of the run, and after.
Early == {"requested", "rejected", "created", "started", "marking", "expanding",
          "seeded", "stageFailed"}
Waiting == {"polling", "checking"}
Deciding == {"gather", "sweep", "clear", "finalise"}
Concluding == {"announce", "persist", "persisting", "done"}
RunnerAlive == {"picking", "entering", "executing", "finishing"}

TypeOK ==
  /\ status \in PipelineRunStatus \cup {"ABSENT"}
  /\ summary \in [Nodes -> NodeStatus \cup {"ABSENT"}]
  /\ node \in [Nodes -> NodeStatus \cup {"ABSENT"}]
  /\ lastRun \in LastRuns
  /\ cancelFlag \in BOOLEAN
  /\ pc \in Early \cup Waiting \cup Deciding \cup Concluding \cup {"crashed"}
  /\ verdict \in {"none", "ok", "failed", "cancelled"}
  /\ cause \in {"none", "user", "timeout"}
  /\ deadline \in BOOLEAN
  /\ snap \in [Nodes -> NodeStatus \cup {"ABSENT"}]
  /\ runner \in RunnerAlive \cup {"idle", "done", "dead"}
  /\ cur \in Nodes \cup {NoNode}
  /\ results \in SUBSET Nodes
  /\ outcome \in {"none", "cancelled", "nodeError", "error"}
  /\ elided \in SUBSET Nodes
  /\ held \in LastRuns \cup {Nothing}
  /\ announced \in SUBSET RunEvents
  /\ faulty \in BOOLEAN
  /\ overwritten \in BOOLEAN

Init ==
  /\ status = "ABSENT" /\ summary = NoStates /\ node = NoStates
  \* synthetic sessions (generated pipelines) may have no meta document
  /\ lastRun \in {"NONE", "NOMETA"}
  /\ cancelFlag = FALSE
  /\ pc = "requested" /\ verdict = "none" /\ cause = "none" /\ deadline = FALSE
  /\ snap = NoStates
  /\ runner = "idle" /\ cur = NoNode /\ results = {} /\ outcome = "none"
  /\ elided = {} /\ held = Nothing /\ announced = {} /\ faulty = FALSE
  /\ overwritten = FALSE

Goto(from, to) == pc = from /\ pc' = to

\* The GET of the meta document: without a document nothing is written.
ReadMeta(write, skip) == pc' = IF lastRun = "NOMETA" THEN skip ELSE write

\* The SET of the whole document, with lastRun replaced in what the GET returned.
SetLastRun(s) == lastRun' = s

-----------------------------------------------------------------------------
(* The orchestrator *)

\* handle_pipeline_execution: no pipelineId, or no such pipeline anywhere.
RejectRequest ==
  /\ Goto("requested", "rejected")
  /\ UNCHANGED <<redisVars, verdict, cause, deadline, snap, runnerVars, history, metaVars>>

\* handle_pipeline_execution creates the record; run_pipeline starts on a thread.
CreateRun ==
  /\ Goto("requested", "created")
  /\ status' = "PENDING"
  /\ UNCHANGED <<summary, node, lastRun, cancelFlag, verdict, cause, deadline, snap,
                 runnerVars, history, metaVars>>

\* Parsing, the empty-pipeline check, validation, expansion, vault resolution, the
\* two guards and the graph build all fail the same way: they emit
\* PipelineRunFailed and return. The record and lastRun are left as they are.
FailStage ==
  /\ pc \in {"created", "expanding", "seeded"}
  /\ pc' = "stageFailed"
  /\ announced' = announced \cup {"PipelineRunFailed"}
  /\ UNCHANGED <<redisVars, verdict, cause, deadline, snap, runnerVars, faulty, metaVars>>

\* Step 2: the record goes to RUNNING.
StartRun ==
  /\ Goto("created", "started")
  /\ status' = "RUNNING"
  /\ UNCHANGED <<summary, node, lastRun, cancelFlag, verdict, cause, deadline, snap,
                 runnerVars, history, metaVars>>

\* ... and RUNNING is persisted in the session meta: the document is read ...
ReadMetaAtStart ==
  /\ pc = "started"
  /\ ReadMeta("marking", "expanding")
  /\ UNCHANGED <<redisVars, verdict, cause, deadline, snap, runnerVars, history, metaVars>>

\* ... and written, no lock held over the two.
MarkLastRunRunning ==
  /\ Goto("marking", "expanding")
  /\ SetLastRun("RUNNING")
  /\ UNCHANGED <<status, summary, node, cancelFlag, verdict, cause, deadline, snap,
                 runnerVars, history, metaVars>>

\* Every node of the expanded pipeline is seeded PENDING.
SeedNodes ==
  /\ Goto("expanding", "seeded")
  /\ node' = [n \in Nodes |-> "PENDING"]
  /\ UNCHANGED <<status, summary, lastRun, cancelFlag, verdict, cause, deadline, snap,
                 runnerVars, history, metaVars>>

\* The graph is built, cached nodes are elided (any set of them may be in the
\* intermediates cache), and the daemon runner thread is started.
LaunchRunner ==
  /\ Goto("seeded", "polling")
  /\ elided' \in SUBSET Nodes
  /\ runner' = "picking"
  /\ UNCHANGED <<redisVars, verdict, cause, deadline, snap, cur, results, outcome,
                 history, metaVars>>

\* _EXECUTION_TIMEOUT elapses.
DeadlinePasses ==
  /\ pc \in Waiting /\ ~deadline
  /\ deadline' = TRUE
  /\ UNCHANGED <<redisVars, pc, verdict, cause, snap, runnerVars, history, metaVars>>

\* _dask_done.wait(0.5) timed out: the loop body runs.
PollWait ==
  /\ Goto("polling", "checking")
  /\ runner # "done"
  /\ UNCHANGED <<redisVars, verdict, cause, deadline, snap, runnerVars, history, metaVars>>

\* The loop body sees the cancel flag and raises PipelineCancelled.
PollCancelled ==
  /\ Goto("checking", "gather")
  /\ cancelFlag
  /\ verdict' = "cancelled" /\ cause' = "user"
  /\ UNCHANGED <<redisVars, deadline, snap, runnerVars, history, metaVars>>

\* Faulty: reports the timeout and keeps waiting.
PollTimeoutOnlyReports ==
  /\ Goto("checking", "polling")
  /\ ~cancelFlag /\ deadline
  /\ announced' = announced \cup {"PipelineRunFailed"}
  /\ UNCHANGED <<redisVars, verdict, cause, deadline, snap, runnerVars, faulty, metaVars>>

\* Past the deadline: PipelineRunFailed is emitted, then PipelineCancelled raised.
PollTimeout ==
  /\ Goto("checking", "gather")
  /\ ~cancelFlag /\ deadline
  /\ verdict' = "cancelled" /\ cause' = "timeout"
  /\ announced' = announced \cup {"PipelineRunFailed"}
  /\ UNCHANGED <<redisVars, deadline, snap, runnerVars, faulty, metaVars>>

\* Neither: wait again.
PollAgain ==
  /\ Goto("checking", "polling")
  /\ ~cancelFlag /\ ~deadline
  /\ UNCHANGED <<redisVars, verdict, cause, deadline, snap, runnerVars, history, metaVars>>

\* Faulty: forgets to re-raise the runner's exception.
PollDoneDropsError ==
  /\ Goto("polling", "gather")
  /\ runner = "done"
  /\ verdict' = "ok"
  /\ UNCHANGED <<redisVars, cause, deadline, snap, runnerVars, history, metaVars>>

\* The runner finished: its exception, if any, decides the verdict.
PollDone ==
  /\ Goto("polling", "gather")
  /\ runner = "done"
  /\ verdict' = CASE outcome = "none" -> "ok"
                  [] outcome = "cancelled" -> "cancelled"
                  [] outcome \in {"nodeError", "error"} -> "failed"
  /\ UNCHANGED <<redisVars, cause, deadline, snap, runnerVars, history, metaVars>>

\* Step 5: read the node keys. A FAILED or SKIPPED node makes the run failed.
GatherNodeStates ==
  /\ pc = "gather"
  /\ snap' = node
  /\ verdict' = IF verdict = "ok" /\ \E n \in Nodes : node[n] \in {"FAILED", "SKIPPED"}
                THEN "failed" ELSE verdict
  /\ pc' = IF verdict' = "ok" THEN "finalise" ELSE "sweep"
  /\ UNCHANGED <<redisVars, cause, deadline, runnerVars, history, metaVars>>

\* Faulty: sweeps finished nodes as well.
SweepAnyNode(n) ==
  /\ pc = "sweep"
  /\ snap[n] \notin {"SKIPPED", "CANCELLED"}
  /\ LET swept == IF verdict = "cancelled" THEN "CANCELLED" ELSE "SKIPPED" IN
       /\ node' = [node EXCEPT ![n] = swept]
       /\ snap' = [snap EXCEPT ![n] = swept]
  /\ UNCHANGED <<status, summary, lastRun, cancelFlag, pc, verdict, cause, deadline,
                 runnerVars, history, metaVars>>

\* Overwrite one node the snapshot shows unfinished, whatever its key holds now.
SweepNode(n) ==
  /\ pc = "sweep"
  /\ snap[n] \in Unsettled
  /\ LET swept == IF verdict = "cancelled" THEN "CANCELLED" ELSE "SKIPPED" IN
       /\ node' = [node EXCEPT ![n] = swept]
       /\ snap' = [snap EXCEPT ![n] = swept]
  /\ UNCHANGED <<status, summary, lastRun, cancelFlag, pc, verdict, cause, deadline,
                 runnerVars, history, metaVars>>

\* Faulty: leaves the sweep early.
RegatherUnswept ==
  /\ pc = "sweep"
  /\ snap' = node
  /\ pc' = IF verdict = "cancelled" THEN "clear" ELSE "finalise"
  /\ UNCHANGED <<redisVars, verdict, cause, deadline, runnerVars, history, metaVars>>

\* All swept: read the keys again.
Regather ==
  /\ pc = "sweep"
  /\ \A n \in Nodes : snap[n] \notin Unsettled
  /\ snap' = node
  /\ pc' = IF verdict = "cancelled" THEN "clear" ELSE "finalise"
  /\ UNCHANGED <<redisVars, verdict, cause, deadline, runnerVars, history, metaVars>>

\* A cancelled run deletes its cancel flag.
ClearCancelFlag ==
  /\ Goto("clear", "finalise")
  /\ cancelFlag' = FALSE
  /\ UNCHANGED <<status, summary, node, lastRun, verdict, cause, deadline, snap,
                 runnerVars, history, metaVars>>

FinalStatus ==
  IF verdict = "cancelled" THEN "CANCELLED"
  ELSE IF verdict = "failed" THEN "FAILED" ELSE "SUCCESS"

\* Step 7: the record gets its final status and the gathered node states.
Finalise ==
  /\ Goto("finalise", "announce")
  /\ status' = FinalStatus
  /\ summary' = snap
  /\ UNCHANGED <<node, lastRun, cancelFlag, verdict, cause, deadline, snap,
                 runnerVars, history, metaVars>>

RunEvent(s) ==
  CASE s = "CANCELLED" -> "PipelineRunCancelled"
    [] s = "FAILED" -> "PipelineRunFailed"
    [] s = "SUCCESS" -> "PipelineRunCompleted"

\* The terminal event of the run.
Announce ==
  /\ Goto("announce", "persist")
  /\ announced' = announced \cup {RunEvent(FinalStatus)}
  /\ UNCHANGED <<redisVars, verdict, cause, deadline, snap, runnerVars, faulty, metaVars>>

\* Faulty: persists only runs that have metrics.
ReadMetaAtEndIfOk ==
  /\ pc = "persist"
  /\ IF verdict = "ok" THEN ReadMeta("persisting", "done") ELSE pc' = "done"
  /\ UNCHANGED <<redisVars, verdict, cause, deadline, snap, runnerVars, history, metaVars>>

\* Step 8: the final status is persisted in the session meta: the document is read ...
ReadMetaAtEnd ==
  /\ pc = "persist"
  /\ ReadMeta("persisting", "done")
  /\ UNCHANGED <<redisVars, verdict, cause, deadline, snap, runnerVars, history, metaVars>>

\* ... and written, no lock held over the two.
PersistLastRun ==
  /\ Goto("persisting", "done")
  /\ SetLastRun(FinalStatus)
  /\ UNCHANGED <<status, summary, node, cancelFlag, verdict, cause, deadline, snap,
                 runnerVars, history, metaVars>>

\* The first Redis call of the orchestrator that fails. The lastRun writes are best
\* effort; in the poll loop the run fails while its runner goes on; everywhere else
\* the exception ends the thread, and nobody waits for the runner any more.
OrchestratorRedisError ==
  /\ ~faulty /\ faulty' = TRUE
  /\ \/ pc \in {"started", "marking"} /\ pc' = "expanding" /\ UNCHANGED verdict
     \/ Goto("checking", "gather") /\ verdict' = "failed"
     \/ pc \in {"persist", "persisting"} /\ pc' = "done" /\ UNCHANGED verdict
     \/ /\ pc \in {"created", "expanding", "announce"} \cup Deciding
        /\ pc' = "crashed" /\ UNCHANGED verdict
  /\ UNCHANGED <<redisVars, cause, deadline, snap, runnerVars, announced, metaVars>>

-----------------------------------------------------------------------------
(* The runner: topological order, one node at a time; nothing is fired after *)
(* the first failure. It does not know whether the orchestrator still waits. *)

Ready(n) == n \notin results \cup elided /\ Deps[n] \subseteq results \cup elided

\* The wrapper finds the cancel flag: the node is CANCELLED, the walk is over. If the
\* stream message between the two fails, that error ends it instead.
FireCancelled(n) ==
  /\ runner = "picking" /\ Ready(n) /\ cancelFlag
  /\ node' = [node EXCEPT ![n] = "CANCELLED"]
  /\ outcome' \in {"cancelled", "error"} /\ runner' = "finishing"
  /\ UNCHANGED <<status, summary, lastRun, cancelFlag, orchVars, cur, results, elided,
                 history, metaVars>>

\* The wrapper finds no cancel flag ...
FireNode(n) ==
  /\ runner = "picking" /\ Ready(n) /\ ~cancelFlag
  /\ runner' = "entering" /\ cur' = n
  /\ UNCHANGED <<redisVars, orchVars, results, outcome, elided, history, metaVars>>

\* ... and then writes RUNNING.
NodeRunning ==
  /\ runner = "entering"
  /\ node' = [node EXCEPT ![cur] = "RUNNING"]
  /\ runner' = "executing"
  /\ UNCHANGED <<status, summary, lastRun, cancelFlag, orchVars, cur, results, outcome,
                 elided, history, metaVars>>

\* Faulty: also patches the node inside the run record.
NodeSuccessInRecord ==
  /\ runner = "executing"
  /\ node' = [node EXCEPT ![cur] = "SUCCESS"]
  /\ summary' = [summary EXCEPT ![cur] = "SUCCESS"]
  /\ results' = results \cup {cur}
  /\ runner' = "picking" /\ cur' = NoNode
  /\ UNCHANGED <<status, lastRun, cancelFlag, orchVars, outcome, elided, history, metaVars>>

\* The operator returned: the result is stored and the node marked SUCCESS.
NodeSuccess ==
  /\ runner = "executing"
  /\ node' = [node EXCEPT ![cur] = "SUCCESS"]
  /\ results' = results \cup {cur}
  /\ runner' = "picking" /\ cur' = NoNode
  /\ UNCHANGED <<status, summary, lastRun, cancelFlag, orchVars, outcome, elided,
                 history, metaVars>>

\* The operator raised: FAILED, and NodeExecutionError ends the walk.
NodeFailed ==
  /\ runner = "executing"
  /\ node' = [node EXCEPT ![cur] = "FAILED"]
  /\ outcome' = "nodeError"
  /\ runner' = "finishing" /\ cur' = NoNode
  /\ UNCHANGED <<status, summary, lastRun, cancelFlag, orchVars, results, elided,
                 history, metaVars>>

\* Anything else raised on the runner thread, the bookkeeping around a node
\* included: no node is marked.
RunnerError ==
  /\ runner \in {"picking", "entering", "executing"}
  /\ outcome' = "error"
  /\ runner' = "finishing" /\ cur' = NoNode
  /\ UNCHANGED <<redisVars, orchVars, results, elided, history, metaVars>>

\* Every node has a result.
WalkEnds ==
  /\ runner = "picking"
  /\ Nodes \subseteq results \cup elided
  /\ runner' = "finishing"
  /\ UNCHANGED <<redisVars, orchVars, cur, results, outcome, elided, history, metaVars>>

\* Outputs go to the intermediates cache, then _dask_done is set.
RunnerDone ==
  /\ runner = "finishing"
  /\ runner' = "done"
  /\ UNCHANGED <<redisVars, orchVars, cur, results, outcome, elided, history, metaVars>>

-----------------------------------------------------------------------------
(* The other handlers of the session. Nearly all of them read the whole meta  *)
(* document, change a field of their own and write the whole document back;   *)
(* that some hold session_meta_tx's lock meanwhile is nothing to this run,    *)
(* which never asks for it.                                                   *)

OtherReadsMeta ==
  /\ held = Nothing
  /\ held' = lastRun
  /\ UNCHANGED <<redisVars, orchVars, runnerVars, history, overwritten>>

\* The document goes back with the lastRun it was read with, or, when the handler is
\* another run of the session, with that run's. A missing document is created.
OtherWritesMeta ==
  /\ held # Nothing
  /\ held' = Nothing
  /\ lastRun' \in {IF held = "NOMETA" THEN "NONE" ELSE held, "NONE"}
  /\ overwritten' = (overwritten \/ (pc = "done" /\ lastRun' # lastRun))
  /\ UNCHANGED <<status, summary, node, cancelFlag, orchVars, runnerVars, history>>

-----------------------------------------------------------------------------
(* The user, the clock and the machine *)

\* CancelPipeline: the client learns run_id once the record exists.
CancelPipeline ==
  /\ status # "ABSENT"
  /\ cancelFlag' = TRUE
  /\ UNCHANGED <<status, summary, node, lastRun, orchVars, runnerVars, history, metaVars>>

\* The flag's TTL (300 s) runs out. The poll loop reads the flag every half second
\* and the sweep follows at once, so this happens only before or after the two.
CancelFlagExpires ==
  /\ cancelFlag /\ pc \notin Waiting \cup Deciding
  /\ cancelFlag' = FALSE
  /\ UNCHANGED <<status, summary, node, lastRun, orchVars, runnerVars, history, metaVars>>

\* The process dies; both threads are gone, Redis keeps what was written.
Crash ==
  /\ pc # "crashed"
  /\ pc' = "crashed" /\ runner' = "dead"
  /\ UNCHANGED <<redisVars, verdict, cause, deadline, snap, cur, results, outcome,
                 elided, history, metaVars>>

-----------------------------------------------------------------------------

Orchestrate ==
  \/ RejectRequest \/ CreateRun \/ FailStage \/ StartRun
  \/ ReadMetaAtStart \/ MarkLastRunRunning \/ SeedNodes \/ LaunchRunner
  \/ PollWait \/ PollCancelled \/ PollTimeout \/ PollAgain \/ PollDone
  \/ GatherNodeStates \/ (\E n \in Nodes : SweepNode(n)) \/ Regather
  \/ ClearCancelFlag \/ Finalise \/ Announce \/ ReadMetaAtEnd \/ PersistLastRun

Walk ==
  \/ \E n \in Nodes : FireCancelled(n) \/ FireNode(n)
  \/ NodeRunning \/ NodeSuccess \/ NodeFailed \/ RunnerError \/ WalkEnds \/ RunnerDone

Next ==
  \/ Orchestrate \/ Walk \/ DeadlinePasses \/ CancelPipeline \/ CancelFlagExpires
  \/ OtherReadsMeta \/ OtherWritesMeta \/ OrchestratorRedisError \/ Crash

\* The orchestrator thread is scheduled and the clock runs. Nothing is assumed of
\* the runner: an operator may hang for ever.
Fairness == WF_vars(Orchestrate) /\ WF_vars(DeadlinePasses)

Spec == Init /\ [][Next]_vars

FairSpec == Spec /\ Fairness
-----------------------------------------------------------------------------
(* Properties *)

\* A run recorded as SUCCESS really ran: every node that was not served from the
\* cache is SUCCESS in the stored summary and in its own key, and nothing but
\* completion was or will be announced (Finalise against NodeSuccess, RunnerError).
SuccessIsReal ==
  status = "SUCCESS" =>
    /\ \A n \in Nodes \ elided : summary[n] = "SUCCESS" /\ node[n] = "SUCCESS"
    /\ announced \subseteq {"PipelineRunCompleted"}

\* A run recorded as FAILED left no node pending or running, and what the summary
\* says of each node is what the node's own key says from then on: the sweep of
\* run_pipeline step 5 saw the last write of the runner, unless a Redis error in the
\* poll loop made the orchestrator abandon it.
FailedRunIsSettled ==
  status = "FAILED" /\ ~faulty => summary = node /\ \A n \in Nodes : node[n] \notin Unsettled

\* Once run_pipeline has returned, the record and the announced event tell the same
\* outcome. The session meta tells it too, or tells nothing of the run, or still calls it
\* RUNNING, and the last two need a failed write or another handler that wrote the
\* document after that: never does the meta name another outcome. Only a timeout is
\* ever announced under two names.
ReportsAgree ==
  /\ pc = "done" => /\ status \in RunTerminal
                    /\ \/ lastRun \in {status, "NOMETA"}
                       \/ (faulty \/ overwritten) /\ lastRun \in {"NONE", "RUNNING"}
                    /\ RunEvent(status) \in announced
  /\ (\E e, f \in announced : e # f) => cause = "timeout"

\* The record of a run is written for the last time when it becomes terminal:
\* neither thread, nor an abandoned runner, touches it afterwards.
RecordIsFinal ==
  [][(status \in RunTerminal) => UNCHANGED <<status, summary>>]_vars

\* validate_transition of engine/engine/src/state.rs, which ports the Python model.
LegalTransition(from, to) ==
  \/ from = to
  \/ from = "ABSENT" /\ to = "PENDING"
  \/ from = "PENDING" /\ to \in {"RUNNING", "SKIPPED", "CANCELLED", "FAILED"}
  \/ from = "RUNNING" /\ to \in {"SUCCESS", "FAILED", "SKIPPED", "CANCELLED"}

\* The orchestrator has ended the run although its runner may still be going.
GivenUp == verdict = "cancelled" \/ (verdict = "failed" /\ faulty)

\* As long as the orchestrator has not given the run up, the two threads together
\* take every node only through the legal transitions.
NodesMoveLegally ==
  [][~GivenUp => \A n \in Nodes : LegalTransition(node[n], node'[n])]_vars

\* Once the runner is started the run comes to an end, even if an operator hangs:
\* the poll loop gives up at the deadline.
RunConcludes == pc \in Waiting ~> pc \in {"done", "crashed"}

-----------------------------------------------------------------------------
(* What the comments promise and the code does not do *)

\* execution.py: "The daemon thread will eventually stop on its own: subsequent
\* nodes see the cancel flag". After a user's cancellation was acted on, the
\* abandoned runner enters no further node.
NoNodeEnteredAfterCancel ==
  [][cause = "user" /\ ~faulty => ~(runner = "picking" /\ runner' = "entering")]_vars
=============================================================================
