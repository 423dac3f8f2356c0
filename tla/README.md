# A TLA+ model of Dorian's backend

Dorian lets users compose data-science pipelines in a browser, runs them on a
Python backend, and lets generators (reinforcement learning, AutoML, cross
products) submit pipelines of their own. This directory models the parts of it
where things happen concurrently, and where a mistake loses work or lies about it:
how a request gets to the head of the queue, how a pipeline is rewritten and expanded
into what is executed, how a run is carried out, cancelled and recorded, how the
workers of the execution engine survive crashes, how events get to their handlers
inside a process and between processes, how a dataset is profiled while its user
answers questions about it, how the Rust engine hands tasks to runtimes, and how messages
reach the browser. The modules are checked with TLC on small instances, and
the central safety results are proved with TLAPS for every value of the constants.

Run everything in this directory:

    tlc -workers 2 -config RunLifecycle.cfg  MCRunLifecycle.tla
    tlc -workers 2 -config DispatchQueue.cfg MCDispatchQueue.tla
    tlc -workers 2 -config DispatchLive.cfg  MCDispatchQueue.tla
    tlc -workers 2 -config ExecWorkers.cfg   MCExecWorkers.tla
    tlc -workers 2 -config ExecLive.cfg      MCExecWorkers.tla
    tlc -workers 2 -config DatasetProfiling.cfg MCDatasetProfiling.tla
    tlc -workers 2 -config EventBus.cfg      MCEventBus.tla
    tlc -workers 2 -config BusSubscriber.cfg MCBusSubscriber.tla
    tlc -workers 2 -config Pipeline.cfg      MCPipelinePreparation.tla
    tlc -workers 2 -config TaskDispatch.cfg  MCTaskDispatch.tla
    tlc -workers 2 -config ClientStream.cfg  MCClientStream.tla
    tlapm RunLifecycleProofs.tla
    tlapm DispatchProofs.tla
    tlapm ExecProofs.tla
    tlapm DatasetProofs.tla
    tlapm EventBusProofs.tla
    tlapm BusSubscriberProofs.tla
    tlapm TaskDispatchProofs.tla
    tlapm PipelineProofs.tla

`Run_NoNodeEnteredAfterCancel.cfg`, with `MCRunLifecycle.tla`, checks a promise of a
comment that the code does not keep; TLC finds the counterexample.

## 1. Inventory

| component | code | state | operations | interacts with | hard behaviour | correct when |
|---|---|---|---|---|---|---|
| Dispatch queue | `backend/queue.py`, `dorian/infra/tiers.py`, `execute_pipeline.rs` | Redis sorted set `task_queue`, `_active_runs`, `_rl_limit`, `_rl_inflight`, `_rl_cond`, `_task_signal` | submit, background submit, bridge loop, `_run_safely`, `set_rl_concurrency` | calls run orchestration; fed by users, generators and Rust processes | interleaved coroutines, a limit changed while in use, lost wake-ups, wrap-around of the tiebreaker, crash after the pop | counters exact, caps kept, better tiers first, nobody waits beside a free slot |
| Run orchestration | `dorian/pipeline/execution.py`, `run_state.py`, `engine/native/src/lib.rs` | run record, per-node keys, session meta `lastRun`, cancel flag | create, start, seed, walk, poll, sweep, finalise, announce | writes what the frontend reads; emits events | two threads on the same keys, abandoned runner, timeout, partial failure, crash | what is recorded is what happened, on every place it is recorded |
| Cancellation | `engine/backend/src/handlers/cancel.rs` | cancel flag with TTL | CancelPipeline | node wrapper and poll loop read it | arrives at any time, expires | a cancelled run stops |
| Execution-engine workers | `dorian/exec/worker.py`, `claimer.py`, `exec_jobs.rs` | stream `exec:jobs` with its pending list, result blobs, completion events, dead letters | read, claim, run, store, emit, ack, dead-letter, stop | producers add jobs, consumers wait for the event | crashes, stops, takeovers of live consumers, stale delivery counts, partial failure | no job lost, no answer without result |
| In-process event workers | `backend/events.py` | user and background queue, worker tasks, `done` events | emit, aemit, aemit_bg, start_workers, stop_workers | every component emits | nested awaits on one pool, drop-oldest, the race of two get() tasks, shutdown | each accepted item is handled once or its waiter released |
| Event bus between processes | `backend/eventbus_shadow.py`, `eventbus_subscriber.py`, `eventbus_elastic.py`, `eventbus_authoritative.py` | stream and consumer group, type queues, elastic pools, cached set of authoritative types | copy to the stream, consume, dispatch, ack, scale, mark a type | replaces the in-process path per event type | a mark that changes between emit and read, cancelled handlers, memory lost at a crash | an event is handled once, on one route; an acknowledged one was handled |
| Dataset profiling | `event/handlers/pipeline_events.py`, `lifecycle.py`, `session.py`, `risk_checks.py`, `exec/profile.py` | lock and rerun flag, profile job, answer keys, dataset block of the session meta | DataExists, job, completion, feedback, column edit, dataset mitigation | runs as a job of the execution engine; handlers run on the event bus | answers during a run, lock expiry, a job that waits for its user and is run again by a claimer, lost updates of the document | answers get a profile, overlapping profiles are accounted for, guesses do not replace answers |
| Session meta | `dorian/event/helpers/lifecycle.py` | meta document, lock key | session_meta_tx | handlers, run orchestration | lock expiry, fallback without lock | no update is lost |
| Pipeline preparation | `pipeline/transforms.py`, `state.py`, `printout.py`, `vault_transform.py`, `dag_analysis.py`, `mitigation_rewrites.py`, `mitigation_apply.py` | the graph, the session's dataset, profile and vault | parse, flatten, validate, expand, resolve, guard; rewrite on an accepted mitigation | first steps of run orchestration; mitigations come from risk checks | rewrites and expansions in sequence, a rewrite's way through the Rust engine and back, first edge of an unordered list, mixed positions, rules applied until none matches | the graph stays sound, no wire is lost, no test data reaches a fit, the stage ends |
| Client streams | `dorian/api/websocket.py`, `engine/gateway/src/ws.rs` | saved cursor, loop cursors, outbound channel, connection registry | connect, read, write, save, close | handlers write the stream, the browser reads it | sockets that break inside a batch, several connections of a session, an expired cursor, Redis errors | every message is written to a socket |
| Task dispatch | `engine/dispatch`, `dorian/workers/runtime_bridge.py` | circuit breaker, `inflight`, `pending`, task and result streams | submit, wait, cancel; read, run, publish, ack | `submit` and `wait` have no caller in this repository but the crate's tests; bridges run the tasks | late outcomes while the breaker probes, many readers of one result stream, crash between result and ack | the counter is exact, the breaker is settled, a result reaches its waiter |
| Worker supervisor | `dorian/workers/supervisor.py`, `scaling.py` | runtime processes | spawn, scale | per-language runtimes | processes that die | as many as needed run |
| Generators | `engine/xproduct`, `engine/automl`, `rl/` | token bucket, pause flag, search state | submit, pause, resume | dispatch queue | hysteresis on a stale depth | work goes on below the low mark |
| Rust engine crates | `engine/directors`, `scaling`, `sdf`, `engine` | run and node state machines | fire, transition, scale | run in shadow of the Python path | - | agree with the Python path |
| The rest | extractor, knowledge base store, canonical forms, MCP, LLM, gateway, vault, rate limits, frontend | documents, files | requests, parsing, rewriting | - | little shared state | data properties |

The hazards of the modelled components are listed, each at its line, in `PROJECT.json`.

## 2. Modules

| module | models | role |
|---|---|---|
| `RunLifecycle` | one run, from request to last write | component specification |
| `MCRunLifecycle` | - | instance: a source feeding two sinks |
| `RunLifecycleProofs` | - | inductive invariant and theorems |
| `DispatchQueue` | queue, bridge, RL gate | component specification |
| `MCDispatchQueue` | - | instances: two tiers, generated tasks, a task from Rust |
| `DispatchProofs` | - | inductive invariant and theorems |
| `JobDelivery` | what the execution engine promises of each job | abstract specification |
| `ExecWorkers` | consumer group, consume slots, claimers | component specification, implements `JobDelivery` |
| `MCExecWorkers` | - | instances: two workers, or one with two slots |
| `ExecProofs` | - | inductive invariants, theorems and the refinement of `JobDelivery` |
| `DatasetProfiling` | profiling of a session's dataset | component specification |
| `MCDatasetProfiling` | - | instance: two datasets, two executions of jobs, one form |
| `DatasetProofs` | - | inductive invariants and theorems |
| `EventDelivery` | what the bus promises of each handler call | abstract specification |
| `EventBus` | queues and worker pool of one process | component specification, implements `EventDelivery` |
| `MCEventBus` | - | instance: two lanes, two nested emits |
| `EventBusProofs` | - | inductive invariant, theorems and the refinement of `EventDelivery`; inductive invariant and theorems of `ClientStream` |
| `BusSubscriber` | the bus between processes | component specification |
| `MCBusSubscriber` | - | instance: two processes |
| `BusSubscriberProofs` | - | inductive invariant and theorems |
| `PipelineGraph` | graphs, validation, groups, what the knowledge base says | operators |
| `PipelineExpansion` | the five expansions | operators |
| `PipelineRewrites` | the rewrites of mitigations | operators |
| `PipelinePreparation` | from the canvas to the executed graph, composed of the three above | component specification |
| `MCPipelinePreparation` | - | instance: eight pipelines, the mitigations of each |
| `PipelineProofs` | - | lemmas on graphs, rewrites and expansions, inductive invariant and theorems |
| `TaskDispatch` | circuit breaker, Python runtime, bridge | component specification |
| `MCTaskDispatch` | - | instance: three tasks, one of them cancellable |
| `TaskDispatchProofs` | - | inductive invariant and theorems |
| `SessionStream` | a session's stream, its cursor and how far connections are | state and safety property of `ClientStream` |
| `ClientStream` | both WebSocket endpoints of one session | component specification |
| `MCClientStream` | - | instance: one Python connection, two of the gateway |

Each module carries faulty variants of some of its operators (comment "Faulty:" or
"(faulty)"), not used by the specification: put in place of the operator that follows, each makes
TLC violate the property it is paired with in `PROJECT.json`.

### RunLifecycle

One action is one access to Redis by one actor, with the local computation around
it, so the model has every interleaving of

- the orchestrator, `run_pipeline()` on its thread: variable `pc` names the stage,
  from `requested` over `created`, `started`, `expanding`, `seeded`, `polling` /
  `checking` (the loop `while not _dask_done.wait(0.5)` and its body), `gather`,
  `sweep`, `clear`, `finalise`, `announce`, `persist` to `done`; every stage that
  fails early is `FailStage`;
- the runner, the daemon thread in `_run_via_rust_runner`, which walks the graph in
  topological order and calls the `_instrument` wrapper of a node (`runner`, `cur`);
- another handler of the session, which reads the session's meta document and writes the
  whole of it back (`OtherReadsMeta`, `OtherWritesMeta`);
- the user, the clock (`DeadlinePasses`, `CancelFlagExpires`) and the machine
  (`OrchestratorRedisError`, `Crash`).

`status` and `summary` are the record `execution:{run_id}`, `node` the per-node keys,
`lastRun` what the session meta says of the run, `snap` the snapshot the orchestrator sweeps
from. `run_pipeline` writes `lastRun` by a GET of the document and a SET of it, without a
lock, when it starts (`ReadMetaAtStart`, `MarkLastRunRunning`) and when it ends
(`ReadMetaAtEnd`, `PersistLastRun`); `held` is the `lastRun` of the document the other handler
has read, which it may write back at any time later. `Deps` gives the arguments of each node. A node whose graph entry is a constant
is in `elided`; which nodes are cached is arbitrary. Left out: results, metrics,
observability records, stream messages, the TTL of the record, the legacy Dask branch
(`DORIAN_USE_RUST_RUNNER=0`). At most one Redis call of the orchestrator fails per
behaviour; the flag `faulty` remembers it.

### DispatchQueue

Everything runs on one event loop, so an action is what the loop executes between two
suspension points. `at[t]` says where a task is; the sorted set is the set of tasks
`queued`, with `Score` as the code computes it, in units of a day's fraction so that
scores are integers. `PopTask` is one round of `drain_queue`, and computes where the
loop suspends next (`NextBridge`). `Leave` is the code after
`handle_pipeline_execution` returns: `_active_runs` and the gate's slot are given back
in one turn. `FinishRun` is the run itself, which nobody waits for. `Silent` tasks come
from Rust processes, which cannot set `_task_signal`. A crash loses what is in memory,
and `BridgeError` may lose a popped task with the reply.

### JobDelivery and ExecWorkers

`JobDelivery` says what the workers promise of a job, whatever their slots, claimers and
faults do: it is delivered while it is not settled and never afterwards, its completion is
published only when its result can be fetched or storing it failed, it is buried only after
its deliveries are used up, and it is settled only when it was reported or buried, has no kind
to be handled by, was cut off by a stop, or a Redis command for it failed.

In `ExecWorkers` one action is one Redis command with its reply. `cursor`, `acked`, `times`
and `idle` are the consumer group: last-delivered id, acknowledged entries, delivery counts,
and the pending entries that are idle for longer than the claim threshold. An executor is a
consume slot or a claimer; `stage` says which await it is in, `batch` which entries it
holds, `poison` what its XPENDING reply condemned. Delivery counts come from `Rows`, which
is the truncated range query of `_delivery_counts`, with start and end chosen by the order
of the ids as strings (`LexRank`). `Stop` cancels every task: those inside `_handle_one` go
through the `finally` that acknowledges (`lastack`). `DeliveryKept` is `JobDelivery!Spec`
under the mapping of `times`, `events`, `dlq` and `acked` to attempts, reports, burials and
settlements; a stop maps to one step for all the jobs it cuts off or acknowledges.

### DatasetProfiling

One action is one Redis command, or one that follows it without an await. `meta` is the
dataset block of the session's meta document, which three writers read, change and store
whole: the feedback handler inside `session_meta_tx`, the completion handler and the
mitigation without it (`LoadMeta` / `StoreProfile`, `LoadForForm` / `StoreForForm`,
`ApplyMitigation` / `StoreMitigated`). `columns` says of each of a dataset's two column keys
whether it is absent, guessed or the user's, and `answers` counts the SETs of its answer keys,
which the feedback handler and the mitigation make one at a time (`StoreAnswer`, `CopyAnswer`).
The keys besides the two of the columns are one, the last that is set.
`lock` and `rerun` are the two keys of a dataset; `refused` are the handlers between
the failed SET NX and the SET of the flag. `job` are executions of jobs: one begins at the
lock, or when a claimer takes over the entry of another (`TakeOver`), which it may do 60 s
after that one was read, also while it still polls for its user's columns
(`ReadFeatures`, `ReadTarget`). An execution's stage covers its way to the finally clause of
the completion handler. An answer an execution has read is as old as its first read, which
makes `OnlyAStrandedRerunLosesAnAnswer` stronger, not weaker. Faults are an expired key, a
failed submission, an error of the job, and an execution or a completion that vanishes
(`LoseJob`): a crash between the lock and the XADD, a stop that acknowledges without a
completion, a dead letter.

### EventDelivery and EventBus

An item is one call of a handler. `EventDelivery` says what the bus promises of it,
whatever its queues and workers do: it runs at most once, a user event is discarded
only by a stop. `EventBus` has the two bounded queues, the reserved workers that read
only the user queue, the general ones that take from the user queue first and then race
two get() tasks (`Select`, `UserArrives`, `BgArrives`, `WakeForUser`, `PutBack`),
drop-oldest, emits from inside a handler (`Parent`), emits without a pool, and
`stop_workers` with its sentinels. `Awaited` are the items whose emitter waits for the handler
(`aemit`), and such a caller may be cancelled while the full user queue keeps it in put()
(`CancelPut`). One action is what a task does between two awaits.
`DeliveryKept` is `EventDelivery!Spec` under the mapping of `call` and `pool`. Left out:
tracing filters, counters, and which handlers an event type has.

### BusSubscriber

One type of event on one stream, read by the subscribers of several backend processes.
`auth` and `go` are the Redis sets of authoritative types and of types the Go bus handles,
`snap` and `goSnap` each process's cached copies. An emit copies the event to the stream (a
task of its own, `sending`) and, unless its copies of the sets leave the handlers to others,
queues them for the workers of its own process (`local`), which run them later
(`LocalHandle`) or never: a full background queue or a cancelled caller discards them
(`LocalDrop`), as a crash and a stop do; `lost` remembers it. The consume loop (`batch`,
`offered`) acknowledges what is not for Python to handle (`SkipEntry`, whose XACK may fail) and
puts the rest into the type queue; that and the elastic pool (`ScaleUp`, `Retire`) are as in
the code; cancelled workers acknowledge in their finally clause (`LastAck`). `Crash` loses
what is in memory, `Stop` cancels the tasks first. Trimming of the stream is left out:
its length is far above what is modelled.

### PipelineGraph, PipelineExpansion, PipelineRewrites, PipelinePreparation

A graph is a function from node ids to nodes and a set of edges with position and
output. Ids are sequences of strings, built from the canvas id the way the code appends
to it. Where the code takes the first edge of a list, the model takes any edge that the
order of drawing could put first. `PipelineGraph` also has the part of the knowledge base
that routing depends on (`Interface`, `Methods`, `Inputs`, `Consumers`): the port names
and method chains of `interfaces.kb`. `PipelineExpansion` has the replacement of one
node: dataset, state, categorical encoding, class operator, guardrail, printout.
`PipelineRewrites` has what the stored rewrite documents of `seed_rewrites.py` do at one
matched node; the positions that `reroute_incoming` allows are the ports' names, because the
knowledge base gives every port of these interfaces its name as its position. `PipelinePreparation` applies them as
`sync_apply` does, one match at a time: an accepted mitigation rewrites every operator of the
name and its result is stored unchecked; a run parses, validates (an empty pipeline fails
here), expands, validates again, resolves vault references and checks that nothing is left for
the platform to fill in.

A document that only adds nodes and edges, Class Weight Balancing, does not go that way. Unless
`DORIAN_USE_RUST_REWRITES` is set to 0 it runs in the Rust engine for all matches at once, with
one new parameter for all of them (`AddInEngine`). The graph goes there and back as JSON, and the
way back knows operators, parameters and snippets: a group is gone, and the edges at it are
not. A group without edges disappears silently; one with edges makes the next run fail its
first validation. A mitigation is accepted for a name, and the pattern made of it has no end,
so that it matches every operator whose name begins with it (`Begins`, `LongerNames`):
LogisticRegression also matches LogisticRegressionCV.

Left out: code of snippets, values of parameters, the operator form of `dorian.io.state`,
routing by introspection of Python signatures, rewrites for single libraries, and the Rust
matcher and expansions that the environment flags `DORIAN_USE_RUST_MATCHER` and
`DORIAN_USE_RUST_EXPAND_*` switch on.

### TaskDispatch

`at[t]` is where the caller of a task is, from `Dispatcher::submit` through
`PythonRuntime::submit` and `wait`; `response` is what submit is about to return. The
breaker is asked under its lock before the runtime is, and settled under it afterwards
(`AskBreaker`, `Respond`), with everything else in between: that is where submissions from
before it opened come back while it probes. `stream` and `results` are the two Redis
streams with how far their groups have read (`delivered`, `read`). All waiters read one
group of `results` (`ReadResults`), so a waiter handles results of others (`HandleOther`,
`Store`) and drops what it read behind its own (`HandleOwn`). A bridge reads only new
entries, so what it loses (`LoseEntry`) is never run. `cancel` appends a second entry with
the task's id, which the bridge runs. `inflight` is unsigned (`Wrap`). `probe`,
`cancelled` and `dropped` are history. Left out: retries by callers, the process runtime,
`healthy`, which nothing ever clears, and the payloads.

### ClientStream

A connection's loop (`stage`, `last`, `batch`) resumes from the session's saved cursor and
moves it. The Python endpoint writes an entry to the socket itself (`Send`) and saves the
cursor after the batch; the gateway's loop puts it in a channel of `Room` frames and
saves the cursor at once (`Put`, `Save`), and a second task writes the channel to the
socket (`Write`). Sockets break at any time (`Break`) and are noticed later (`Close`), when
the tasks are cancelled wherever they are. `written` and `lost` are history. The last
working socket does not break: a client that never comes back is not waiting. Left out:
messages from the client, the registry of connections, rate limits and the trimming of
the stream.

## 3. Runs

| run | states | shows |
|---|---|---|
| `run_lifecycle` | 1,681,726 | a SUCCESS really ran; a FAILED run is settled; record and events agree, and the meta never names another outcome; the record is final; nodes move legally; the run concludes |
| `dispatch` | about 1,000,000 | counters exact, cap kept up to one, no lost wake-up, better tier first |
| `dispatch_live` | about 126,000 | user tasks run, the gate drains |
| `exec_workers` | 1,652,780 | acknowledged means answered, answers are real, dead letters exceeded the budget, the workers implement `JobDelivery` |
| `exec_live` | 106,057 | every job settles |
| `profiling` | 468,966 | profiles overlap only as far as takeovers and faults explain it, an answer is left out of the profile only by a stranded rerun flag, columns are guessed only after an edit, the lock waits only for the user, a slot of a worker, or a lost job |
| `event_bus` | 33,345 | each item is held once, the bus implements `EventDelivery`; user items run although background handlers hang, awaiting emitters return and a stop returns, unless the workers that are needed wait for ever for nested calls or hang |
| `subscriber` | 438,202 | at most once per route, an acknowledged event was handled, skipped or is with its emitter's workers, pending means held, events are handled |
| `pipeline` | 9,264 | the graph stays sound but for edges at a group the Rust engine dropped, which no run accepts; no test data reaches a fit, no wire is lost, preparation ends |
| `task_dispatch` | 1,415,849 | the counter is exact until somebody cancels, a half-open breaker has a probe, an undelivered result is accounted for |
| `client_stream` | 157,745 | the saved cursor passes only entries that were written, are in a channel or were dropped with one; every other message reaches a socket |

The type invariants of `RunLifecycle`, `DispatchQueue`, `ExecWorkers`, `DatasetProfiling`,
`EventBus`, `TaskDispatch` and `ClientStream`, and `GateBoundsInside` of `DispatchQueue`, are
proved and in no run; that of `BusSubscriber`, which bounds the elastic pool, is proved and
checked by TLC.

One run ends in a violation, with its finding in `PROJECT.json`:

- `run_cancel_stops_nodes`: the cancel flag is deleted while the abandoned runner still
  works on a node; the next node finds no flag and runs.

### Bounds, and why they are enough

- `RunLifecycle`: three nodes, one source and two sinks. This has a dependency, two
  topological orders, and a sibling left behind by a failure; the threads hand over
  node by node, so a fourth node repeats what these do. The other handler of the meta document
  holds one copy of it at a time. Nothing else is bounded.
- `DispatchQueue`: two tasks of one free user, one of a paying user, two generated
  ones; `DispatchCap` and the gate's limit 1, so that each is exceeded by the next
  task; `Day = 2` ticks and `MaxClock = 1`, which gives different tiebreakers; `MaxResizes` changes of the limit to
  0..`MaxLimit`; `MaxFaults` crashes or Redis errors. The two tasks of the free user are
  symmetric in the safety run; the liveness run uses no symmetry and one task less.
- `ExecWorkers`: the safety run has two workers with one slot and one claimer each, so
  that up to three executors hold the same entry, two jobs (one of a kind the registry
  does not know), batches of two, `MaxDeliveries = 2`, so that the third delivery of an
  entry is over the limit and the first two are not, and two faults. Workers are
  interchangeable (`Symmetry`). The liveness run uses no symmetry; it has three jobs, one
  of them without a kind, and one worker with two slots and a claimer: a worker that
  comes back meets its own pending entries exactly as it meets another's. `MaxSteals`
  bounds how often an entry that a live executor holds becomes claimable again; an
  entry nobody holds always does. `MaxFaults` bounds crashes, stops, lost replies and
  Redis errors together. Ids sort as strings in another order than in time
  (`MCLexRank`).

- `DatasetProfiling`: two datasets, because a mitigation replaces one by the other while
  jobs of both are under way; two executions, because a takeover or a lock that is lost
  puts a second one beside the first; one form of three keys, and `MaxEvents = 1`: one
  reconnect, column edit, takeover or fault, which may fall between any two commands of the
  others. The three invariants were also checked with two of these events, in 8,335,343 states,
  and are proved for any number.
- `EventBus`: four user and two background items, two of the user items emitted and awaited
  by the handlers of the others, so that nested calls can hold every worker; a reserved and a general worker, so that each kind is alone with
  its queue; `UserCap = 2` and `BgCap = 1`, so that both queues overflow; one start and
  stop.
- `BusSubscriber`: two processes, so that emitter and reader differ; two events in a
  batch of two behind a queue of one, so that the loop blocks in put(); a pool of one to
  two workers, which grows and shrinks once; one change of either mark and one fault.
- `PipelinePreparation`: the pipelines are finite inputs, each with what another lacks:
  ports as the editor draws them, names of generated pipelines with a scaler upstream of
  the splitter, numbered positions without a splitter, a group beside two classifiers without
  an interface, the name of one of which begins with the other's, a language model with an
  allowed and with an unknown state key, a cycle, and nothing at all. Every mitigation is tried on every
  pipeline that has its operator, and every state of the session on each. Of 64 initial
  states, all but those of the cyclic, the empty and the numbered pipeline reach `ready` with a
  dataset present and no categorical feature; the numbered one never passes the second
  validation, and neither does a tabular one whose splitter gets an encoder.
- `TaskDispatch`: three tasks, so that two submissions are under way while a third probes,
  and one waiter reads the results of the two others in a batch of two; one bridge, because
  bridges share nothing but the streams; one failure opens the breaker, two tasks fill the
  runtime and the second is throttled, so that each answer of submit occurs (the code's own
  numbers are 5, 64 and 48); one task may be cancelled; one crash, error or lost reply.
- `ClientStream`: one Python connection and two of the gateway, so that either kind follows
  or overlaps the other; two messages in a batch of two over a channel of one frame, so that
  the loop waits for the writer; one Redis error. The cursor may expire at any time.

Deadlock checking is off in all runs but `client_stream`: a run ends, a queue empties, all
jobs are done.

### Fairness

- `RunLifecycle`: weak fairness of the orchestrator thread and of the clock. None of
  the runner: an operator may hang, and `RunConcludes` holds all the same. None of the other
  handler.
- `DispatchQueue`: weak fairness of the bridge and of each coroutine: asyncio runs every
  ready callback, and the poll interval makes `WakeFromWait` ready without a
  signal. Runs on threads get none.
- `ExecWorkers`: weak fairness of each executor (jobs end, Redis answers), of time, and
  of the restart of stopped workers, which the container restart policy does. Faults
  have none and are bounded.

- `DatasetProfiling`: weak fairness of the handlers, of an execution that has started and of
  the completion handler; none of the user, of the faults and of the claimer, and none of the
  start of a queued job: jobs that wait for other users may hold all slots of the workers.
- `EventBus`: weak fairness of every task the event loop can resume. Handlers of user
  events return; those of background events need not, which is why reserved workers
  exist. A handler that has an event to emit emits it, and one that waits for it does not end
  before: what then stands still is what the three formulas except.
- `BusSubscriber`: weak fairness of the appending tasks, the local handlers, the loops, the
  workers, and of the restart of a stopped process. The scaler, the marks and faults have none.
- `ClientStream`: weak fairness of both tasks of a connection, of noticing a broken socket,
  and of the client's reconnects, which the frontend makes on its own. None of the faults.
- `TaskDispatch`: none. A waiter has its deadline, but whether a result reaches it is not
  promised by what the code does.
- `PipelinePreparation`: weak fairness of the thread of a run; whether the user submits
  or accepts a mitigation is up to the user.

## 4. Proofs

All theorems hold for every value of the constants that satisfies the assumptions of the
component's module. These say what the code says: the tiers are those of `TIERS` and
`submit_background`, the Rust port knows one tier, caps and batches are positive, job
kinds are of three sorts, sets of tasks and workers are finite, items of the event bus are
neither its sentinel nor the value for "none", "no profile" is not a profile, canvases are
as the editor stores them, and the counter of the dispatch crate is wider than the number of tasks. The bounds of the runs
(`MaxFaults`, `MaxClock`, ...) are arbitrary naturals in the proofs.

`RunLifecycleProofs`. The properties speak of a run that has been recorded and say
nothing of the way there, so none is inductive. `IInv` adds what each stage knows: the
verdict and the record that go with each value of `pc` (`PhaseInv`), what the runner's
own stage says of the nodes it has done (`RunnerInv`), that the keys are as the runner
left them (`KeysInv`) and the snapshot equal to them once the verdict is in
(`VerdictInv`), both as long as the run was not given up (`GivenUp`: cancelled, timed
out, or a Redis error), which terminal events are out (`EventsInv`), and what the meta
document and the copy the other handler holds can say (`MetaInv`): before the run's last write
neither has a terminal status in it, so a copy that is written back afterwards brings back
RUNNING or nothing. From it follow that SUCCESS means every node executed, that FAILED leaves
nothing open, and that record, event and meta never name different outcomes. That the meta
ends with the record's outcome is not claimed: the code's unlocked GET and SET lets a stale
copy undo it, and `ReportsAgree` says that this, or a failed write, is the only way; `RecordIsFinal` and `NodesMoveLegally` follow as properties of a
step.

`DispatchProofs`. `CountsAreExact` is inductive with the types, and needed for them:
`_active_runs` stays at or above zero because a coroutine that leaves was counted. The
size of a set of tasks changes by one when a task enters or leaves (`OneMore`, `OneLess`).
`NoLostWakeup` is not inductive: a waiter woken in vain parks again, and one slot may be
given back while others wait. `WakeInv` says what is: while somebody waits, slots taken
plus wake-ups under way are at least the limit. An admission turns a wake-up into a
slot, a return turns a slot into a wake-up, parking needs a full gate, and a change of
the limit leaves nobody waiting. `WaitersInv` makes the oldest waiter a task that
is really parked. `DispatchIsBounded` speaks of tasks, while the bridge tests a sum of counters
over all users, computed by a fold. The library's induction theorems take an operator and cannot
be used here, so what the fold computes is proved by least counterexample: there is a least
number of users for which it fails, and one user fewer contradicts it (`SmallSumsExist`,
`SumUnfolds`). With that the sum is the number of counted tasks (`SumIsCount`), and
`CapInv` is inductive: tasks outside the gate, those about to count themselves included, are
within the cap, or one above it while the bridge sleeps. `BetterTierFirst` comes down to
arithmetic: scores are whole days plus a fraction of a day (`ScoreInTier`, `DaysDecide`).

`ExecProofs`. `EInv` says what an executor's stage means for the entry at hand
(`StageInv`): it is acknowledged only when it is answered, reported only when its result
is stored or the store failed, dead-lettered only when it was found over the limit. Two
facts make this stable while other executors work on the same entry: results, events,
dead letters and the history only grow, and delivery counts only grow, so that a verdict
formed from a stale XPENDING reply stays true (`PoisonInv`). `TakeUp` is the lemma
for the turn to the next entry. The type invariant needs more than types: that the entries an
executor holds were delivered (`BatchInv`), and that putting a set of entries in order by
counting the smaller ones gives a sequence of exactly these (`InOrderType`), for which the rank
must be a bijection (`RankGrows`). For the refinement, `StepDelivers` shows that every action is
a step of `JobDelivery` or leaves the mapped variables alone. It rests on the invariants above
and on `TimesInv`: what the cursor has passed was delivered at least once, so that whatever is
handled has an attempt to its name.

`DatasetProofs`. `OverlapIsExplained` bounds the number of profiles of a dataset under way
by the lock, the takeovers and the faults so far. It is inductive with the types; what each
command does to that number is one lemma (`OneJobMoves`), since a command moves one execution.
`GuessNeedsAnEdit` needs to know that an execution which found a column key finds it present
later on (`GuessInv`), also when a claimer runs the job a second time: only an edit removes
keys, and a mitigation copies those that are there.
`OnlyAStrandedRerunLosesAnAnswer` is about a document that several handlers rewrite, and holds
because undisturbed there is one dataset (`OnlyFirst`), the lock admits one job (`OneRun`), and
answers newer than those of that job or of the stored profile have a request on its way
(`Covered`); `AnswerInv` is the three together. Its premise excludes takeovers, with which it
does not hold: the earlier of two executions may be the last to store its profile.

`EventBusProofs`. An item under way may be in a queue, in the hands of a get() task or of a
worker. `HeldOnce` counts these places, and is not inductive, because it does not say that
an item found in one place is in the state that belongs there. `BInv` does: queues have no
item twice and only items queued in their lane (`QueuesInv`), get() tasks hold items that
are in no queue (`GetsInv`), workers hold running items (`RunsInv`), every item under way is
somewhere (`PlacedInv`), and a pool that is down is empty (`PoolInv`). The lemmas on `Append`,
`Tail` and the sentinels (`AppendFacts`, `TailFacts`, `PutSomeFacts`) carry this through the
queues. The same invariant shows that every step of the bus is a step of `EventDelivery` or
leaves the calls alone (`StepDelivers`): an item taken from a queue was accepted and not yet
run, an item displaced by another was of the background lane.

`BusSubscriberProofs`. An event on its way from the stream to its handlers is in a batch, in the
loop's hands, in a type queue, with a worker, or with a cancelled worker. `HeldInv` says
that it is in at most one of these, of one process, and was read, `StreamInv` that the
stream has no event twice, `LocalInv` that an event queued in the process that emitted it is
there once, was left to no reader and is not discarded, and `RunsInv` what an event's place says of
its routes: in a batch its reader has decided nothing yet, further on it was taken by a reader and
its handlers ran only if the emitter ran them. `AtMostOncePerRoute` follows: whoever runs the
handlers takes the event from its one place. `AckInv` says that an event read is pending, or
done with, or was not taken, and needs to say it of events still in a batch too, which were
delivered but not looked at. It holds through faults, so `AckedIsHandled` has no exception for
crashes between reading and acknowledging: they leave an event pending for ever. What it does have is the
local route, where the acknowledgement and the handlers are in different processes.
`PendingIsHeld` needs in addition that without a fault every process is up (`PendingInv`).

`TaskDispatchProofs`. `InflightIsExact` equates a counter modulo `Wrap` with the size of a
set of tasks. A step moves one task into the set or out of it (`CountUp`, `CountDown`), and
as the set is no larger than `Tasks` and `Wrap` is, the counter neither wraps nor goes below
zero; without that assumption the theorem would be false. The types need the stages
(`StageInv`): a waiter that reads has something in hand. `HalfOpenHasAProbe` is inductive
only with `BreakerInv`: a breaker that has opened keeps its count of failures while it
probes, so any failure, of a late submission too, opens it again, and any success closes it;
only the probe's own settling could leave it half open, and that is a throttled answer.
`ResultsAreAccountedFor` is about tasks that are waiting. The invariant (`ResultInv`) says the
same of every task not ended, because a result can be published before its submitter has
come to wait: a waiter that meets it then finds no slot and drops it. `PlaceInv` says that only
a task that is reading holds a batch, and that there is no slot before the registration, so
that registering overwrites nothing.

Client streams (the last part of `EventBusProofs`). `CursorIsWritten` is not inductive, since nothing in it says where the
value being saved comes from. `SettledInv` says of every connection that all entries up to the
last one it wrote are settled: written, in some gateway's channel, or dropped with one. It is
true when a connection starts, because the cursor it starts from is settled, and it stays true
because entries leave the channel only for the socket or with the channel
(`SettledStays`); `LoopInv` places the channel between socket and loop, so that what a loop
has handled is settled (`HandledIsSettled`), whichever loop saves the cursor and in
whatever order.

`PipelineProofs`. `GraphStaysSound` says that no step makes a sound pipeline unsound, where
sound means that no edge dangles and nothing waits for itself, and that what is past validation
stays sound. `NearlySound` is what is left when the engine dropped groups: no loop, and no edge
dangles but at one of them; validation accepts only the graphs of these that are sound
(`StaysNearlySound`, `AddedInEngine`), so that flattening and the expansions start from a sound
graph whenever they are of interest. The argument has four parts.

- What the operators on graphs compute. `Acyclic` and `After` apply a function as often as the
  graph has nodes. `AcyclicIsNoLoop` and `AfterIsReach` show that this is often enough: the
  first fails exactly when some set of nodes has no first one, the second is the least
  closed set of successors. The induction is over the set of numbers for which a formula
  holds (`SetInduction`), since the library's induction theorem takes an operator.
- How edges move. Every rewrite and every expansion unfolds a node into several, or puts some
  between it and its wires. If the new nodes have no loop among themselves, and every edge at
  them stands for one that was there at the old node, then a first node of the old graph gives
  one of the new (`Unfolding`). `Outcome` collects what the later parts need of a step: at most
  the named nodes come in, none of them a group, a new operator has one of some names, and a
  sound graph stays sound. `Applied` shows it for every rewrite, `EncoderInserted`,
  `DatasetExpanded`, `StateExpanded`, `ClassExpanded`, `PrintoutExpanded` and
  `GroupFlattened` for the expansions. `insert_x_preprocessor` is the one rewrite that needs
  reachability: its guard keeps out of the way what the new node would lead back to. Robust
  scaling renames its match instead, and has a lemma of its own (`NodeReplaced`).
- That the ids are free. The code appends to the id of the node it works on, so the id it makes
  is taken if some node's id extends that one already. `Ids` says that no id extends another,
  except by the tags of what is put on a wire, and `ReplacedIds` that replacing a node by nodes
  with longer ids keeps it so. Encoders are put in while the pipeline has none of their
  tags (`NoEncoderIds`), unless it has an encoder already and the step is skipped.
- The invariant of the stages, `PreparationInv`. `Rewriting` says that an operator which is
  not of the canvas is none that the rule matches, so a rule is applied to nodes of the canvas
  only (`RewritingEnds`), and that the ids it will make at the nodes of the canvas that are not
  processed yet are free. Groups are those of the canvas until they are flattened; a pipeline past
  validation is sound and not empty. TLC checked this invariant, and the one of the wires below, on the
  instance of the run.

With it comes `ReadyIsWalkable`: what is handed over is finite, not empty, and however much of it
has been done, something of the rest waits for nothing in the rest. `RunLifecycle`
takes its `Nodes` and `Deps` as given: this is where they come from, and why a walk in topological
order reaches every node.

`NoWireIsLost` relates the pipeline that was submitted to the one that is executed, and no
stage between them knows what the first one was: its invariant (`WireInv`) has to say how
much of it is still there. `Carried` says that every wire of the submitted pipeline is
followed by one of the graph (`Follows`), which the property asks for, and what makes this
survive the next step:

- The nodes of the submitted pipeline that are left are as they were, and no id of it is given
  out again; otherwise a node that was expanded could come back under another's id, and the
  property would ask for its output. Here too it matters that no id extends another but by
  the tags of what is put on a wire (`WordsApart`).
- What follows a wire leads to its destination or to a node that was made, never to another
  node of the submitted pipeline, and nodes that were made drop nothing: none of them is a
  dataset, a state parameter or a guardrail.
- A guardrail has at most as many data inputs as it had when it was submitted, if it had one,
  and a parameter is followed by parameters; otherwise the expansion of a guardrail, which
  reads one of its data inputs, could drop a wire that was the only one.

`Wired` is what each expansion gives (`ClassExpanded`, `GroupFlattened`, `DatasetExpanded`,
`StateExpanded`, `PrintoutExpanded`) and `Slipped` what an encoder gives (`EncoderInserted`);
`WiredCarries` and `SlippedCarries` compose them. The proof found what the property leaves to
the user, which `Unread` names: a wire into a dataset or a state parameter is dropped with
it, and a guardrail reads one of its data inputs. `Dangling` wires stop a run at validation.

The theorems assume of a canvas what the editor and the parser give it (`WellDrawn`): nodes
under ids of one part, which is not one of the words the code appends, and groups as
`build_group` makes them (`WellBuilt`): their calls are snippets or operators that the platform
does not fill in, and one of them is `__init__`, which takes what no port takes. The wiring is the user's: edges may dangle, run in
circles or sit at any position. Of the mitigations they assume that none is accepted for an
operator it inserts itself, SMOTE before SMOTE included, for which `sync_apply` would not end.

Only model-checked: liveness (`RunConcludes`, `QueuedTasksRun`, `GateDrains`, `JobsSettle`,
`LockIsGivenBack`, `UserItemsRun`, `AemitReturns`, `StopReturns`, `EventsAreHandled`,
`MessagesAreWritten`, `PreparationEnds`), which is out of the prover's reach, and one
invariant, `TrainingSeesNoTestData` of `PipelinePreparation`. It is not true of every pipeline
that can be drawn: a user may wire the test output of a splitter into a fit. It is a property of
the pipelines the editor and the generators suggest, and the run has those. A theorem would have
to assume of a canvas what the property says of it.

## 5. Findings without a run

Quoted with their lines in `PROJECT.json`:

- A stage that fails after RUNNING was written leaves the record and `lastRun` RUNNING.
- `run_pipeline` changes the session meta without its lock: a handler that writes back an older
  copy brings back `lastRun` RUNNING, and the run may undo what a handler stored.
- Cached nodes stay PENDING in the summary of a successful run.
- The gate's slot and `_active_runs` are given back when a run is launched, so more than
  N generated pipelines execute at once, and a user's limit is announced but not enforced.
- The tiebreaker of the queue falls back to zero at midnight.
- A claimed entry over the delivery limit may have no row in the truncated XPENDING reply
  and is run again; a job cancelled by a graceful stop is acknowledged without a
  completion event; the docstring of the worker says nothing is replayed.
- The rerun flag of a profile may be set after the only reader has looked for it; the
  guess of columns never happens for a new dataset and may overwrite an answer.
- The claimer takes over jobs of living workers after 60 s: a profile job that waits for its user
  is run again beside itself, and the older profile may be stored last.
- Handlers on the bus that wait for events of their own can fill the pool, and nothing runs any
  more; `UserItemsRun`, `AemitReturns` and `StopReturns` except exactly that.
- A reader in another process acknowledges an event whose handlers are only queued in the
  emitter's memory (`lost` in `BusSubscriber`); `aemit` runs events of Go-handled types that
  `aemit_bg` leaves to Go.
- `stop_workers` discards what its docstring says it drains, and never returns when a running
  handler awaits an event that lands behind the sentinels, the exception of `StopReturns`.
- The mitigation Stratified Splitting adds a data edge at a named position to an operator with
  numbered ones; the expansion sorts them together and raises.
- Accepting Class Weight Balancing on a canvas with a group drops the group and leaves the edges
  at it: the way through the Rust engine and back is no identity.
- A state key outside the allow-list makes `expand_state_refs` loop for ever.
- The duplicate call for X_test never gets an output; the dense converter takes the first
  edge, not the one with the smallest position.
- The gateway saves the cursor before the socket is written: a disconnect loses what is in
  the channel (`lost` in `ClientStream`). An old connection of either endpoint that is closed
  late takes the registration of the new one with it.
- No waiter looks at results another waiter stored for it; a cancelled task is discounted
  twice, and the counter wraps; a throttled probe leaves the breaker half open for ever; the
  bridge runs cancel messages (`TaskDispatch`).

Not quoted there, for want of a promise in the code:

- A run that exceeds `_EXECUTION_TIMEOUT` is recorded CANCELLED with "Cancelled by user",
  after PipelineRunFailed was emitted for it; `ReportsAgree` makes the exception explicit.
- An event whose emitter waits in `put()` when the pool is drained is stranded in a queue
  nobody reads (`stranded` in `EventBus`).
- A type that is marked or unmarked between emit and read runs on both routes or on none;
  a failed XADD of an authoritative event loses it; the scaler cancels a worker inside a
  handler (`cut`).
- An accepted mitigation stores its graph unchecked. A mitigation whose rewrite inserts
  the operator it matches would not end; `ConstantsAssumption` of `PipelinePreparation`
  excludes it. `insert_label_encoder` reads any first output of the splitter for all.
- The merge of a profile may store a document read before a mitigation replaced the
  dataset, and so bring the old one back; `Undisturbed` excludes it.

## 6. Not modelled, and the plan

Left out for good: pure data transformations (canonical forms, extraction, metrics), I/O
shells (HTTP routes, the gateway's proxy, MCP, LLM), the frontend, and numeric search (RL, AutoML).
The Rust directors run in shadow of the Python path. These are most of the repository's
lines; the modules cover the small part that keeps state under concurrency, and the
sequential core of pipeline preparation.

In this order:

1. `SessionMeta`: `session_meta_tx` with its lock, the lock's expiry and the fallback
   without it, over the blocks that `DatasetProfiling` and `RunLifecycle` leave out.
2. `ClientStream`: the registry of connections and the pushes to all of them.
3. `TaskDispatch`: the choice between runtimes and the supervisor's restarts.
4. `Producers`: the token bucket and pause flags of the cross-product engine against the
   depth of the queue, composed with `DispatchQueue`.
