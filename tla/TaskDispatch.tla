---------------------------- MODULE TaskDispatch ----------------------------
(***************************************************************************)
(* The dispatch crate of the Rust engine (dispatcher.rs, python.rs) and    *)
(* the Python process at the other end of its streams (runtime_bridge.py). *)
(* A caller submits a task through the circuit breaker, PythonRuntime      *)
(* appends it to the task stream and counts it, a bridge runs it and       *)
(* appends its result, and the caller waits for the result as one of many  *)
(* readers of the result stream. One action is one command to Redis, or    *)
(* one step on the dispatcher's shared state with what follows it there:   *)
(* the counter and the slot of a task change together.                     *)
(***************************************************************************)
EXTENDS Integers, FiniteSets, Sequences, SequencesExt

CONSTANTS
  Tasks,          \* submissions, each with a task id of its own
  Cancellable,    \* those whose caller may cancel them
  Bridges,        \* bridge processes
  NoTask,
  MaxDepth,       \* max_queue_depth
  ThrottleAbove,  \* three quarters of it
  Threshold,      \* failure_threshold
  Batch,          \* results a waiter reads at a time
  Wrap,           \* the counter is unsigned: 2^32
  MaxFaults       \* bound: crashes, Redis errors, lost replies

ASSUME ConstantsAssumption ==
  /\ IsFiniteSet(Tasks) /\ Cancellable \subseteq Tasks /\ NoTask \notin Tasks
  /\ MaxDepth \in Nat \ {0} /\ ThrottleAbove \in Nat /\ Threshold \in Nat \ {0}
  /\ Batch \in Nat \ {0} /\ Wrap \in Nat /\ Wrap > Cardinality(Tasks)
  /\ MaxFaults \in Nat

VARIABLES
  at,         \* where each task's caller is
  response,   \* what submit is about to return to it
  probe,      \* the last task an open breaker let through, or NoTask
  state, failures, rested,  \* the breaker; rested: recovery_timeout has elapsed
  inflight,   \* PythonRuntime.inflight
  pending,    \* PythonRuntime.pending: "none", "empty" or "filled" for each task
  stream,     \* runtime:python:tasks, and how far its group has read
  delivered,
  entry,      \* the entry each bridge works on, or NoTask
  work,       \* where the bridge is with it
  results,    \* runtime:python:results, and how far its group has read
  read,
  batch,      \* results a waiter has read and not yet looked at
  cancelled,
  dropped,    \* tasks whose result a reader threw away
  faults

breaker == <<state, failures, rested>>
callers == <<at, response, probe>>
bridges == <<delivered, entry, work>>
vars == <<callers, breaker, inflight, pending, stream, bridges, results, read, batch,
          cancelled, dropped, faults>>

Submitting == {"allowed", "room", "added", "responding"}
Waiting == {"waiting", "reading"}
Ended == {"answered", "timedout", "broken", "refused"}

TypeOK ==
  /\ at \in [Tasks -> {"new"} \cup Submitting \cup Waiting \cup Ended]
  /\ response \in [Tasks -> {"none", "accepted", "throttle", "rejected", "error"}]
  /\ probe \in Tasks \cup {NoTask}
  /\ state \in {"closed", "open", "half"} /\ failures \in Nat /\ rested \in BOOLEAN
  /\ inflight \in 0..Wrap - 1
  /\ pending \in [Tasks -> {"none", "empty", "filled"}]
  /\ stream \in Seq(Tasks) /\ delivered \in 0..Len(stream)
  /\ entry \in [Bridges -> Tasks \cup {NoTask}]
  /\ work \in [Bridges -> {"idle", "running", "ran", "published"}]
  /\ results \in Seq(Tasks) /\ read \in 0..Len(results)
  /\ batch \in [Tasks -> Seq(Tasks)]
  /\ cancelled \subseteq Cancellable /\ dropped \subseteq Tasks /\ faults \in 0..MaxFaults

Init ==
  /\ at = [t \in Tasks |-> "new"] /\ response = [t \in Tasks |-> "none"] /\ probe = NoTask
  /\ state = "closed" /\ failures = 0 /\ rested = FALSE
  /\ inflight = 0 /\ pending = [t \in Tasks |-> "none"]
  /\ stream = <<>> /\ delivered = 0
  /\ entry = [b \in Bridges |-> NoTask] /\ work = [b \in Bridges |-> "idle"]
  /\ results = <<>> /\ read = 0 /\ batch = [t \in Tasks |-> <<>>]
  /\ cancelled = {} /\ dropped = {} /\ faults = 0

Goto(t, stage) == at' = [at EXCEPT ![t] = stage]
Fault == faults < MaxFaults /\ faults' = faults + 1
CountOne == inflight' = (inflight + 1) % Wrap
DiscountOne == inflight' = (inflight - 1) % Wrap

-----------------------------------------------------------------------------
(* Submitting *)

\* allows_request. A closed breaker lets every submission through, an open one the first
\* after the recovery timeout, a half-open one none; a submission it refuses gets an error.
AskBreaker(t) ==
  /\ at[t] = "new"
  /\ \/ /\ state = "closed"
        /\ Goto(t, "allowed") /\ UNCHANGED <<state, probe>>
     \/ /\ state = "open" /\ rested
        /\ Goto(t, "allowed") /\ state' = "half" /\ probe' = t
     \/ /\ state = "half" \/ (state = "open" /\ ~rested)
        /\ Goto(t, "refused") /\ UNCHANGED <<state, probe>>
  /\ UNCHANGED <<response, failures, rested, inflight, pending, stream, bridges, results,
                 read, batch, cancelled, dropped, faults>>

\* recovery_timeout elapses.
Rest ==
  /\ state = "open" /\ ~rested /\ rested' = TRUE
  /\ UNCHANGED <<callers, state, failures, inflight, pending, stream, bridges, results,
                 read, batch, cancelled, dropped, faults>>

\* PythonRuntime::submit reads the counter and forms its answer from what it read.
LoadDepth(t) ==
  /\ at[t] = "allowed"
  /\ \/ /\ inflight >= MaxDepth
        /\ response' = [response EXCEPT ![t] = "rejected"] /\ Goto(t, "responding")
     \/ /\ inflight < MaxDepth
        /\ response' = [response EXCEPT ![t] =
                          IF inflight > ThrottleAbove THEN "throttle" ELSE "accepted"]
        /\ Goto(t, "room")
  /\ UNCHANGED <<probe, breaker, inflight, pending, stream, bridges, results, read, batch,
                 cancelled, dropped, faults>>

AddTask(t) ==
  /\ at[t] = "room" /\ Goto(t, "added") /\ stream' = Append(stream, t)
  /\ UNCHANGED <<response, probe, breaker, inflight, pending, bridges, results, read, batch,
                 cancelled, dropped, faults>>

\* No connection, or no reply to XADD although the entry may be in the stream.
AddTaskFails(t) ==
  /\ at[t] = "room" /\ Fault
  /\ stream' \in {stream, Append(stream, t)}
  /\ response' = [response EXCEPT ![t] = "error"] /\ Goto(t, "responding")
  /\ UNCHANGED <<probe, breaker, inflight, pending, bridges, results, read, batch,
                 cancelled, dropped>>

\* The task is counted and gets a slot for its result, which may be there already.
Register(t) ==
  /\ at[t] = "added" /\ Goto(t, "responding")
  /\ CountOne /\ pending' = [pending EXCEPT ![t] = "empty"]
  /\ UNCHANGED <<response, probe, breaker, stream, bridges, results, read, batch,
                 cancelled, dropped, faults>>

\* record_success and record_failure; a throttled submission is neither.
RecordSuccess == state' = "closed" /\ failures' = 0 /\ rested' = FALSE
\* A rejection does not count while the breaker probes (faulty).
RecordFailureIfClosed ==
  /\ failures' = failures + 1 /\ rested' = FALSE
  /\ state' = IF failures' >= Threshold /\ state = "closed" THEN "open" ELSE state
RecordFailure ==
  /\ failures' = failures + 1 /\ rested' = FALSE
  /\ state' = IF failures' >= Threshold THEN "open" ELSE state

\* Dispatcher::submit settles the breaker and returns. An accepted task is waited for.
Respond(t) ==
  /\ at[t] = "responding"
  /\ \/ response[t] = "accepted" /\ RecordSuccess /\ Goto(t, "waiting")
     \/ response[t] = "throttle" /\ UNCHANGED breaker /\ Goto(t, "waiting")
     \/ response[t] \in {"rejected", "error"} /\ RecordFailure /\ Goto(t, "refused")
  /\ UNCHANGED <<response, probe, inflight, pending, stream, bridges, results, read, batch,
                 cancelled, dropped, faults>>

-----------------------------------------------------------------------------
(* The bridge *)

TakeEntry(b) ==
  /\ work[b] = "idle" /\ delivered < Len(stream)
  /\ delivered' = delivered + 1
  /\ entry' = [entry EXCEPT ![b] = stream[delivered + 1]]
  /\ work' = [work EXCEPT ![b] = "running"]
  /\ UNCHANGED <<callers, breaker, inflight, pending, stream, results, read, batch,
                 cancelled, dropped, faults>>

\* process_task returns a result in any case: done, failed, timed out.
ProcessTask(b) ==
  /\ work[b] = "running" /\ work' = [work EXCEPT ![b] = "ran"]
  /\ UNCHANGED <<callers, breaker, inflight, pending, stream, delivered, entry, results,
                 read, batch, cancelled, dropped, faults>>

PublishResult(b) ==
  /\ work[b] = "ran" /\ work' = [work EXCEPT ![b] = "published"]
  /\ results' = Append(results, entry[b])
  /\ UNCHANGED <<callers, breaker, inflight, pending, stream, delivered, entry, read,
                 batch, cancelled, dropped, faults>>

AckEntry(b) ==
  /\ work[b] = "published" /\ work' = [work EXCEPT ![b] = "idle"]
  /\ entry' = [entry EXCEPT ![b] = NoTask]
  /\ UNCHANGED <<callers, breaker, inflight, pending, stream, delivered, results, read,
                 batch, cancelled, dropped, faults>>

\* The bridge dies and is started again, or a command fails and it goes on with the next
\* entry: what it had is pending in the group for ever, because it reads only ">".
LoseEntry(b) ==
  /\ work[b] # "idle" /\ Fault
  /\ work' = [work EXCEPT ![b] = "idle"] /\ entry' = [entry EXCEPT ![b] = NoTask]
  /\ UNCHANGED <<callers, breaker, inflight, pending, stream, delivered, results, read,
                 batch, cancelled, dropped>>

-----------------------------------------------------------------------------
(* Waiting *)

\* wait() cannot connect: the task stays counted.
WaitFails(t) ==
  /\ at[t] = "waiting" /\ Fault /\ Goto(t, "broken")
  /\ UNCHANGED <<response, probe, breaker, inflight, pending, stream, bridges, results,
                 read, batch, cancelled, dropped>>

\* The deadline is tested between two reads. The task stays counted (faulty).
DeadlinePassesSilently(t) ==
  /\ at[t] = "waiting" /\ Goto(t, "timedout")
  /\ UNCHANGED <<inflight, response, probe, breaker, pending, stream, bridges, results,
                 read, batch, cancelled, dropped, faults>>

\* The deadline is tested between two reads.
DeadlinePasses(t) ==
  /\ at[t] = "waiting" /\ Goto(t, "timedout") /\ DiscountOne
  /\ UNCHANGED <<response, probe, breaker, pending, stream, bridges, results, read, batch,
                 cancelled, dropped, faults>>

NewRead == IF read + Batch < Len(results) THEN read + Batch ELSE Len(results)
Unread == SubSeq(results, read + 1, NewRead)

\* XREADGROUP gives this waiter results nobody has read, whosever they are.
ReadResults(t) ==
  /\ at[t] = "waiting" /\ read < Len(results)
  /\ batch' = [batch EXCEPT ![t] = Unread] /\ read' = NewRead /\ Goto(t, "reading")
  /\ UNCHANGED <<response, probe, breaker, inflight, pending, stream, bridges, results,
                 cancelled, dropped, faults>>

\* The reply is lost: an error counts as no result (unwrap_or_default).
LoseBatch(t) ==
  /\ at[t] = "waiting" /\ read < Len(results) /\ Fault
  /\ read' = NewRead /\ dropped' = dropped \cup ToSet(Unread)
  /\ UNCHANGED <<callers, breaker, inflight, pending, stream, bridges, results, batch,
                 cancelled>>

\* Another waiter's result is not stored (faulty).
StoreOwn(r) == UNCHANGED <<pending, dropped>>
\* It is stored, if the other task has its slot by now.
Store(r) ==
  IF pending[r] = "none" THEN pending' = pending /\ dropped' = dropped \cup {r}
  ELSE pending' = [pending EXCEPT ![r] = "filled"] /\ dropped' = dropped

\* The first result of the batch is another task's.
HandleOther(t) ==
  /\ at[t] = "reading" /\ Head(batch[t]) # t
  /\ Store(Head(batch[t]))
  /\ batch' = [batch EXCEPT ![t] = Tail(@)]
  /\ Goto(t, IF Len(batch[t]) = 1 THEN "waiting" ELSE "reading")
  /\ UNCHANGED <<response, probe, breaker, inflight, stream, bridges, results, read,
                 cancelled, faults>>

\* It is this task's own: wait returns, and what it had read behind it is gone.
HandleOwn(t) ==
  /\ at[t] = "reading" /\ Head(batch[t]) = t
  /\ Goto(t, "answered") /\ DiscountOne
  /\ pending' = [pending EXCEPT ![t] = "none"]
  /\ dropped' = dropped \cup ToSet(Tail(batch[t])) /\ batch' = [batch EXCEPT ![t] = <<>>]
  /\ UNCHANGED <<response, probe, breaker, stream, bridges, results, read, cancelled, faults>>

\* cancel: another entry with the task's id, which the bridge runs like any other and
\* fails. The waiter is not told.
Cancel(t) ==
  /\ t \in Cancellable \ cancelled /\ at[t] \in Waiting
  /\ stream' = Append(stream, t) /\ DiscountOne
  /\ pending' = [pending EXCEPT ![t] = "none"] /\ cancelled' = cancelled \cup {t}
  /\ UNCHANGED <<callers, breaker, bridges, results, read, batch, dropped, faults>>

-----------------------------------------------------------------------------
Submit(t) == AskBreaker(t) \/ LoadDepth(t) \/ AddTask(t) \/ Register(t) \/ Respond(t)
Wait(t) == DeadlinePasses(t) \/ ReadResults(t) \/ HandleOther(t) \/ HandleOwn(t)
Bridge(b) == TakeEntry(b) \/ ProcessTask(b) \/ PublishResult(b) \/ AckEntry(b)
TaskFault(t) == AddTaskFails(t) \/ WaitFails(t) \/ LoseBatch(t)

Next == \/ \E t \in Tasks : Submit(t) \/ Wait(t) \/ Cancel(t) \/ TaskFault(t)
        \/ \E b \in Bridges : Bridge(b) \/ LoseEntry(b)
        \/ Rest

Spec == Init /\ [][Next]_vars

-----------------------------------------------------------------------------
(* Properties *)

\* The counter that backpressure and scaling go by is the number of tasks registered
\* whose wait has not ended, or could not begin, for every interleaving of submitters and
\* waiters - as long as nobody cancels, for a cancelled task is discounted twice.
Counted(t) == \/ at[t] = "responding" /\ response[t] \in {"accepted", "throttle"}
              \/ at[t] \in Waiting \cup {"broken"}
InflightIsExact == cancelled = {} => inflight = Cardinality({t \in Tasks : Counted(t)})

\* A half-open breaker refuses everything, so somebody must be on the way to settle it:
\* its probe, however many submissions from before it opened are still under way. Only a
\* probe that was throttled leaves it half open (Dispatcher::submit).
HalfOpenHasAProbe ==
  state = "half" => probe \in Tasks /\ (at[probe] \in Submitting \/ response[probe] = "throttle")

\* A result that was published for a waiting task is unread, in some waiter's hands,
\* kept in `pending`, or was dropped: in a lost reply, behind the reader's own result, or
\* before the task had its slot.
ResultsAreAccountedFor ==
  \A t \in Tasks \ cancelled :
    at[t] \in Waiting /\ t \in ToSet(results) =>
      \/ \E k \in read + 1..Len(results) : results[k] = t
      \/ \E u \in Tasks : t \in ToSet(batch[u])
      \/ pending[t] = "filled" \/ t \in dropped
=============================================================================
