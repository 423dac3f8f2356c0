---------------------------- MODULE ExecWorkers ----------------------------
(***************************************************************************)
(* The execution-engine workers (dorian/exec/worker.py, claimer.py). Jobs  *)
(* are entries of the Redis stream exec:jobs, read by a consumer group.    *)
(* Every worker process runs consume slots, which read fresh entries, and  *)
(* one claimer, which takes over entries that stayed pending too long and  *)
(* moves those delivered too often to a dead-letter stream. A job is run,  *)
(* its result stored, its completion event emitted, its entry acknowledged *)
(* - four awaits, between which the worker may crash, be stopped, or find  *)
(* Redis failing. One action is one Redis command with its reply.          *)
(***************************************************************************)
EXTENDS Integers, FiniteSets, Sequences, SequencesExt, FiniteSetsExt

CONSTANTS
  NJobs,          \* entries the producers add
  LexRank,        \* LexRank[j]: place of the entry id of j in the order of strings
  Kind,           \* Kind[j]: "known", "unknown" to the registry, or "missing"
  Workers, Slots, \* processes, consume slots of each (DORIAN_EXEC_CONCURRENCY)
  Batch,          \* DORIAN_EXEC_BATCH
  ClaimBatch,     \* DORIAN_EXEC_CLAIM_BATCH
  MaxDeliveries,  \* DORIAN_EXEC_MAX_DELIVERIES
  MaxSteals,      \* bound: deliveries after which a held entry is not claimed again
  MaxFaults       \* bound: crashes, stops and Redis errors

Jobs == 1..NJobs

ASSUME ConstantsAssumption ==
  /\ NJobs \in Nat /\ LexRank \in [Jobs -> Nat]
  /\ \A i, j \in Jobs : LexRank[i] = LexRank[j] => i = j
  /\ Kind \in [Jobs -> {"known", "unknown", "missing"}]
  /\ IsFiniteSet(Workers) /\ IsFiniteSet(Slots) /\ "claimer" \notin Slots
  /\ Batch \in Nat \ {0} /\ ClaimBatch \in Nat \ {0}
  /\ MaxDeliveries \in Nat /\ MaxSteals \in Nat /\ MaxFaults \in Nat

VARIABLES
  added,      \* entries 1..added are in the stream
  cursor,     \* the group's last-delivered id
  times,      \* delivery count of each entry
  idle,       \* pending entries whose idle time exceeds the claim threshold
  acked,      \* entries acknowledged
  dlq,        \* the dead-letter stream
  results,    \* jobs with a result blob
  events,     \* jobs with a completion event
  stage,      \* what each executor awaits
  batch,      \* the entries it holds, the current one first
  poison,     \* those of them its XPENDING reply showed over the limit
  cancelled,  \* history: jobs whose handling a stop cancelled
  broken,     \* history: jobs for which a Redis command failed
  faults

vars == <<added, cursor, times, idle, acked, dlq, results, events, stage, batch, poison,
          cancelled, broken, faults>>
stream == <<added, cursor, times, idle>>
history == <<cancelled, broken, faults>>

SlotExecs == Workers \X Slots
Claimers == Workers \X {"claimer"}
Executors == SlotExecs \cup Claimers
ExecutorsOf(w) == {x \in Executors : x[1] = w}

\* "count" awaits XPENDING, "dead" the dead-letter XADD, "lastack" the XACK that the
\* finally clause sends while the task is being cancelled.
Stages == {"idle", "count", "run", "store", "emit", "ack", "dead", "lastack", "off"}

Pending == (1..cursor) \ acked
Held(j) == \E x \in Executors : j \in ToSet(batch[x])
Current(x) == Head(batch[x])

TypeOK ==
  /\ added \in 0..NJobs /\ cursor \in 0..added
  /\ times \in [Jobs -> Nat]
  /\ acked \subseteq 1..cursor /\ idle \subseteq Pending
  /\ dlq \subseteq Jobs /\ results \subseteq Jobs /\ events \subseteq Jobs
  /\ stage \in [Executors -> Stages] /\ batch \in [Executors -> Seq(Jobs)]
  /\ \A x \in Executors : batch[x] = <<>> <=> stage[x] \in {"idle", "off"}
  /\ poison \in [Executors -> SUBSET Jobs]
  /\ cancelled \subseteq Jobs /\ broken \subseteq Jobs /\ faults \in 0..MaxFaults

-----------------------------------------------------------------------------
(* Taking up an entry *)

\* Where _handle_one, or the claimer's loop, first awaits for the head of b.
FirstStage(b, over) ==
  IF b = <<>> THEN "idle"
  ELSE IF Head(b) \in over THEN "dead"
  ELSE IF Kind[Head(b)] = "missing" THEN "ack"
  ELSE IF Kind[Head(b)] = "unknown" THEN "emit"
  ELSE "run"

Hold(x, b, st) ==
  /\ batch' = [batch EXCEPT ![x] = b]
  /\ stage' = [stage EXCEPT ![x] = st]

\* On to the next entry of the batch, or back to the read.
NextEntry(x) == Hold(x, Tail(batch[x]), FirstStage(Tail(batch[x]), poison[x]))

Deliver(js) == times' = [j \in Jobs |-> times[j] + (IF j \in js THEN 1 ELSE 0)]

Submit ==
  /\ added < NJobs
  /\ added' = added + 1
  /\ UNCHANGED <<cursor, times, idle, acked, dlq, results, events, stage, batch, poison,
                 history>>

\* What XREADGROUP with ">" hands out, and what XAUTOCLAIM from 0-0 does (faulty: it
\* takes over an entry only once).
Fresh == {j \in Jobs : cursor < j /\ j <= added /\ j <= cursor + Batch}
ClaimableOnce == {j \in idle : times[j] = 1 /\ Cardinality({i \in idle : i <= j}) <= ClaimBatch}
Claimable == {j \in idle : Cardinality({i \in idle : i <= j}) <= ClaimBatch}
InOrder(js) ==
  [i \in 1..Cardinality(js) |-> CHOOSE j \in js : Cardinality({k \in js : k <= j}) = i]

\* A consume slot reads.
Read(x) ==
  /\ x \in SlotExecs /\ stage[x] = "idle" /\ Fresh # {}
  /\ cursor' = Max(Fresh) /\ Deliver(Fresh)
  /\ Hold(x, InOrder(Fresh), FirstStage(InOrder(Fresh), {}))
  /\ UNCHANGED <<added, idle, acked, dlq, results, events, poison, history>>

\* Time passes for a pending entry, whether its consumer is alive or not.
IdlePasses(j) ==
  /\ j \in Pending \ idle
  /\ times[j] < MaxSteals \/ ~Held(j)
  /\ idle' = idle \cup {j}
  /\ UNCHANGED <<added, cursor, times, acked, dlq, results, events, stage, batch, poison,
                 history>>

\* The claimer's XAUTOCLAIM.
Claim(x) ==
  /\ x \in Claimers /\ stage[x] = "idle" /\ Claimable # {}
  /\ idle' = idle \ Claimable /\ Deliver(Claimable)
  /\ Hold(x, InOrder(Claimable), "count")
  /\ UNCHANGED <<added, cursor, acked, dlq, results, events, poison, history>>

\* The rows of _delivery_counts: the first Len(batch[x]) pending entries, whoever
\* holds them, between the claimed ids that sort first and last as strings.
Rows(x) ==
  LET claimed == ToSet(batch[x])
      start == CHOOSE i \in claimed : \A j \in claimed : LexRank[i] <= LexRank[j]
      end   == CHOOSE i \in claimed : \A j \in claimed : LexRank[i] >= LexRank[j]
      range == {j \in Pending : start <= j /\ j <= end}
  IN  {j \in range : Cardinality({i \in range : i <= j}) <= Len(batch[x])}

\* Faulty: counts a job as poisonous one delivery early.
CountOneEarly(x) ==
  LET over == {j \in ToSet(batch[x]) \cap Rows(x) : times[j] >= MaxDeliveries} IN
  /\ stage[x] = "count"
  /\ poison' = [poison EXCEPT ![x] = over]
  /\ Hold(x, batch[x], FirstStage(batch[x], over))
  /\ UNCHANGED <<stream, acked, dlq, results, events, history>>

\* The XPENDING reply; an entry without a row counts as delivered 0 times.
CountDeliveries(x) ==
  LET over == {j \in ToSet(batch[x]) \cap Rows(x) : times[j] > MaxDeliveries} IN
  /\ stage[x] = "count"
  /\ poison' = [poison EXCEPT ![x] = over]
  /\ Hold(x, batch[x], FirstStage(batch[x], over))
  /\ UNCHANGED <<stream, acked, dlq, results, events, history>>

-----------------------------------------------------------------------------
(* Handling the current entry *)

\* Faulty: emits the completion event before the result is stored.
RunJobThenEmit(x) ==
  /\ stage[x] = "run"
  /\ stage' = [stage EXCEPT ![x] = "store"]
  /\ events' = events \cup {Current(x)}
  /\ UNCHANGED <<stream, acked, dlq, results, batch, poison, history>>

\* The job's function returns or raises; either way there is a blob to store.
RunJob(x) ==
  /\ stage[x] = "run"
  /\ stage' = [stage EXCEPT ![x] = "store"]
  /\ UNCHANGED <<stream, acked, dlq, results, events, batch, poison, history>>

StoreResult(x) ==
  /\ stage[x] = "store"
  /\ results' = results \cup {Current(x)}
  /\ stage' = [stage EXCEPT ![x] = "emit"]
  /\ UNCHANGED <<stream, acked, dlq, events, batch, poison, history>>

\* Faulty: no completion event for a kind the registry does not know.
EmitKnownKinds(x) ==
  /\ stage[x] = "emit"
  /\ events' = IF Kind[Current(x)] = "unknown" THEN events ELSE events \cup {Current(x)}
  /\ stage' = [stage EXCEPT ![x] = "ack"]
  /\ UNCHANGED <<stream, acked, dlq, results, batch, poison, history>>

EmitCompleted(x) ==
  /\ stage[x] = "emit"
  /\ events' = events \cup {Current(x)}
  /\ stage' = [stage EXCEPT ![x] = "ack"]
  /\ UNCHANGED <<stream, acked, dlq, results, batch, poison, history>>

\* The dead-letter XADD; the XACK follows only if it succeeded.
DeadLetter(x) ==
  /\ stage[x] = "dead"
  /\ dlq' = dlq \cup {Current(x)}
  /\ stage' = [stage EXCEPT ![x] = "ack"]
  /\ UNCHANGED <<stream, acked, results, events, batch, poison, history>>

Ack(x) ==
  /\ stage[x] = "ack"
  /\ acked' = acked \cup {Current(x)} /\ idle' = idle \ {Current(x)}
  /\ NextEntry(x)
  /\ UNCHANGED <<added, cursor, times, dlq, results, events, poison, history>>

-----------------------------------------------------------------------------
(* Failures *)

Fault == faults < MaxFaults /\ faults' = faults + 1

\* Redis refuses a command: each is logged and the code goes on - past a blob, an
\* event, an acknowledgement, a dead letter (which leaves the entry pending) or the
\* delivery counts.
RedisError(x) ==
  /\ Fault
  /\ stage[x] \in {"store", "emit", "ack", "dead", "count"}
  /\ broken' = broken \cup {Current(x)}
  /\ \/ /\ stage[x] \in {"store", "emit"}
        /\ stage' = [stage EXCEPT ![x] = IF stage[x] = "store" THEN "emit" ELSE "ack"]
        /\ UNCHANGED <<batch, poison>>
     \/ /\ stage[x] \in {"ack", "dead"}
        /\ NextEntry(x)
        /\ UNCHANGED poison
     \/ /\ stage[x] = "count"
        /\ poison' = [poison EXCEPT ![x] = {}]
        /\ Hold(x, batch[x], FirstStage(batch[x], {}))
  /\ UNCHANGED <<stream, acked, dlq, results, events, cancelled>>

\* The connection breaks after Redis executed the read: the entries are pending for
\* a consumer that never saw them.
ReadReplyLost(x) ==
  /\ Fault
  /\ x \in SlotExecs /\ stage[x] = "idle" /\ Fresh # {}
  /\ cursor' = Max(Fresh) /\ Deliver(Fresh)
  /\ UNCHANGED <<added, idle, acked, dlq, results, events, stage, batch, poison, cancelled,
                 broken>>

\* The process dies and a new one takes its place.
Crash(w) ==
  /\ Fault
  /\ \E x \in ExecutorsOf(w) : stage[x] # "off"
  /\ stage' = [x \in Executors |-> IF x[1] = w THEN "idle" ELSE stage[x]]
  /\ batch' = [x \in Executors |-> IF x[1] = w THEN <<>> ELSE batch[x]]
  /\ UNCHANGED <<stream, acked, dlq, results, events, poison, cancelled, broken>>

\* SIGTERM: run() cancels every task. CancelledError is no Exception: it passes every
\* handler up to the finally of _consume_slot or _on_claim, which acknowledges the
\* entry at hand. An XACK on its way may have arrived.
Stop(w) ==
  LET mine == ExecutorsOf(w)
      handling == {x \in mine : stage[x] \in {"run", "store", "emit"}}
      acking == {x \in mine : stage[x] = "ack"}
  IN
  /\ Fault
  /\ \A x \in mine : stage[x] \notin {"lastack", "off"}
  /\ stage' = [x \in Executors |-> IF x \in handling THEN "lastack"
                                   ELSE IF x \in mine THEN "off" ELSE stage[x]]
  /\ batch' = [x \in Executors |-> IF x \in mine \ handling THEN <<>> ELSE batch[x]]
  /\ \E sent \in SUBSET {Current(x) : x \in acking} :
       acked' = acked \cup sent /\ idle' = idle \ sent
  /\ cancelled' = cancelled \cup {Current(x) : x \in handling}
  /\ UNCHANGED <<added, cursor, times, dlq, results, events, poison, broken>>

\* Faulty: acknowledges the whole batch of the cancelled task.
LastAckOfBatch(x) ==
  /\ stage[x] = "lastack"
  /\ acked' = acked \cup ToSet(batch[x]) /\ idle' = idle \ ToSet(batch[x])
  /\ Hold(x, <<>>, "off")
  /\ UNCHANGED <<added, cursor, times, dlq, results, events, poison, history>>

\* The XACK of the finally clause; the rest of the batch stays pending.
LastAck(x) ==
  /\ stage[x] = "lastack"
  /\ acked' = acked \cup {Current(x)} /\ idle' = idle \ {Current(x)}
  /\ Hold(x, <<>>, "off")
  /\ UNCHANGED <<added, cursor, times, dlq, results, events, poison, history>>

\* A stopped worker is started again.
Restart(w) ==
  /\ \A x \in ExecutorsOf(w) : stage[x] = "off"
  /\ stage' = [x \in Executors |-> IF x[1] = w THEN "idle" ELSE stage[x]]
  /\ UNCHANGED <<stream, acked, dlq, results, events, batch, poison, history>>

-----------------------------------------------------------------------------

Init ==
  /\ added = 0 /\ cursor = 0 /\ times = [j \in Jobs |-> 0]
  /\ idle = {} /\ acked = {} /\ dlq = {} /\ results = {} /\ events = {}
  /\ stage = [x \in Executors |-> "idle"] /\ batch = [x \in Executors |-> <<>>]
  /\ poison = [x \in Executors |-> {}]
  /\ cancelled = {} /\ broken = {} /\ faults = 0

Execute(x) ==
  \/ Read(x) \/ Claim(x) \/ CountDeliveries(x)
  \/ RunJob(x) \/ StoreResult(x) \/ EmitCompleted(x) \/ DeadLetter(x) \/ Ack(x) \/ LastAck(x)

Next ==
  \/ Submit
  \/ \E x \in Executors : Execute(x) \/ RedisError(x) \/ ReadReplyLost(x)
  \/ \E j \in Jobs : IdlePasses(j)
  \/ \E w \in Workers : Crash(w) \/ Stop(w) \/ Restart(w)

Spec == Init /\ [][Next]_vars

\* Tasks of a live loop get their turns and Redis answers, jobs end, time passes, and
\* workers that were stopped come back.
FairSpec ==
  /\ Spec
  /\ \A x \in Executors : WF_vars(Execute(x))
  /\ \A j \in Jobs : WF_vars(IdlePasses(j))
  /\ \A w \in Workers : WF_vars(Restart(w))

-----------------------------------------------------------------------------
(* Properties *)

\* An acknowledged entry was answered: it has a completion event or lies in the
\* dead-letter stream. The exceptions are the ones the code makes: an entry without a
\* kind, a job cancelled by a stop, a job for which Redis refused a command.
AckedIsAnswered ==
  \A j \in acked : j \in events \cup dlq \cup cancelled \cup broken \/ Kind[j] = "missing"

\* A completion event of a job that ran is published only once its result can be
\* fetched, through every takeover by a claimer and every restart.
AnswersAreReal ==
  \A j \in events : j \in results \cup broken \/ Kind[j] = "unknown"

\* Only entries delivered more than MaxDeliveries times are dead-lettered: a stale or
\* truncated XPENDING reply never condemns a job that still has deliveries left.
DeadLettersExceededBudget == \A j \in dlq : times[j] > MaxDeliveries

Delivery == INSTANCE JobDelivery WITH
  attempts <- times, reported <- events, buried <- dlq, settled <- acked

\* The workers keep the promise of JobDelivery: whatever is taken over, run twice or
\* cut off, an entry acknowledged is never delivered again, and every report, dead letter
\* and acknowledgement is of a delivered entry and has its reason.
DeliveryKept == Delivery!Spec

\* Every job submitted is acknowledged in the end, whichever workers crash, stop or
\* lose a reply on the way: nothing stays pending for ever.
JobsSettle == \A j \in Jobs : j <= added ~> j \in acked
=============================================================================
