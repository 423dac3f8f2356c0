----------------------------- MODULE ExecProofs -----------------------------
(***************************************************************************)
(* Proofs about ExecWorkers, for any number of jobs, workers and slots, any *)
(* batch sizes, any order of the ids and any number of faults: only entries *)
(* delivered are held or acknowledged, what is acknowledged was answered,   *)
(* what is answered has a result, and only jobs over the delivery limit are *)
(* dead-lettered.                                                           *)
(***************************************************************************)
EXTENDS ExecWorkers, FiniteSetTheorems, SequenceTheorems, TLAPS

Answered(j) == j \in events \cup dlq \cup cancelled \cup broken \/ Kind[j] = "missing"

Reportable(j) == j \in results \cup broken \/ Kind[j] = "unknown"

\* The part of the type invariant the argument needs.
Types ==
  /\ added \in 0..NJobs /\ cursor \in 0..added
  /\ times \in [Jobs -> Nat]
  /\ stage \in [Executors -> Stages]
  /\ batch = [x \in Executors |-> batch[x]]
  /\ poison \in [Executors -> SUBSET Jobs]

\* What an executor's stage says of the entry at hand: it may be acknowledged only
\* when it is answered, reported only when its result is stored, dead-lettered only
\* when it was found over the limit.
StageInv ==
  \A x \in Executors :
    /\ stage[x] = "emit" => Reportable(Current(x))
    /\ stage[x] = "ack" => Answered(Current(x))
    /\ stage[x] = "dead" => Current(x) \in poison[x]
    /\ stage[x] = "lastack" => Current(x) \in cancelled

\* A job found over the limit stays over it: delivery counts only grow.
PoisonInv == \A x \in Executors : \A j \in poison[x] : times[j] > MaxDeliveries

\* Dead letters are jobs, over the limit.
DeadInv == \A j \in dlq : j \in Jobs /\ times[j] > MaxDeliveries

EInv == Types /\ StageInv /\ PoisonInv /\ DeadInv /\ AckedIsAnswered /\ AnswersAreReal

-----------------------------------------------------------------------------

\* The stage in which an executor takes up an entry says what kind of entry it is.
LEMMA FirstStageFacts ==
  ASSUME NEW b, NEW over
  PROVE  /\ FirstStage(b, over) \in {"idle", "dead", "ack", "emit", "run"}
         /\ FirstStage(b, over) = "emit" => Kind[Head(b)] = "unknown"
         /\ FirstStage(b, over) = "ack" => Kind[Head(b)] = "missing"
         /\ FirstStage(b, over) = "dead" => Head(b) \in over
  BY DEF FirstStage

\* The fresh entries are jobs beyond the cursor, and the last of them is in the stream.
LEMMA FreshFacts ==
  ASSUME added \in 0..NJobs, cursor \in 0..added, Fresh # {}
  PROVE  /\ Max(Fresh) \in 0..added /\ cursor < Max(Fresh)
         /\ Fresh \subseteq 1..Max(Fresh) /\ Fresh \subseteq Jobs
  <1> DEFINE m == IF added <= cursor + Batch THEN added ELSE cursor + Batch
  <1>0. NJobs \in Nat /\ Batch \in Nat \ {0} /\ added \in 0..NJobs /\ cursor \in 0..added
    BY ConstantsAssumption
  <1>1. m \in Fresh
    BY <1>0 DEF Fresh, Jobs
  <1>2. \A j \in Fresh : m >= j
    BY <1>0 DEF Fresh, Jobs
  <1>3. Max(Fresh) \in Fresh /\ \A j \in Fresh : Max(Fresh) >= j
    BY <1>1, <1>2 DEF Max
  <1>4. QED
    BY <1>0, <1>3 DEF Fresh, Jobs

\* Delivering entries lowers no count.
LEMMA DeliverGrows ==
  ASSUME times \in [Jobs -> Nat], NEW js, Deliver(js)
  PROVE  times' \in [Jobs -> Nat] /\ \A j \in Jobs : times'[j] >= times[j]
  BY DEF Deliver

\* The rows of an XPENDING reply are jobs.
LEMMA RowsAreJobs ==
  ASSUME Types, NEW x
  PROVE  Rows(x) \subseteq Jobs
  BY ConstantsAssumption DEF Rows, Pending, Jobs, Types

\* Jobs over the delivery limit stay over it when counts grow.
LEMMA CountsStayOver ==
  ASSUME times \in [Jobs -> Nat], times' \in [Jobs -> Nat],
         \A j \in Jobs : times'[j] >= times[j],
         poison \in [Executors -> SUBSET Jobs], UNCHANGED <<poison, dlq>>,
         PoisonInv, DeadInv
  PROVE  PoisonInv' /\ DeadInv'
  <1>1. \A j \in Jobs : times[j] > MaxDeliveries => times'[j] > MaxDeliveries
    BY ConstantsAssumption
  <1>2. QED
    BY <1>1 DEF PoisonInv, DeadInv

\* An executor that takes up another entry is in a stage that fits the entry; nothing
\* changes for the others.
LEMMA TakeUp ==
  ASSUME Types, StageInv, NEW x \in Executors, NEW b, NEW over,
         stage' = [stage EXCEPT ![x] = FirstStage(b, over)],
         batch' = [batch EXCEPT ![x] = b],
         over \subseteq poison'[x],
         \A y \in Executors \ {x} : poison'[y] = poison[y],
         results \subseteq results', events \subseteq events', dlq \subseteq dlq',
         cancelled \subseteq cancelled', broken \subseteq broken'
  PROVE  /\ stage' \in [Executors -> Stages]
         /\ batch' = [y \in Executors |-> batch'[y]]
         /\ StageInv'
  <1>1. /\ stage'[x] \in {"idle", "dead", "ack", "emit", "run"}
        /\ stage'[x] = "emit" => Kind[Head(b)] = "unknown"
        /\ stage'[x] = "ack" => Kind[Head(b)] = "missing"
        /\ stage'[x] = "dead" => Head(b) \in over
    BY FirstStageFacts DEF Types
  <1>2. batch'[x] = b
    BY DEF Types
  <1>3. \A y \in Executors \ {x} : stage'[y] = stage[y] /\ batch'[y] = batch[y]
    BY DEF Types
  <1>4. stage' \in [Executors -> Stages] /\ batch' = [y \in Executors |-> batch'[y]]
    BY <1>1 DEF Types, Stages
  <1>5. StageInv'
    BY <1>1, <1>2, <1>3 DEF StageInv, Current, Answered, Reportable
  <1>6. QED
    BY <1>4, <1>5

-----------------------------------------------------------------------------

\* The invariant holds initially.
LEMMA InitInv == Init => EInv
  BY ConstantsAssumption DEF Init, EInv, Types, StageInv, PoisonInv, DeadInv,
     AckedIsAnswered, AnswersAreReal, Stages

\* The invariant is preserved by every step.
LEMMA StepInv == EInv /\ [Next]_vars => EInv'
  <1> SUFFICES ASSUME EInv, [Next]_vars PROVE EInv'
    OBVIOUS
  <1> USE DEF EInv, stream, history
  <1>0. /\ Types /\ StageInv /\ PoisonInv /\ DeadInv
        /\ AckedIsAnswered /\ AnswersAreReal
    OBVIOUS
  <1>1. CASE Submit
    BY <1>1, ConstantsAssumption DEF Submit, Types, StageInv, PoisonInv, DeadInv,
       AckedIsAnswered, AnswersAreReal, Answered, Reportable, Current
  <1>2. ASSUME NEW x \in Executors, Read(x) PROVE EInv'
    <2>1. Max(Fresh) \in 0..added
      BY <1>2, FreshFacts DEF Read, Types
    <2>2. times' \in [Jobs -> Nat] /\ \A j \in Jobs : times'[j] >= times[j]
      BY <1>2, DeliverGrows DEF Read, Types
    <2>3. stage' = [stage EXCEPT ![x] = FirstStage(InOrder(Fresh), {})]
          /\ batch' = [batch EXCEPT ![x] = InOrder(Fresh)]
      BY <1>2 DEF Read, Hold
    <2>4. UNCHANGED <<added, acked, dlq, results, events, poison, cancelled, broken>>
      BY <1>2 DEF Read
    <2>5. /\ stage' \in [Executors -> Stages]
          /\ batch' = [y \in Executors |-> batch'[y]]
          /\ StageInv'
      <3> DEFINE none == {}
      <3>1. stage' = [stage EXCEPT ![x] = FirstStage(InOrder(Fresh), none)]
        BY <2>3
      <3>2. none \subseteq poison'[x]
        OBVIOUS
      <3> HIDE DEF none
      <3>3. QED
        BY <2>3, <2>4, <3>1, <3>2, TakeUp
    <2>6. Types'
      BY <1>2, <2>1, <2>2, <2>4, <2>5 DEF Read, Types
    <2>7. PoisonInv' /\ DeadInv'
      BY <2>2, <2>4, CountsStayOver DEF Types
    <2>8. AckedIsAnswered' /\ AnswersAreReal'
      BY <2>4 DEF AckedIsAnswered, AnswersAreReal
    <2>9. QED
      BY <2>5, <2>6, <2>7, <2>8
  <1>3. ASSUME NEW j \in Jobs, IdlePasses(j) PROVE EInv'
    BY <1>3 DEF IdlePasses, Types, StageInv, PoisonInv, DeadInv,
       AckedIsAnswered, AnswersAreReal, Answered, Reportable, Current
  <1>4. ASSUME NEW x \in Executors, Claim(x) PROVE EInv'
    <2>1. times' \in [Jobs -> Nat] /\ \A j \in Jobs : times'[j] >= times[j]
      BY <1>4, DeliverGrows DEF Claim, Types
    <2>2. /\ UNCHANGED <<added, cursor, acked, dlq, results, events, poison, cancelled,
                          broken>>
          /\ stage' = [stage EXCEPT ![x] = "count"]
          /\ batch' = [batch EXCEPT ![x] = InOrder(Claimable)]
      BY <1>4 DEF Claim, Hold
    <2>3. Types' /\ StageInv'
      BY <2>1, <2>2 DEF Types, Stages, StageInv, Answered, Reportable, Current
    <2>4. PoisonInv' /\ DeadInv'
      BY <2>1, <2>2, CountsStayOver DEF Types
    <2>5. AckedIsAnswered' /\ AnswersAreReal'
      BY <2>2 DEF AckedIsAnswered, AnswersAreReal
    <2>6. QED
      BY <2>3, <2>4, <2>5
  <1>5. ASSUME NEW x \in Executors, CountDeliveries(x) PROVE EInv'
    <2> DEFINE over == {j \in ToSet(batch[x]) \cap Rows(x) : times[j] > MaxDeliveries}
    <2>1. over \in SUBSET Jobs
      BY RowsAreJobs
    <2>2. /\ poison' = [poison EXCEPT ![x] = over]
          /\ stage' = [stage EXCEPT ![x] = FirstStage(batch[x], over)]
          /\ batch' = [batch EXCEPT ![x] = batch[x]]
          /\ UNCHANGED <<stream, acked, dlq, results, events, history>>
      BY <1>5 DEF CountDeliveries, Hold
    <2>3. \A j \in over : times[j] > MaxDeliveries
      OBVIOUS
    <2> HIDE DEF over
    <2>4. /\ poison'[x] = over
          /\ \A y \in Executors \ {x} : poison'[y] = poison[y]
          /\ poison' \in [Executors -> SUBSET Jobs]
      BY <2>1, <2>2 DEF Types
    <2>5. /\ stage' \in [Executors -> Stages]
          /\ batch' = [y \in Executors |-> batch'[y]]
          /\ StageInv'
      BY <2>2, <2>4, TakeUp
    <2>6. Types' /\ PoisonInv' /\ DeadInv'
      BY <2>2, <2>3, <2>4, <2>5 DEF Types, PoisonInv, DeadInv
    <2>7. AckedIsAnswered' /\ AnswersAreReal'
      BY <2>2 DEF AckedIsAnswered, AnswersAreReal
    <2>8. QED
      BY <2>5, <2>6, <2>7
  <1>6. ASSUME NEW x \in Executors, RunJob(x) PROVE EInv'
    BY <1>6 DEF RunJob, Types, Stages, StageInv, PoisonInv, DeadInv,
       AckedIsAnswered, AnswersAreReal, Answered, Reportable, Current
  <1>7. ASSUME NEW x \in Executors, StoreResult(x) PROVE EInv'
    BY <1>7 DEF StoreResult, Types, Stages, StageInv, PoisonInv, DeadInv,
       AckedIsAnswered, AnswersAreReal, Answered, Reportable, Current
  <1>8. ASSUME NEW x \in Executors, EmitCompleted(x) PROVE EInv'
    BY <1>8 DEF EmitCompleted, Types, Stages, StageInv, PoisonInv, DeadInv,
       AckedIsAnswered, AnswersAreReal, Answered, Reportable, Current
  <1>9. ASSUME NEW x \in Executors, DeadLetter(x) PROVE EInv'
    BY <1>9 DEF DeadLetter, Types, Stages, StageInv, PoisonInv, DeadInv,
       AckedIsAnswered, AnswersAreReal, Answered, Reportable, Current
  <1>10. ASSUME NEW x \in Executors, Ack(x) PROVE EInv'
    <2>1. /\ stage' = [stage EXCEPT ![x] = FirstStage(Tail(batch[x]), poison[x])]
          /\ batch' = [batch EXCEPT ![x] = Tail(batch[x])]
          /\ UNCHANGED <<added, cursor, times, dlq, results, events, poison, cancelled,
                          broken>>
      BY <1>10 DEF Ack, NextEntry, Hold
    <2>2. /\ stage' \in [Executors -> Stages]
          /\ batch' = [y \in Executors |-> batch'[y]]
          /\ StageInv'
      BY <2>1, TakeUp
    <2>3. AckedIsAnswered'
      <3>1. Answered(Current(x)) /\ acked' = acked \cup {Current(x)}
        BY <1>10 DEF Ack, StageInv
      <3>2. QED
        BY <2>1, <3>1 DEF AckedIsAnswered, Answered
    <2>4. Types' /\ PoisonInv' /\ DeadInv' /\ AnswersAreReal'
      BY <2>1, <2>2 DEF Types, PoisonInv, DeadInv, AnswersAreReal
    <2>5. QED
      BY <2>2, <2>3, <2>4
  <1>11. ASSUME NEW x \in Executors, LastAck(x) PROVE EInv'
    <2>1. /\ stage' = [stage EXCEPT ![x] = "off"]
          /\ batch' = [batch EXCEPT ![x] = <<>>]
          /\ UNCHANGED <<added, cursor, times, dlq, results, events, poison, cancelled,
                          broken>>
      BY <1>11 DEF LastAck, Hold
    <2>2. Types' /\ StageInv' /\ PoisonInv' /\ DeadInv' /\ AnswersAreReal'
      BY <2>1 DEF Types, Stages, StageInv, Answered, Reportable, Current, PoisonInv,
         DeadInv, AnswersAreReal
    <2>3. AckedIsAnswered'
      <3>1. Current(x) \in cancelled /\ acked' = acked \cup {Current(x)}
        BY <1>11 DEF LastAck, StageInv
      <3>2. QED
        BY <2>1, <3>1 DEF AckedIsAnswered
    <2>4. QED
      BY <2>2, <2>3
  <1>12. ASSUME NEW x \in Executors, RedisError(x) PROVE EInv'
    <2>1. /\ UNCHANGED <<stream, acked, dlq, results, events, cancelled>>
          /\ broken' = broken \cup {Current(x)}
      BY <1>12 DEF RedisError
    <2>2. DeadInv' /\ AckedIsAnswered' /\ AnswersAreReal'
      BY <2>1 DEF DeadInv, AckedIsAnswered, AnswersAreReal
    <2>3. CASE stage[x] \in {"store", "emit"}
      BY <1>12, <2>1, <2>2, <2>3 DEF RedisError, Types, Stages, StageInv, PoisonInv,
         Answered, Reportable, Current
    <2>4. CASE stage[x] \in {"ack", "dead"}
      <3>1. /\ stage' = [stage EXCEPT ![x] = FirstStage(Tail(batch[x]), poison[x])]
            /\ batch' = [batch EXCEPT ![x] = Tail(batch[x])]
            /\ poison' = poison
        BY <1>12, <2>4 DEF RedisError, NextEntry, Hold
      <3>2. /\ stage' \in [Executors -> Stages]
            /\ batch' = [y \in Executors |-> batch'[y]]
            /\ StageInv'
        BY <2>1, <3>1, TakeUp
      <3>3. Types' /\ PoisonInv'
        BY <2>1, <3>1, <3>2 DEF Types, PoisonInv
      <3>4. QED
        BY <2>2, <3>2, <3>3
    <2>5. CASE stage[x] = "count"
      <3>1. /\ stage' = [stage EXCEPT ![x] = FirstStage(batch[x], {})]
            /\ batch' = [batch EXCEPT ![x] = batch[x]]
            /\ poison' = [poison EXCEPT ![x] = {}]
        BY <1>12, <2>5 DEF RedisError, Hold
      <3>2. \A y \in Executors \ {x} : poison'[y] = poison[y]
        BY <3>1 DEF Types
      <3>3. /\ stage' \in [Executors -> Stages]
            /\ batch' = [y \in Executors |-> batch'[y]]
            /\ StageInv'
        <4> DEFINE none == {}
        <4>1. stage' = [stage EXCEPT ![x] = FirstStage(batch[x], none)]
          BY <3>1
        <4>2. none \subseteq poison'[x]
          OBVIOUS
        <4> HIDE DEF none
        <4>3. QED
          BY <2>1, <3>1, <3>2, <4>1, <4>2, TakeUp
      <3>4. Types' /\ PoisonInv'
        BY <2>1, <3>1, <3>3 DEF Types, PoisonInv
      <3>5. QED
        BY <2>2, <3>3, <3>4
    <2>6. QED
      BY <1>12, <2>3, <2>4, <2>5 DEF RedisError
  <1>13. ASSUME NEW x \in Executors, ReadReplyLost(x) PROVE EInv'
    <2>1. Max(Fresh) \in 0..added
      BY <1>13, FreshFacts DEF ReadReplyLost, Types
    <2>2. times' \in [Jobs -> Nat] /\ \A j \in Jobs : times'[j] >= times[j]
      BY <1>13, DeliverGrows DEF ReadReplyLost, Types
    <2>3. /\ UNCHANGED <<added, acked, dlq, results, events, stage, batch, poison,
                          cancelled, broken>>
          /\ cursor' = Max(Fresh)
      BY <1>13 DEF ReadReplyLost
    <2>4. Types' /\ StageInv'
      BY <2>1, <2>2, <2>3 DEF Types, StageInv, Answered, Reportable, Current
    <2>5. PoisonInv' /\ DeadInv'
      BY <2>2, <2>3, CountsStayOver DEF Types
    <2>6. AckedIsAnswered' /\ AnswersAreReal'
      BY <2>3 DEF AckedIsAnswered, AnswersAreReal
    <2>7. QED
      BY <2>4, <2>5, <2>6
  <1>14. ASSUME NEW w \in Workers, Crash(w) PROVE EInv'
    BY <1>14 DEF Crash, Fault, Types, Stages, StageInv, PoisonInv, DeadInv,
       AckedIsAnswered, AnswersAreReal, Answered, Reportable, Current
  <1>15. ASSUME NEW w \in Workers, Stop(w) PROVE EInv'
    <2> DEFINE mine == ExecutorsOf(w)
               handling == {x \in mine : stage[x] \in {"run", "store", "emit"}}
               acking == {x \in mine : stage[x] = "ack"}
    <2>1. /\ stage' = [x \in Executors |-> IF x \in handling THEN "lastack"
                                           ELSE IF x \in mine THEN "off" ELSE stage[x]]
          /\ batch' = [x \in Executors |-> IF x \in mine \ handling THEN <<>> ELSE batch[x]]
          /\ cancelled' = cancelled \cup {Current(x) : x \in handling}
          /\ UNCHANGED <<added, cursor, times, dlq, results, events, poison, broken>>
      BY <1>15 DEF Stop
    <2>2. PICK sent \in SUBSET {Current(x) : x \in acking} : acked' = acked \cup sent
      BY <1>15 DEF Stop
    <2>3. \A x \in acking : Answered(Current(x))
      BY DEF StageInv, ExecutorsOf
    <2>4. handling \subseteq mine
      OBVIOUS
    <2> HIDE DEF mine, handling, acking
    <2>5. Types'
      BY <2>1 DEF Types, Stages
    <2>6. StageInv'
      <3> SUFFICES ASSUME NEW x \in Executors
                   PROVE  /\ stage'[x] = "emit" => Reportable(Current(x))'
                          /\ stage'[x] = "ack" => Answered(Current(x))'
                          /\ stage'[x] = "dead" => Current(x)' \in poison'[x]
                          /\ stage'[x] = "lastack" => Current(x)' \in cancelled'
        BY DEF StageInv
      <3>1. CASE x \in handling
        <4>1. stage'[x] = "lastack" /\ Current(x)' = Current(x)
          BY <2>1, <3>1 DEF Current, Types
        <4>2. QED
          BY <2>1, <3>1, <4>1
      <3>2. CASE x \in mine \ handling
        BY <2>1, <3>2
      <3>3. CASE x \notin mine
        <4>1. stage'[x] = stage[x] /\ Current(x)' = Current(x)
          BY <2>1, <2>4, <3>3 DEF Current, Types
        <4>2. QED
          BY <2>1, <4>1 DEF StageInv, Answered, Reportable
      <3>4. QED
        BY <3>1, <3>2, <3>3
    <2>7. AckedIsAnswered'
      BY <2>1, <2>2, <2>3 DEF AckedIsAnswered, Answered
    <2>8. PoisonInv' /\ DeadInv' /\ AnswersAreReal'
      BY <2>1 DEF PoisonInv, DeadInv, AnswersAreReal
    <2>9. QED
      BY <2>5, <2>6, <2>7, <2>8
  <1>16. ASSUME NEW w \in Workers, Restart(w) PROVE EInv'
    BY <1>16 DEF Restart, Types, Stages, StageInv, PoisonInv, DeadInv,
       AckedIsAnswered, AnswersAreReal, Answered, Reportable, Current
  <1>17. CASE UNCHANGED vars
    BY <1>17 DEF vars, Types, StageInv, PoisonInv, DeadInv,
       AckedIsAnswered, AnswersAreReal, Answered, Reportable, Current
  <1>18. QED
    BY <1>1, <1>2, <1>3, <1>4, <1>5, <1>6, <1>7, <1>8, <1>9, <1>10, <1>11, <1>12, <1>13,
       <1>14, <1>15, <1>16, <1>17 DEF Next, Execute

\* The invariant holds throughout every behaviour.
THEOREM Invariance == Spec => []EInv
  BY InitInv, StepInv, PTL DEF Spec

\* Whatever is acknowledged was answered, with the exceptions the code makes: the
\* acknowledgement of _consume_slot, of _on_claim and of the claimer.
THEOREM AckedTheorem == Spec => []AckedIsAnswered
  <1>1. EInv => AckedIsAnswered
    BY DEF EInv
  <1>2. QED
    BY Invariance, <1>1, PTL

\* A completion event is published only when the result can be fetched, however many
\* workers handle the job at a time (_handle_one).
THEOREM AnswersTheorem == Spec => []AnswersAreReal
  <1>1. EInv => AnswersAreReal
    BY DEF EInv
  <1>2. QED
    BY Invariance, <1>1, PTL

\* Only jobs delivered more than MaxDeliveries times are dead-lettered, whatever the
\* XPENDING reply left out and however stale it is (run_claimer).
THEOREM DeadLettersTheorem == Spec => []DeadLettersExceededBudget
  <1>1. EInv => DeadLettersExceededBudget
    BY DEF EInv, DeadInv, DeadLettersExceededBudget
  <1>2. QED
    BY Invariance, <1>1, PTL

-----------------------------------------------------------------------------
(* The type invariant *)

\* An entry held was delivered: the claimer and the slots get no other.
BatchInv == \A x \in Executors : batch[x] \in Seq(1..cursor)

TInv == TypeOK /\ BatchInv

\* A set of jobs is finite.
LEMMA JobsFinite ==
  ASSUME NEW js \in SUBSET Jobs
  PROVE  IsFiniteSet(js) /\ Cardinality(js) \in Nat
  <1>1. IsFiniteSet(Jobs)
    BY ConstantsAssumption, FS_Interval DEF Jobs
  <1>2. QED
    BY <1>1, FS_Subset, FS_CardinalityType

\* Of two jobs of a set the later one has more jobs of the set up to it.
LEMMA RankGrows ==
  ASSUME NEW js \in SUBSET Jobs, NEW i \in js, NEW j \in js, i < j
  PROVE  Cardinality({k \in js : k <= i}) < Cardinality({k \in js : k <= j})
  <1> DEFINE lo == {k \in js : k <= i}
             hi == {k \in js : k <= j}
  <1>1. lo \in SUBSET hi /\ lo # hi
    <2>1. \A k \in js : k \in Int
      BY ConstantsAssumption DEF Jobs
    <2>2. j \in hi /\ j \notin lo
      BY <2>1
    <2>3. lo \in SUBSET hi
      BY <2>1
    <2>4. QED
      BY <2>2, <2>3
  <1>2. /\ IsFiniteSet(hi) /\ Cardinality(hi) \in Nat
        /\ IsFiniteSet(lo) /\ Cardinality(lo) \in Nat
    <2>1. lo \in SUBSET Jobs /\ hi \in SUBSET Jobs
      OBVIOUS
    <2> HIDE DEF lo, hi
    <2>2. QED
      BY <2>1, JobsFinite
  <1> HIDE DEF lo, hi
  <1>3. Cardinality(lo) <= Cardinality(hi) /\ Cardinality(lo) # Cardinality(hi)
    BY <1>1, <1>2, FS_Subset
  <1>4. Cardinality(lo) < Cardinality(hi)
    BY <1>2, <1>3
  <1>5. QED
    BY <1>4 DEF lo, hi

\* A reply lists exactly the entries handed out: every place of the list has its entry.
LEMMA InOrderType ==
  ASSUME NEW js \in SUBSET Jobs
  PROVE  InOrder(js) \in Seq(js) /\ (js # {} => InOrder(js) # <<>>)
  <1> DEFINE rank == [j \in js |-> Cardinality({k \in js : k <= j})]
             n == Cardinality(js)
  <1>1. IsFiniteSet(js) /\ n \in Nat
    BY JobsFinite
  <1>2. \A j \in js : rank[j] \in 1..n
    <2> SUFFICES ASSUME NEW j \in js PROVE rank[j] \in 1..n
      OBVIOUS
    <2> DEFINE upto == {k \in js : k <= j}
    <2>1. upto \in SUBSET js /\ j \in upto
      <3>1. j <= j
        BY ConstantsAssumption DEF Jobs
      <3>2. QED
        BY <3>1
    <2>2. upto \in SUBSET Jobs
      BY <2>1
    <2>3. rank[j] = Cardinality(upto)
      OBVIOUS
    <2> HIDE DEF upto, rank
    <2>4. IsFiniteSet(upto) /\ Cardinality(upto) \in Nat
      BY <2>2, JobsFinite
    <2>5. Cardinality(upto) # 0
      BY <2>1, <2>4, FS_EmptySet
    <2>6. Cardinality(upto) <= n
      BY <1>1, <2>1, FS_Subset
    <2>7. QED
      BY <1>1, <2>3, <2>4, <2>5, <2>6
  <1>3. \A i, j \in js : rank[i] = rank[j] => i = j
    <2> SUFFICES ASSUME NEW i \in js, NEW j \in js, i # j PROVE rank[i] # rank[j]
      OBVIOUS
    <2>1. i < j \/ j < i
      BY ConstantsAssumption DEF Jobs
    <2>2. rank[i] \in Nat /\ rank[j] \in Nat
      BY <1>1, <1>2
    <2>3. rank[i] < rank[j] \/ rank[j] < rank[i]
      BY <2>1, RankGrows
    <2> HIDE DEF rank
    <2>4. QED
      BY <2>2, <2>3
  <1>4. rank \in Injection(js, 1..n)
    <2>1. rank \in [js -> 1..n]
      BY <1>2
    <2> HIDE DEF rank, n
    <2>2. QED
      BY <1>3, <2>1 DEF Injection, IsInjective
  <1>5. IsFiniteSet(1..n) /\ Cardinality(1..n) = n
    <2> HIDE DEF n
    <2>1. QED
      BY <1>1, FS_Interval
  <1>6. rank \in Surjection(js, 1..n)
    <2> HIDE DEF rank
    <2>1. QED
      BY <1>4, <1>5, FS_Injection
  <1>7. \A i \in 1..n : \E j \in js : rank[j] = i
    <2> HIDE DEF rank, n
    <2>1. QED
      BY <1>6 DEF Surjection
  <1>8. \A i \in 1..n : (CHOOSE j \in js : Cardinality({k \in js : k <= j}) = i) \in js
    BY <1>7
  <1>9. InOrder(js) \in [1..n -> js]
    BY <1>8 DEF InOrder
  <1>10. InOrder(js) \in Seq(js) /\ Len(InOrder(js)) = n
    <2> HIDE DEF n
    <2>1. QED
      BY <1>1, <1>9
  <1>11. js # {} => n # 0
    BY <1>1, FS_EmptySet
  <1> HIDE DEF n
  <1>12. QED
    BY <1>10, <1>11

\* An executor waits for nothing exactly when it holds no entry.
LEMMA FirstStageIdle ==
  ASSUME NEW b, NEW over
  PROVE  /\ FirstStage(b, over) \in Stages \ {"off"}
         /\ FirstStage(b, over) = "idle" <=> b = <<>>
  BY DEF FirstStage, Stages

\* The type invariant in three parts: the stream, the executors, what is recorded.
StreamOK ==
  /\ added \in 0..NJobs /\ cursor \in 0..added
  /\ times \in [Jobs -> Nat]
  /\ acked \subseteq 1..cursor /\ idle \subseteq Pending

ExecutorsOK ==
  /\ stage \in [Executors -> Stages] /\ batch \in [Executors -> Seq(Jobs)]
  /\ \A x \in Executors : batch[x] = <<>> <=> stage[x] \in {"idle", "off"}
  /\ BatchInv

RecordsOK ==
  /\ dlq \subseteq Jobs /\ results \subseteq Jobs /\ events \subseteq Jobs
  /\ poison \in [Executors -> SUBSET Jobs]
  /\ cancelled \subseteq Jobs /\ broken \subseteq Jobs /\ faults \in 0..MaxFaults

LEMMA PartsOfTInv == TInv <=> StreamOK /\ ExecutorsOK /\ RecordsOK
  BY DEF TInv, TypeOK, StreamOK, ExecutorsOK, RecordsOK

\* Entries delivered are jobs.
LEMMA DeliveredAreJobs ==
  ASSUME StreamOK
  PROVE  1..cursor \subseteq Jobs /\ cursor \in Nat /\ added \in Nat
  BY ConstantsAssumption DEF StreamOK, Jobs

\* The entry at hand was delivered, and so was the rest of the batch.
LEMMA CurrentDelivered ==
  ASSUME StreamOK, ExecutorsOK, NEW x \in Executors, stage[x] \notin {"idle", "off"}
  PROVE  /\ Current(x) \in 1..cursor /\ Current(x) \in Jobs
         /\ batch[x] \in Seq(1..cursor) /\ batch[x] # <<>>
         /\ Tail(batch[x]) \in Seq(1..cursor)
  <1>1. batch[x] \in Seq(1..cursor) /\ batch[x] # <<>>
    BY DEF ExecutorsOK, BatchInv
  <1>2. Head(batch[x]) \in 1..cursor /\ Tail(batch[x]) \in Seq(1..cursor)
    <2> DEFINE b == batch[x]
               S == 1..cursor
    <2>1. b \in Seq(S) /\ b # <<>>
      BY <1>1
    <2> HIDE DEF b, S
    <2>2. Head(b) \in S /\ Tail(b) \in Seq(S)
      BY <2>1, HeadTailProperties
    <2>3. QED
      BY <2>2 DEF b, S
  <1>3. QED
    BY <1>1, <1>2, DeliveredAreJobs DEF Current

\* An executor that takes up entries already delivered is in a stage that fits.
LEMMA HoldKeepsExecutors ==
  ASSUME StreamOK, StreamOK', ExecutorsOK, cursor <= cursor',
         NEW x \in Executors, NEW b \in Seq(1..cursor'), NEW st \in Stages,
         b = <<>> <=> st \in {"idle", "off"}, Hold(x, b, st)
  PROVE  ExecutorsOK'
  <1>1. cursor \in Nat /\ cursor' \in Nat /\ 1..cursor' \subseteq Jobs
    BY ConstantsAssumption DEF StreamOK, Jobs
  <1>2. 1..cursor \subseteq 1..cursor'
    BY <1>1
  <1>3. b \in Seq(Jobs)
    BY <1>1, SeqMonotonic
  <1>4. stage' \in [Executors -> Stages] /\ batch' \in [Executors -> Seq(Jobs)]
    BY <1>3 DEF Hold, ExecutorsOK
  <1>5. \A y \in Executors : batch'[y] = <<>> <=> stage'[y] \in {"idle", "off"}
    BY DEF Hold, ExecutorsOK
  <1>6. ASSUME NEW y \in Executors PROVE batch'[y] \in Seq(1..cursor')
    <2>1. batch[y] \in Seq(1..cursor')
      BY <1>2, SeqMonotonic DEF ExecutorsOK, BatchInv
    <2>2. batch'[y] = IF y = x THEN b ELSE batch[y]
      BY DEF Hold, ExecutorsOK
    <2>3. QED
      BY <2>1, <2>2
  <1>7. QED
    BY <1>4, <1>5, <1>6 DEF ExecutorsOK, BatchInv

\* Executors are undisturbed by what happens to the stream and the records.
LEMMA ExecutorsKept ==
  ASSUME StreamOK, StreamOK', ExecutorsOK, cursor <= cursor', UNCHANGED <<stage, batch>>
  PROVE  ExecutorsOK'
  <1>1. 1..cursor \subseteq 1..cursor'
    BY ConstantsAssumption DEF StreamOK
  <1>2. ASSUME NEW y \in Executors PROVE batch'[y] \in Seq(1..cursor')
    BY <1>1, SeqMonotonic DEF ExecutorsOK, BatchInv
  <1>3. QED
    BY <1>2 DEF ExecutorsOK, BatchInv

\* An executor that goes on to another stage with the entry at hand.
LEMMA StageMoves ==
  ASSUME StreamOK, StreamOK', ExecutorsOK, cursor' = cursor, NEW x \in Executors,
         stage[x] \notin {"idle", "off"}, NEW st \in Stages \ {"idle", "off"},
         stage' = [stage EXCEPT ![x] = st], batch' = batch
  PROVE  ExecutorsOK'
  <1>1. Hold(x, batch[x], st)
    BY DEF Hold, ExecutorsOK
  <1>2. batch[x] \in Seq(1..cursor') /\ batch[x] # <<>>
    BY CurrentDelivered
  <1>3. st \in Stages /\ st \notin {"idle", "off"}
    OBVIOUS
  <1>4. cursor <= cursor'
    BY ConstantsAssumption DEF StreamOK
  <1>5. batch[x] = <<>> <=> st \in {"idle", "off"}
    BY <1>2, <1>3
  <1>6. QED
    BY <1>1, <1>2, <1>3, <1>4, <1>5, HoldKeepsExecutors

\* An acknowledgement is of an entry delivered, and takes it from the idle ones.
LEMMA AckKeepsStream ==
  ASSUME StreamOK, NEW js \in SUBSET (1..cursor),
         acked' = acked \cup js, idle' = idle \ js, UNCHANGED <<added, cursor, times>>
  PROVE  StreamOK'
  BY DEF StreamOK, Pending

LEMMA TInit == Init => TInv
  <1> SUFFICES ASSUME Init PROVE TInv
    OBVIOUS
  <1>1. StreamOK /\ RecordsOK
    BY ConstantsAssumption DEF Init, StreamOK, RecordsOK, Pending
  <1>2. ExecutorsOK
    BY DEF Init, ExecutorsOK, BatchInv, Stages
  <1>3. QED
    BY <1>1, <1>2, PartsOfTInv

\* The step of an executor preserves the type invariant.
LEMMA TExecute ==
  ASSUME StreamOK, ExecutorsOK, RecordsOK, NEW x \in Executors, Execute(x)
  PROVE  StreamOK' /\ ExecutorsOK' /\ RecordsOK'
  <1> USE DEF stream, history
  <1>1. CASE Read(x)
    <2> DEFINE b == InOrder(Fresh)
               st == FirstStage(b, {})
    <2>1. /\ Fresh # {} /\ cursor' = Max(Fresh) /\ Deliver(Fresh) /\ Hold(x, b, st)
          /\ UNCHANGED <<added, idle, acked, dlq, results, events, poison, cancelled, broken,
                          faults>>
      BY <1>1 DEF Read
    <2>2. /\ cursor' \in 0..added /\ cursor < cursor'
          /\ Fresh \subseteq 1..cursor' /\ Fresh \subseteq Jobs
      BY <2>1, FreshFacts DEF StreamOK
    <2>3. StreamOK'
      BY <2>1, <2>2 DEF StreamOK, Deliver, Pending
    <2>4. b \in Seq(1..cursor') /\ b # <<>>
      BY <2>1, <2>2, InOrderType, SeqMonotonic
    <2>5. st \in Stages \ {"off"} /\ (st = "idle" <=> b = <<>>)
      BY FirstStageIdle
    <2> HIDE DEF b, st
    <2>6. ExecutorsOK'
      <3>1. b = <<>> <=> st \in {"idle", "off"}
        BY <2>5
      <3>2. cursor <= cursor' /\ st \in Stages
        BY <2>2, <2>5 DEF StreamOK
      <3>3. QED
        BY <2>1, <2>3, <2>4, <3>1, <3>2, HoldKeepsExecutors
    <2>7. RecordsOK'
      BY <2>1 DEF RecordsOK
    <2>8. QED
      BY <2>3, <2>6, <2>7
  <1>2. CASE Claim(x)
    <2> DEFINE b == InOrder(Claimable)
    <2>1. /\ Claimable # {} /\ Deliver(Claimable) /\ Hold(x, b, "count")
          /\ idle' = idle \ Claimable
          /\ UNCHANGED <<added, cursor, acked, dlq, results, events, poison, cancelled, broken,
                          faults>>
      BY <1>2 DEF Claim
    <2>2. Claimable \subseteq 1..cursor /\ Claimable \subseteq Jobs
      BY DeliveredAreJobs DEF Claimable, StreamOK, Pending
    <2>3. StreamOK'
      <3>1. times' \in [Jobs -> Nat]
        BY <2>1 DEF StreamOK, Deliver
      <3>2. Pending' = Pending /\ idle' \subseteq idle
        BY <2>1 DEF Pending
      <3>3. QED
        BY <2>1, <3>1, <3>2 DEF StreamOK
    <2>4. b \in Seq(1..cursor') /\ b # <<>>
      BY <2>1, <2>2, InOrderType, SeqMonotonic
    <2> HIDE DEF b
    <2>5. ExecutorsOK'
      <3> DEFINE st == "count"
      <3>1. st \in Stages /\ Hold(x, b, st) /\ (b = <<>> <=> st \in {"idle", "off"})
        BY <2>1, <2>4 DEF Stages
      <3>2. cursor <= cursor'
        BY <2>1 DEF StreamOK
      <3> HIDE DEF st
      <3>3. QED
        BY <2>3, <2>4, <3>1, <3>2, HoldKeepsExecutors
    <2>6. RecordsOK'
      BY <2>1 DEF RecordsOK
    <2>7. QED
      BY <2>3, <2>5, <2>6
  <1>3. CASE CountDeliveries(x)
    <2> DEFINE over == {j \in ToSet(batch[x]) \cap Rows(x) : times[j] > MaxDeliveries}
               st == FirstStage(batch[x], over)
    <2>1. /\ stage[x] = "count" /\ Hold(x, batch[x], st)
          /\ poison' = [poison EXCEPT ![x] = over]
          /\ UNCHANGED <<stream, acked, dlq, results, events, history>>
      BY <1>3 DEF CountDeliveries
    <2>2. over \subseteq Jobs
      BY DeliveredAreJobs DEF Rows, Pending
    <2>3. StreamOK'
      BY <2>1 DEF StreamOK, Pending
    <2>4. batch[x] \in Seq(1..cursor') /\ batch[x] # <<>>
      BY <2>1, CurrentDelivered
    <2>5. st \in Stages \ {"off"} /\ (st = "idle" <=> batch[x] = <<>>)
      BY FirstStageIdle
    <2> HIDE DEF over, st
    <2>6. ExecutorsOK'
      <3>1. batch[x] = <<>> <=> st \in {"idle", "off"}
        BY <2>5
      <3>2. cursor <= cursor' /\ st \in Stages
        BY <2>1, <2>5 DEF StreamOK
      <3>3. QED
        BY <2>1, <2>3, <2>4, <3>1, <3>2, HoldKeepsExecutors
    <2>7. RecordsOK'
      BY <2>1, <2>2 DEF RecordsOK
    <2>8. QED
      BY <2>3, <2>6, <2>7
  <1>4. ASSUME NEW st \in {"store", "emit", "ack"},
               stage[x] \notin {"idle", "off"}, stage' = [stage EXCEPT ![x] = st],
               UNCHANGED <<added, cursor, times, idle, acked, batch>>
        PROVE  StreamOK' /\ ExecutorsOK'
    <2>1. StreamOK'
      BY <1>4 DEF StreamOK, Pending
    <2>2. st \in Stages \ {"idle", "off"}
      BY DEF Stages
    <2>3. QED
      BY <1>4, <2>1, <2>2, StageMoves
  <1>5. CASE RunJob(x)
    <2>1. /\ stage[x] = "run" /\ stage' = [stage EXCEPT ![x] = "store"]
          /\ UNCHANGED <<stream, acked, dlq, results, events, batch, poison, history>>
      BY <1>5 DEF RunJob
    <2>2. RecordsOK'
      BY <2>1 DEF RecordsOK
    <2>3. QED
      BY <1>4, <2>1, <2>2
  <1>6. CASE StoreResult(x)
    <2>1. /\ stage[x] = "store" /\ stage' = [stage EXCEPT ![x] = "emit"]
          /\ results' = results \cup {Current(x)}
          /\ UNCHANGED <<stream, acked, dlq, events, batch, poison, history>>
      BY <1>6 DEF StoreResult
    <2>2. RecordsOK'
      BY <2>1, CurrentDelivered DEF RecordsOK
    <2>3. QED
      BY <1>4, <2>1, <2>2
  <1>7. CASE EmitCompleted(x)
    <2>1. /\ stage[x] = "emit" /\ stage' = [stage EXCEPT ![x] = "ack"]
          /\ events' = events \cup {Current(x)}
          /\ UNCHANGED <<stream, acked, dlq, results, batch, poison, history>>
      BY <1>7 DEF EmitCompleted
    <2>2. RecordsOK'
      BY <2>1, CurrentDelivered DEF RecordsOK
    <2>3. QED
      BY <1>4, <2>1, <2>2
  <1>8. CASE DeadLetter(x)
    <2>1. /\ stage[x] = "dead" /\ stage' = [stage EXCEPT ![x] = "ack"]
          /\ dlq' = dlq \cup {Current(x)}
          /\ UNCHANGED <<stream, acked, results, events, batch, poison, history>>
      BY <1>8 DEF DeadLetter
    <2>2. RecordsOK'
      BY <2>1, CurrentDelivered DEF RecordsOK
    <2>3. QED
      BY <1>4, <2>1, <2>2
  <1>9. CASE Ack(x)
    <2> DEFINE b == Tail(batch[x])
               st == FirstStage(b, poison[x])
    <2>1. /\ stage[x] = "ack" /\ Hold(x, b, st)
          /\ acked' = acked \cup {Current(x)} /\ idle' = idle \ {Current(x)}
          /\ UNCHANGED <<added, cursor, times, dlq, results, events, poison, history>>
      BY <1>9 DEF Ack, NextEntry
    <2>2. Current(x) \in 1..cursor /\ b \in Seq(1..cursor)
      BY <2>1, CurrentDelivered
    <2>3. StreamOK'
      BY <2>1, <2>2, AckKeepsStream
    <2>4. st \in Stages \ {"off"} /\ (st = "idle" <=> b = <<>>)
      BY FirstStageIdle
    <2> HIDE DEF b, st
    <2>5. ExecutorsOK'
      <3>1. b = <<>> <=> st \in {"idle", "off"}
        BY <2>4
      <3>2. cursor <= cursor' /\ st \in Stages /\ b \in Seq(1..cursor')
        BY <2>1, <2>2, <2>4 DEF StreamOK
      <3>3. QED
        BY <2>1, <2>3, <3>1, <3>2, HoldKeepsExecutors
    <2>6. RecordsOK'
      BY <2>1 DEF RecordsOK
    <2>7. QED
      BY <2>3, <2>5, <2>6
  <1>10. CASE LastAck(x)
    <2>1. /\ stage[x] = "lastack" /\ Hold(x, <<>>, "off")
          /\ acked' = acked \cup {Current(x)} /\ idle' = idle \ {Current(x)}
          /\ UNCHANGED <<added, cursor, times, dlq, results, events, poison, history>>
      BY <1>10 DEF LastAck
    <2>2. Current(x) \in 1..cursor
      BY <2>1, CurrentDelivered
    <2>3. StreamOK'
      BY <2>1, <2>2, AckKeepsStream
    <2>4. ExecutorsOK'
      <3> DEFINE b == <<>>
                 st == "off"
      <3>1. Hold(x, b, st) /\ (b = <<>> <=> st \in {"idle", "off"})
        BY <2>1
      <3>2. cursor <= cursor' /\ st \in Stages /\ b \in Seq(1..cursor')
        BY <2>1 DEF StreamOK, Stages
      <3> HIDE DEF b, st
      <3>3. QED
        BY <2>3, <3>1, <3>2, HoldKeepsExecutors
    <2>5. RecordsOK'
      BY <2>1 DEF RecordsOK
    <2>6. QED
      BY <2>3, <2>4, <2>5
  <1>11. QED
    BY <1>1, <1>2, <1>3, <1>5, <1>6, <1>7, <1>8, <1>9, <1>10 DEF Execute

\* A failing command, a crash, a stop and a restart preserve the type invariant.
LEMMA TRedisError ==
  ASSUME StreamOK, ExecutorsOK, RecordsOK, NEW x \in Executors, RedisError(x)
  PROVE  StreamOK' /\ ExecutorsOK' /\ RecordsOK'
  <1> USE DEF stream
  <1>1. /\ stage[x] \in {"store", "emit", "ack", "dead", "count"}
        /\ faults < MaxFaults /\ faults' = faults + 1
        /\ broken' = broken \cup {Current(x)}
        /\ UNCHANGED <<stream, acked, dlq, results, events, cancelled>>
    BY DEF RedisError, Fault
  <1>2. StreamOK' /\ cursor <= cursor'
    BY <1>1 DEF StreamOK, Pending
  <1>3. /\ Current(x) \in Jobs /\ batch[x] \in Seq(1..cursor') /\ batch[x] # <<>>
        /\ Tail(batch[x]) \in Seq(1..cursor')
    BY <1>1, CurrentDelivered
  <1>4. broken' \subseteq Jobs /\ faults' \in 0..MaxFaults
    BY <1>1, <1>3, ConstantsAssumption DEF RecordsOK
  <1>5. CASE stage[x] \in {"store", "emit"}
    <2> DEFINE st == IF stage[x] = "store" THEN "emit" ELSE "ack"
    <2>1. stage' = [stage EXCEPT ![x] = st] /\ UNCHANGED <<batch, poison>>
      BY <1>5 DEF RedisError
    <2>2. st \in Stages \ {"idle", "off"} /\ stage[x] \notin {"idle", "off"}
      BY <1>5 DEF Stages
    <2> HIDE DEF st
    <2>3. ExecutorsOK'
      BY <1>1, <1>2, <2>1, <2>2, StageMoves
    <2>4. RecordsOK'
      BY <1>1, <1>4, <2>1 DEF RecordsOK
    <2>5. QED
      BY <1>2, <2>3, <2>4
  <1>6. ASSUME NEW b \in Seq(1..cursor'), NEW over, Hold(x, b, FirstStage(b, over))
        PROVE  ExecutorsOK'
    <2> DEFINE st == FirstStage(b, over)
    <2>1. st \in Stages \ {"off"} /\ (st = "idle" <=> b = <<>>) /\ Hold(x, b, st)
      BY <1>6, FirstStageIdle
    <2> HIDE DEF st
    <2>2. st \in Stages /\ (b = <<>> <=> st \in {"idle", "off"})
      BY <2>1
    <2>3. QED
      BY <1>2, <2>1, <2>2, HoldKeepsExecutors
  <1>7. CASE stage[x] \in {"ack", "dead"}
    <2>1. NextEntry(x) /\ UNCHANGED poison
      BY <1>7 DEF RedisError
    <2>2. ExecutorsOK'
      BY <1>3, <1>6, <2>1 DEF NextEntry
    <2>3. RecordsOK'
      BY <1>1, <1>4, <2>1 DEF RecordsOK
    <2>4. QED
      BY <1>2, <2>2, <2>3
  <1>8. CASE stage[x] = "count"
    <2>1. /\ poison' = [poison EXCEPT ![x] = {}]
          /\ Hold(x, batch[x], FirstStage(batch[x], {}))
      BY <1>8 DEF RedisError
    <2>2. ExecutorsOK'
      <3> DEFINE none == {}
      <3>1. Hold(x, batch[x], FirstStage(batch[x], none))
        BY <2>1
      <3> HIDE DEF none
      <3>2. QED
        BY <1>3, <1>6, <3>1
    <2>3. RecordsOK'
      BY <1>1, <1>4, <2>1 DEF RecordsOK
    <2>4. QED
      BY <1>2, <2>2, <2>3
  <1>9. QED
    BY <1>1, <1>5, <1>7, <1>8

LEMMA TProcess ==
  ASSUME StreamOK, ExecutorsOK, RecordsOK, NEW w \in Workers, Crash(w) \/ Stop(w) \/ Restart(w)
  PROVE  StreamOK' /\ ExecutorsOK' /\ RecordsOK'
  <1> USE DEF stream, history
  <1>1. CASE Crash(w)
    <2>1. /\ faults' \in 0..MaxFaults
          /\ stage' = [x \in Executors |-> IF x[1] = w THEN "idle" ELSE stage[x]]
          /\ batch' = [x \in Executors |-> IF x[1] = w THEN <<>> ELSE batch[x]]
          /\ UNCHANGED <<stream, acked, dlq, results, events, poison, cancelled, broken>>
      BY <1>1, ConstantsAssumption DEF Crash, Fault, RecordsOK
    <2>2. StreamOK' /\ RecordsOK'
      BY <2>1 DEF StreamOK, Pending, RecordsOK
    <2>3. ExecutorsOK'
      <3>1. stage' \in [Executors -> Stages] /\ batch' \in [Executors -> Seq(Jobs)]
        BY <2>1 DEF ExecutorsOK, Stages
      <3>2. \A x \in Executors : batch'[x] = <<>> <=> stage'[x] \in {"idle", "off"}
        BY <2>1 DEF ExecutorsOK
      <3>3. BatchInv'
        <4>1. ASSUME NEW x \in Executors PROVE batch'[x] \in Seq(1..cursor')
          <5>1. batch[x] \in Seq(1..cursor') /\ <<>> \in Seq(1..cursor')
            BY <2>1 DEF ExecutorsOK, BatchInv
          <5>2. QED
            BY <2>1, <5>1
        <4>2. QED
          BY <4>1 DEF BatchInv
      <3>4. QED
        BY <3>1, <3>2, <3>3 DEF ExecutorsOK
    <2>4. QED
      BY <2>2, <2>3
  <1>2. CASE Restart(w)
    <2>1. /\ \A x \in ExecutorsOf(w) : stage[x] = "off"
          /\ stage' = [x \in Executors |-> IF x[1] = w THEN "idle" ELSE stage[x]]
          /\ UNCHANGED <<stream, acked, dlq, results, events, batch, poison, history>>
      BY <1>2 DEF Restart
    <2>2. StreamOK' /\ RecordsOK'
      BY <2>1 DEF StreamOK, Pending, RecordsOK
    <2>3. ExecutorsOK'
      <3>1. stage' \in [Executors -> Stages] /\ batch' \in [Executors -> Seq(Jobs)]
        BY <2>1 DEF ExecutorsOK, Stages
      <3>2. \A x \in Executors : batch'[x] = <<>> <=> stage'[x] \in {"idle", "off"}
        BY <2>1 DEF ExecutorsOK, ExecutorsOf
      <3>3. BatchInv'
        BY <2>1 DEF ExecutorsOK, BatchInv
      <3>4. QED
        BY <3>1, <3>2, <3>3 DEF ExecutorsOK
    <2>4. QED
      BY <2>2, <2>3
  <1>3. CASE Stop(w)
    <2> DEFINE mine == ExecutorsOf(w)
               handling == {x \in mine : stage[x] \in {"run", "store", "emit"}}
               acking == {x \in mine : stage[x] = "ack"}
    <2>1. /\ faults' \in 0..MaxFaults
          /\ stage' = [x \in Executors |-> IF x \in handling THEN "lastack"
                                           ELSE IF x \in mine THEN "off" ELSE stage[x]]
          /\ batch' = [x \in Executors |-> IF x \in mine \ handling THEN <<>> ELSE batch[x]]
          /\ cancelled' = cancelled \cup {Current(x) : x \in handling}
          /\ UNCHANGED <<added, cursor, times, dlq, results, events, poison, broken>>
      BY <1>3, ConstantsAssumption DEF Stop, Fault, RecordsOK
    <2>2. PICK sent \in SUBSET {Current(x) : x \in acking} :
            acked' = acked \cup sent /\ idle' = idle \ sent
      BY <1>3 DEF Stop
    <2>3. \A x \in handling \cup acking : Current(x) \in 1..cursor /\ Current(x) \in Jobs
      BY CurrentDelivered DEF ExecutorsOf
    <2>4. /\ handling \subseteq mine /\ mine \subseteq Executors
          /\ \A x \in handling : stage[x] \notin {"idle", "off"}
      BY DEF ExecutorsOf
    <2> HIDE DEF mine, handling, acking
    <2>5. StreamOK'
      <3>1. sent \in SUBSET (1..cursor)
        BY <2>3
      <3>2. QED
        BY <2>1, <2>2, <3>1, AckKeepsStream
    <2>6. RecordsOK'
      BY <2>1, <2>3 DEF RecordsOK
    <2>7. ExecutorsOK'
      <3>1. stage' \in [Executors -> Stages] /\ batch' \in [Executors -> Seq(Jobs)]
        BY <2>1 DEF ExecutorsOK, Stages
      <3>2. ASSUME NEW x \in Executors
            PROVE  /\ batch'[x] = <<>> <=> stage'[x] \in {"idle", "off"}
                   /\ batch'[x] \in Seq(1..cursor')
        <4>1. batch[x] \in Seq(1..cursor') /\ <<>> \in Seq(1..cursor')
          BY <2>1 DEF ExecutorsOK, BatchInv
        <4>2. batch[x] = <<>> <=> stage[x] \in {"idle", "off"}
          BY DEF ExecutorsOK
        <4>3. CASE x \in handling
          BY <2>1, <2>4, <4>1, <4>2, <4>3
        <4>4. CASE x \in mine \ handling
          BY <2>1, <4>1, <4>4
        <4>5. CASE x \notin mine
          BY <2>1, <2>4, <4>1, <4>2, <4>5
        <4>6. QED
          BY <4>3, <4>4, <4>5
      <3>3. QED
        BY <3>1, <3>2 DEF ExecutorsOK, BatchInv
    <2>8. QED
      BY <2>5, <2>6, <2>7
  <1>4. QED
    BY <1>1, <1>2, <1>3

\* The type invariant is preserved by every step.
LEMMA TStep == TInv /\ [Next]_vars => TInv'
  <1> SUFFICES ASSUME StreamOK, ExecutorsOK, RecordsOK, [Next]_vars
               PROVE  StreamOK' /\ ExecutorsOK' /\ RecordsOK'
    BY PartsOfTInv DEF TInv, TypeOK, StreamOK, ExecutorsOK, RecordsOK, BatchInv, Pending
  <1> USE DEF stream, history
  <1>1. CASE Submit
    <2>1. /\ added < NJobs /\ added' = added + 1
          /\ UNCHANGED <<cursor, times, idle, acked, dlq, results, events, stage, batch, poison,
                          history>>
      BY <1>1 DEF Submit
    <2>2. StreamOK' /\ cursor <= cursor'
      BY <2>1, ConstantsAssumption DEF StreamOK, Pending
    <2>3. RecordsOK'
      BY <2>1 DEF RecordsOK
    <2>4. QED
      BY <2>1, <2>2, <2>3, ExecutorsKept
  <1>2. ASSUME NEW j \in Jobs, IdlePasses(j) PROVE StreamOK' /\ ExecutorsOK' /\ RecordsOK'
    <2>1. /\ j \in Pending /\ idle' = idle \cup {j}
          /\ UNCHANGED <<added, cursor, times, acked, dlq, results, events, stage, batch, poison,
                          history>>
      BY <1>2 DEF IdlePasses
    <2>2. StreamOK' /\ cursor <= cursor'
      BY <2>1 DEF StreamOK, Pending
    <2>3. RecordsOK'
      BY <2>1 DEF RecordsOK
    <2>4. QED
      BY <2>1, <2>2, <2>3, ExecutorsKept
  <1>3. ASSUME NEW x \in Executors, ReadReplyLost(x)
        PROVE  StreamOK' /\ ExecutorsOK' /\ RecordsOK'
    <2>1. /\ faults' \in 0..MaxFaults /\ Fresh # {} /\ cursor' = Max(Fresh) /\ Deliver(Fresh)
          /\ UNCHANGED <<added, idle, acked, dlq, results, events, stage, batch, poison,
                          cancelled, broken>>
      BY <1>3, ConstantsAssumption DEF ReadReplyLost, Fault, RecordsOK
    <2>2. cursor' \in 0..added /\ cursor < cursor'
      BY <2>1, FreshFacts DEF StreamOK
    <2>3. StreamOK' /\ cursor <= cursor'
      BY <2>1, <2>2 DEF StreamOK, Deliver, Pending
    <2>4. RecordsOK'
      BY <2>1 DEF RecordsOK
    <2>5. QED
      BY <2>1, <2>3, <2>4, ExecutorsKept
  <1>4. CASE UNCHANGED vars
    BY <1>4 DEF vars, StreamOK, Pending, ExecutorsOK, BatchInv, RecordsOK
  <1>5. QED
    BY <1>1, <1>2, <1>3, <1>4, TExecute, TRedisError, TProcess DEF Next

\* Every variable keeps its type, and an entry acknowledged or idle was delivered, and
\* the executors that await a read are those that hold no entry.
THEOREM TypeTheorem == Spec => []TypeOK
  <1>1. TInv => TypeOK
    BY DEF TInv
  <1>2. QED
    BY TInit, TStep, <1>1, PTL DEF Spec

-----------------------------------------------------------------------------
(* The workers implement JobDelivery *)

\* An entry the group's cursor has passed was delivered at least once.
TimesInv == \A j \in 1..cursor : times[j] > 0

\* A read hands out every entry between the cursor and where it moves.
LEMMA FreshIsTheGap ==
  ASSUME added \in 0..NJobs, cursor \in 0..added, Fresh # {}
  PROVE  \A j \in 1..Max(Fresh) : j <= cursor \/ j \in Fresh
  <1>0. NJobs \in Nat /\ Batch \in Nat \ {0}
    BY ConstantsAssumption
  <1>1. Max(Fresh) \in Fresh
    <2> DEFINE m == IF added <= cursor + Batch THEN added ELSE cursor + Batch
    <2>1. m \in Fresh /\ \A j \in Fresh : m >= j
      BY <1>0 DEF Fresh, Jobs
    <2>2. QED
      BY <2>1 DEF Max
  <1>2. QED
    BY <1>0, <1>1 DEF Fresh, Jobs

\* Counts stay positive when entries are delivered up to where the cursor moves.
LEMMA TimesKept ==
  ASSUME StreamOK, TimesInv, StreamOK',
         \A j \in Jobs : times'[j] >= times[j],
         \A j \in 1..cursor' : j <= cursor \/ times'[j] > times[j]
  PROVE  TimesInv'
  <1>1. ASSUME NEW j \in 1..cursor' PROVE times'[j] > 0
    <2>1. cursor \in Nat /\ j \in Jobs /\ j \in Nat \ {0}
      BY ConstantsAssumption DEF StreamOK, Jobs
    <2>2. times[j] \in Nat /\ times'[j] \in Nat /\ times'[j] >= times[j]
      BY <2>1 DEF StreamOK
    <2>3. CASE j <= cursor
      BY <2>1, <2>2, <2>3 DEF TimesInv
    <2>4. CASE times'[j] > times[j]
      BY <2>2, <2>4
    <2>5. QED
      BY <2>3, <2>4
  <1>2. QED
    BY <1>1 DEF TimesInv

LEMMA TimesStep == TInv /\ TimesInv /\ TInv' /\ [Next]_vars => TimesInv'
  <1> SUFFICES ASSUME TInv, TimesInv, TInv', [Next]_vars PROVE TimesInv'
    OBVIOUS
  <1> USE DEF stream
  <1>0. StreamOK /\ StreamOK'
    BY PartsOfTInv DEF TInv, TypeOK, StreamOK, Pending
  <1>1. ASSUME UNCHANGED <<cursor, times>> PROVE TimesInv'
    BY <1>1 DEF TimesInv
  <1>2. ASSUME Fresh # {}, cursor' = Max(Fresh), Deliver(Fresh) PROVE TimesInv'
    <2>1. \A j \in Jobs : times[j] \in Nat
      BY <1>0 DEF StreamOK
    <2>2. \A j \in Jobs : times'[j] >= times[j] /\ (j \in Fresh => times'[j] > times[j])
      BY <1>2, <2>1 DEF Deliver
    <2>3. \A j \in 1..cursor' : j <= cursor \/ j \in Fresh
      BY <1>0, <1>2, FreshIsTheGap DEF StreamOK
    <2>4. Fresh \subseteq Jobs
      BY DEF Fresh
    <2>5. QED
      BY <1>0, <2>2, <2>3, <2>4, TimesKept
  <1>3. ASSUME cursor' = cursor, Deliver(Claimable) PROVE TimesInv'
    <2>1. \A j \in Jobs : times[j] \in Nat
      BY <1>0 DEF StreamOK
    <2>2. \A j \in Jobs : times'[j] >= times[j]
      BY <1>3, <2>1 DEF Deliver
    <2>3. \A j \in 1..cursor' : j <= cursor
      BY <1>0, <1>3 DEF StreamOK
    <2>4. QED
      BY <1>0, <2>2, <2>3, TimesKept
  <1>4. CASE Submit
    BY <1>1, <1>4 DEF Submit
  <1>5. ASSUME NEW x \in Executors, Execute(x) PROVE TimesInv'
    <2>1. CASE Read(x)
      BY <1>2, <2>1 DEF Read
    <2>2. CASE Claim(x)
      BY <1>3, <2>2 DEF Claim
    <2>3. QED
      BY <1>1, <1>5, <2>1, <2>2 DEF Execute, CountDeliveries, RunJob, StoreResult,
         EmitCompleted, DeadLetter, Ack, LastAck
  <1>6. ASSUME NEW x \in Executors, RedisError(x) PROVE TimesInv'
    BY <1>1, <1>6 DEF RedisError
  <1>7. ASSUME NEW x \in Executors, ReadReplyLost(x) PROVE TimesInv'
    BY <1>2, <1>7 DEF ReadReplyLost
  <1>8. ASSUME NEW j \in Jobs, IdlePasses(j) PROVE TimesInv'
    BY <1>1, <1>8 DEF IdlePasses
  <1>9. ASSUME NEW w \in Workers, Crash(w) \/ Stop(w) \/ Restart(w) PROVE TimesInv'
    <2>1. UNCHANGED <<cursor, times>>
      BY <1>9 DEF Crash, Stop, Restart
    <2>2. QED
      BY <1>1, <2>1
  <1>10. CASE UNCHANGED vars
    BY <1>1, <1>10 DEF vars
  <1>11. QED
    BY <1>4, <1>5, <1>6, <1>7, <1>8, <1>9, <1>10 DEF Next

\* A delivery is of open entries: fresh ones lie beyond the cursor, idle ones are pending.
LEMMA DeliveriesAreOpen ==
  ASSUME StreamOK
  PROVE  Fresh \in SUBSET Delivery!Open /\ Claimable \in SUBSET Delivery!Open
  <1>1. /\ added \in Nat /\ cursor \in 0..added /\ acked \subseteq 1..cursor
        /\ idle \subseteq (1..cursor) \ acked
    BY ConstantsAssumption DEF StreamOK, Pending
  <1>2. Fresh \subseteq 1..added /\ \A j \in Fresh : j \notin 1..cursor
    BY <1>1 DEF Fresh, Jobs
  <1>3. Claimable \subseteq idle
    BY DEF Claimable
  <1>4. QED
    BY <1>1, <1>2, <1>3 DEF Delivery!Open

\* The entry at hand was delivered.
LEMMA CurrentIsDue ==
  ASSUME StreamOK, ExecutorsOK, TimesInv,
         NEW x \in Executors, stage[x] \notin {"idle", "off"}
  PROVE  Current(x) \in Delivery!Jobs /\ Delivery!Due(Current(x))
  BY CurrentDelivered DEF Delivery!Jobs, Jobs, Delivery!Due, TimesInv

\* What the steps of an executor are to those who submit jobs.
LEMMA ExecuteDelivers ==
  ASSUME EInv, StreamOK, ExecutorsOK, TimesInv, NEW x \in Executors, Execute(x)
  PROVE  [Delivery!Next]_(Delivery!vars)
  <1> USE DEF stream, history
  <1>0. StageInv /\ PoisonInv
    BY DEF EInv
  <1>1. CASE Read(x)
    <2>1. Delivery!Deliver(Fresh)
      BY <1>1, DeliveriesAreOpen DEF Read, Deliver, Delivery!Deliver, Delivery!Jobs, Jobs
    <2>2. Fresh \in SUBSET Delivery!Jobs
      BY DEF Fresh, Jobs, Delivery!Jobs
    <2>3. QED
      BY <2>1, <2>2 DEF Delivery!Next
  <1>2. CASE Claim(x)
    <2>1. Delivery!Deliver(Claimable)
      BY <1>2, DeliveriesAreOpen DEF Claim, Deliver, Delivery!Deliver, Delivery!Jobs, Jobs
    <2>2. Claimable \in SUBSET Delivery!Jobs
      BY DeliveredAreJobs DEF Claimable, StreamOK, Pending, Jobs, Delivery!Jobs
    <2>3. QED
      BY <2>1, <2>2 DEF Delivery!Next
  <1>3. CASE CountDeliveries(x) \/ RunJob(x)
    BY <1>3 DEF CountDeliveries, RunJob, Delivery!vars
  <1>4. CASE StoreResult(x)
    <2>1. Current(x) \in Delivery!Jobs /\ Delivery!Store(Current(x))
      BY <1>4, CurrentIsDue DEF StoreResult, Delivery!Store
    <2>2. QED
      BY <2>1 DEF Delivery!Next
  <1>5. CASE EmitCompleted(x)
    <2>1. Reportable(Current(x))
      BY <1>0, <1>5 DEF EmitCompleted, StageInv
    <2>2. Current(x) \in Delivery!Jobs /\ Delivery!Report(Current(x))
      BY <1>5, <2>1, CurrentIsDue DEF EmitCompleted, Reportable, Delivery!Report
    <2>3. QED
      BY <2>2 DEF Delivery!Next
  <1>6. CASE DeadLetter(x)
    <2>1. times[Current(x)] > MaxDeliveries
      BY <1>0, <1>6 DEF DeadLetter, StageInv, PoisonInv
    <2>2. Current(x) \in Delivery!Jobs /\ Delivery!Bury(Current(x))
      BY <1>6, <2>1, CurrentIsDue DEF DeadLetter, Delivery!Bury
    <2>3. QED
      BY <2>2 DEF Delivery!Next
  <1>7. CASE Ack(x) \/ LastAck(x)
    <2>1. stage[x] \in {"ack", "lastack"} /\ Answered(Current(x))
      BY <1>0, <1>7 DEF Ack, LastAck, StageInv, Answered
    <2>2. Current(x) \in Delivery!Jobs /\ Delivery!Settle(Current(x))
      BY <1>7, <2>1, CurrentIsDue DEF Ack, LastAck, Answered, Delivery!Answered,
         Delivery!Settle
    <2>3. QED
      BY <2>2 DEF Delivery!Next
  <1>8. QED
    BY <1>1, <1>2, <1>3, <1>4, <1>5, <1>6, <1>7 DEF Execute

\* A stop cuts off the jobs that run and settles at most those that were answered.
LEMMA StopDelivers ==
  ASSUME EInv, StreamOK, ExecutorsOK, TimesInv, NEW w \in Workers, Stop(w)
  PROVE  Delivery!Next
  <1> DEFINE mine == ExecutorsOf(w)
             handling == {x \in mine : stage[x] \in {"run", "store", "emit"}}
             acking == {x \in mine : stage[x] = "ack"}
             cut == {Current(x) : x \in handling}
  <1>1. /\ cancelled' = cancelled \cup cut
        /\ UNCHANGED <<added, cursor, times, dlq, results, events, poison, broken>>
    BY DEF Stop
  <1>2. PICK sent \in SUBSET {Current(x) : x \in acking} : acked' = acked \cup sent
    BY DEF Stop
  <1>3. \A x \in handling \cup acking :
          Current(x) \in Delivery!Jobs /\ Delivery!Due(Current(x))
    BY CurrentIsDue DEF ExecutorsOf
  <1>4. \A x \in acking : Delivery!Answered(Current(x))
    BY DEF EInv, StageInv, ExecutorsOf, Answered, Delivery!Answered
  <1>5. cut \in SUBSET Delivery!Jobs /\ sent \in SUBSET Delivery!Jobs
    BY <1>3
  <1>6. /\ \A j \in cut \cup sent : Delivery!Due(j)
        /\ \A j \in sent : Delivery!Answered(j)
    BY <1>3, <1>4
  <1> HIDE DEF mine, handling, acking, cut
  <1>7. Delivery!StopWorker(cut, sent)
    BY <1>1, <1>2, <1>6 DEF Delivery!StopWorker
  <1>8. QED
    BY <1>5, <1>7 DEF Delivery!Next

\* Every step is one of JobDelivery or leaves what it sees alone.
LEMMA StepDelivers ==
  EInv /\ TInv /\ TimesInv /\ [Next]_vars => [Delivery!Next]_(Delivery!vars)
  <1> SUFFICES ASSUME EInv, StreamOK, ExecutorsOK, TimesInv, [Next]_vars
               PROVE  [Delivery!Next]_(Delivery!vars)
    BY PartsOfTInv
  <1> USE DEF stream, history
  <1>1. CASE Submit
    <2>1. Delivery!Submit
      BY <1>1 DEF Submit, Delivery!Submit
    <2>2. QED
      BY <2>1 DEF Delivery!Next
  <1>2. ASSUME NEW x \in Executors, RedisError(x) PROVE Delivery!Next
    <2>1. Current(x) \in Delivery!Jobs /\ Delivery!Fail(Current(x))
      BY <1>2, CurrentIsDue DEF RedisError, Delivery!Fail
    <2>2. QED
      BY <2>1 DEF Delivery!Next
  <1>3. ASSUME NEW x \in Executors, ReadReplyLost(x) PROVE Delivery!Next
    <2>1. Delivery!Deliver(Fresh)
      BY <1>3, DeliveriesAreOpen
         DEF ReadReplyLost, Deliver, Delivery!Deliver, Delivery!Jobs, Jobs
    <2>2. Fresh \in SUBSET Delivery!Jobs
      BY DEF Fresh, Jobs, Delivery!Jobs
    <2>3. QED
      BY <2>1, <2>2 DEF Delivery!Next
  <1>4. ASSUME NEW j \in Jobs, IdlePasses(j) PROVE UNCHANGED Delivery!vars
    BY <1>4 DEF IdlePasses, Delivery!vars
  <1>5. ASSUME NEW w \in Workers, Crash(w) \/ Restart(w) PROVE UNCHANGED Delivery!vars
    BY <1>5 DEF Crash, Restart, Delivery!vars
  <1>6. CASE UNCHANGED vars
    BY <1>6 DEF vars, Delivery!vars
  <1>7. QED
    BY <1>1, <1>2, <1>3, <1>4, <1>5, <1>6, ExecuteDelivers, StopDelivers DEF Next

\* The workers implement JobDelivery: an entry acknowledged is never delivered again, and
\* each report, dead letter and acknowledgement has its reason (dorian/exec/worker.py,
\* claimer.py).
THEOREM DeliveryTheorem == Spec => DeliveryKept
  <1>1. Init => Delivery!Init
    BY DEF Init, Delivery!Init, Jobs, Delivery!Jobs
  <1>2. Init => TimesInv
    BY DEF Init, TimesInv
  <1>3. QED
    BY <1>1, <1>2, InitInv, StepInv, TInit, TStep, TimesStep, StepDelivers, PTL
       DEF Spec, DeliveryKept, Delivery!Spec
=============================================================================
