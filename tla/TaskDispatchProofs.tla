------------------------- MODULE TaskDispatchProofs -------------------------
(***************************************************************************)
(* What TaskDispatch keeps for any number of tasks and bridges, any queue  *)
(* depth, failure threshold and width of the counter.                      *)
(***************************************************************************)
EXTENDS TaskDispatch, FiniteSetTheorems, SequenceTheorems, TLAPS

\* A caller that goes on to Redis has its answer; a reader has results in hand; a bridge
\* at work has a task.
StageInv ==
  /\ \A t \in Tasks : /\ at[t] \in {"room", "added"} => response[t] \in {"accepted", "throttle"}
                      /\ at[t] = "reading" => batch[t] # <<>>
  /\ \A b \in Bridges : work[b] # "idle" => entry[b] \in Tasks

\* A breaker that opened has counted its failures, and keeps the count while it probes:
\* the failure of any submission opens it again.
BreakerInv == /\ state # "closed" => failures >= Threshold
              /\ HalfOpenHasAProbe

IInv == TypeOK /\ StageInv /\ BreakerInv /\ InflightIsExact

LEMMA InitInv == Init => IInv
<1> SUFFICES ASSUME Init PROVE IInv OBVIOUS
<1> USE ConstantsAssumption DEF Init
<1>1. TypeOK
  <2>1. <<>> \in Seq(Tasks) /\ Len(<<>>) = 0 OBVIOUS
  <2>2. Wrap - 1 \in Nat BY FS_CardinalityType
  <2>3. /\ stream \in Seq(Tasks) /\ delivered \in 0..Len(stream)
        /\ results \in Seq(Tasks) /\ read \in 0..Len(results)
        /\ batch \in [Tasks -> Seq(Tasks)]
    BY <2>1
  <2>4. inflight \in 0..Wrap - 1 BY <2>2
  <2>5. /\ at \in [Tasks -> {"new"} \cup Submitting \cup Waiting \cup Ended]
        /\ response \in [Tasks -> {"none", "accepted", "throttle", "rejected", "error"}]
        /\ pending \in [Tasks -> {"none", "empty", "filled"}]
    OBVIOUS
  <2>6. /\ entry \in [Bridges -> Tasks \cup {NoTask}]
        /\ work \in [Bridges -> {"idle", "running", "ran", "published"}]
    OBVIOUS
  <2>7. state \in {"closed", "open", "half"} /\ failures \in Nat /\ rested \in BOOLEAN OBVIOUS
  <2>8. cancelled \subseteq Cancellable /\ dropped \subseteq Tasks /\ faults \in 0..MaxFaults
    OBVIOUS
  <2> QED BY <2>3, <2>4, <2>5, <2>6, <2>7, <2>8 DEF TypeOK
<1>2. StageInv /\ BreakerInv BY DEF StageInv, BreakerInv, HalfOpenHasAProbe
<1>3. {t \in Tasks : Counted(t)} = {} BY DEF Counted, Waiting
<1>4. InflightIsExact BY <1>3, FS_EmptySet DEF InflightIsExact
<1> QED BY <1>1, <1>2, <1>4 DEF IInv

\* The next results that nobody has read, and where the group has read to after them.
LEMMA UnreadType ==
  ASSUME TypeOK, read < Len(results)
  PROVE  /\ NewRead \in 0..Len(results)
         /\ Unread \in Seq(Tasks) /\ Unread # <<>> /\ ToSet(Unread) \subseteq Tasks
<1> USE ConstantsAssumption DEF TypeOK
<1>1. NewRead \in read + 1..Len(results) BY DEF NewRead
<1>2. Unread \in Seq(Tasks) /\ Len(Unread) = NewRead - read
  BY <1>1, SubSeqProperties DEF Unread
<1>3. Unread # <<>> BY <1>1, <1>2
<1>4. ToSet(Unread) \subseteq Tasks BY <1>2 DEF ToSet
<1> QED BY <1>1, <1>2, <1>3, <1>4

\* A batch holds tasks, as does what is left of it.
LEMMA BatchType ==
  ASSUME IInv, NEW t \in Tasks, at[t] = "reading"
  PROVE  /\ Head(batch[t]) \in Tasks /\ Tail(batch[t]) \in Seq(Tasks)
         /\ ToSet(Tail(batch[t])) \subseteq Tasks
         /\ Len(batch[t]) # 1 => Tail(batch[t]) # <<>>
<1> batch[t] \in Seq(Tasks) /\ batch[t] # <<>> BY DEF IInv, TypeOK, StageInv
<1>1. Head(batch[t]) \in Tasks /\ Tail(batch[t]) \in Seq(Tasks)
      /\ Len(Tail(batch[t])) = Len(batch[t]) - 1
  BY HeadTailProperties
<1>2. ToSet(Tail(batch[t])) \subseteq Tasks BY <1>1 DEF ToSet
<1>3. ASSUME Tail(batch[t]) = <<>> PROVE Len(batch[t]) = 1
  <2>1. Len(Tail(batch[t])) = 0 BY <1>1, <1>3, EmptySeq
  <2>2. Len(batch[t]) \in Nat OBVIOUS
  <2> QED BY <1>1, <2>1, <2>2
<1> QED BY <1>1, <1>2, <1>3

\* Every action keeps the types and what a caller, a reader and a bridge hold.
LEMMA TypeStep ==
  ASSUME IInv, [Next]_vars
  PROVE  TypeOK' /\ StageInv'
<1> DEFINE Goal == TypeOK' /\ StageInv'
<1> USE ConstantsAssumption
    DEF IInv, TypeOK, StageInv, Submitting, Waiting, Ended, breaker, callers, bridges
<1>1. ASSUME NEW t \in Tasks, AskBreaker(t) PROVE Goal BY <1>1 DEF AskBreaker, Goto
<1>2. CASE Rest BY <1>2 DEF Rest
<1>3. ASSUME NEW t \in Tasks, LoadDepth(t) PROVE Goal
  <2>1. /\ at' \in [Tasks -> {"new"} \cup Submitting \cup Waiting \cup Ended]
        /\ response' \in [Tasks -> {"none", "accepted", "throttle", "rejected", "error"}]
    BY <1>3 DEF LoadDepth, Goto
  <2>2. \A u \in Tasks : at'[u] \in {"room", "added"} => response'[u] \in {"accepted", "throttle"}
    BY <1>3 DEF LoadDepth, Goto
  <2>3. \A u \in Tasks : at'[u] = "reading" => batch[u] # <<>>
    BY <1>3 DEF LoadDepth, Goto
  <2> QED BY <1>3, <2>1, <2>2, <2>3 DEF LoadDepth
<1>4. ASSUME NEW t \in Tasks, AddTask(t) PROVE Goal
  <2>1. stream' \in Seq(Tasks) /\ Len(stream') = Len(stream) + 1 BY <1>4 DEF AddTask
  <2> QED BY <1>4, <2>1 DEF AddTask, Goto
<1>5. ASSUME NEW t \in Tasks, AddTaskFails(t) PROVE Goal
  <2>1. stream' = stream \/ stream' = Append(stream, t) BY <1>5 DEF AddTaskFails
  <2>2. Append(stream, t) \in Seq(Tasks) /\ Len(Append(stream, t)) = Len(stream) + 1 OBVIOUS
  <2>3. stream' \in Seq(Tasks) /\ delivered \in 0..Len(stream')
    <3>1. CASE stream' = stream BY <3>1
    <3>2. CASE stream' = Append(stream, t) BY <2>2, <3>2
    <3> QED BY <2>1, <3>1, <3>2
  <2> QED BY <1>5, <2>3 DEF AddTaskFails, Goto, Fault
<1>6. ASSUME NEW t \in Tasks, Register(t) PROVE Goal BY <1>6 DEF Register, Goto, CountOne
<1>7. ASSUME NEW t \in Tasks, Respond(t) PROVE Goal
  <2>1. state' \in {"closed", "open", "half"} /\ failures' \in Nat /\ rested' \in BOOLEAN
    <3>1. CASE RecordSuccess BY <3>1 DEF RecordSuccess
    <3>2. CASE RecordFailure
      <4>1. state' = "open" \/ state' = state BY <3>2 DEF RecordFailure
      <4>2. failures' \in Nat BY <3>2 DEF RecordFailure
      <4>3. rested' \in BOOLEAN BY <3>2, Zenon DEF RecordFailure
      <4> QED BY <4>1, <4>2, <4>3
    <3>3. CASE UNCHANGED breaker BY <3>3
    <3> QED BY <1>7, <3>1, <3>2, <3>3 DEF Respond
  <2>2. at' = [at EXCEPT ![t] = "waiting"] \/ at' = [at EXCEPT ![t] = "refused"]
    BY <1>7 DEF Respond, Goto
  <2>3. at' \in [Tasks -> {"new"} \cup Submitting \cup Waiting \cup Ended] BY <2>2
  <2>4. StageInv' BY <1>7, <2>2 DEF Respond
  <2> QED BY <1>7, <2>1, <2>3, <2>4 DEF Respond
<1>8. ASSUME NEW b \in Bridges, TakeEntry(b) PROVE Goal BY <1>8 DEF TakeEntry
<1>9. ASSUME NEW b \in Bridges, ProcessTask(b) PROVE Goal BY <1>9 DEF ProcessTask
<1>10. ASSUME NEW b \in Bridges, PublishResult(b) PROVE Goal
  <2>1. results' \in Seq(Tasks) /\ Len(results') = Len(results) + 1
    BY <1>10 DEF PublishResult
  <2> QED BY <1>10, <2>1 DEF PublishResult
<1>11. ASSUME NEW b \in Bridges, AckEntry(b) PROVE Goal BY <1>11 DEF AckEntry
<1>12. ASSUME NEW b \in Bridges, LoseEntry(b) PROVE Goal BY <1>12 DEF LoseEntry, Fault
<1>13. ASSUME NEW t \in Tasks, WaitFails(t) PROVE Goal BY <1>13 DEF WaitFails, Goto, Fault
<1>14. ASSUME NEW t \in Tasks, DeadlinePasses(t) PROVE Goal
  BY <1>14 DEF DeadlinePasses, Goto, DiscountOne
<1>15. ASSUME NEW t \in Tasks, ReadResults(t) PROVE Goal
  <2>1. Unread \in Seq(Tasks) /\ Unread # <<>> /\ NewRead \in 0..Len(results)
    BY <1>15, UnreadType DEF ReadResults
  <2> QED BY <1>15, <2>1 DEF ReadResults, Goto
<1>16. ASSUME NEW t \in Tasks, LoseBatch(t) PROVE Goal
  <2>1. ToSet(Unread) \subseteq Tasks /\ NewRead \in 0..Len(results)
    BY <1>16, UnreadType DEF LoseBatch
  <2> QED BY <1>16, <2>1 DEF LoseBatch, Fault
<1>17. ASSUME NEW t \in Tasks, HandleOther(t) PROVE Goal
  <2>1. /\ Head(batch[t]) \in Tasks /\ Tail(batch[t]) \in Seq(Tasks)
        /\ Len(batch[t]) # 1 => Tail(batch[t]) # <<>>
    BY <1>17, BatchType DEF HandleOther
  <2>2. pending' \in [Tasks -> {"none", "empty", "filled"}] /\ dropped' \subseteq Tasks
    BY <1>17, <2>1 DEF HandleOther, Store
  <2>3. batch' \in [Tasks -> Seq(Tasks)] BY <1>17, <2>1 DEF HandleOther
  <2>4. at' \in [Tasks -> {"new"} \cup Submitting \cup Waiting \cup Ended]
    BY <1>17 DEF HandleOther, Goto
  <2>5. StageInv' BY <1>17, <2>1 DEF HandleOther, Goto
  <2> QED BY <1>17, <2>2, <2>3, <2>4, <2>5 DEF HandleOther
<1>18. ASSUME NEW t \in Tasks, HandleOwn(t) PROVE Goal
  <2>1. ToSet(Tail(batch[t])) \subseteq Tasks BY <1>18, BatchType DEF HandleOwn
  <2>2. <<>> \in Seq(Tasks) OBVIOUS
  <2> QED BY <1>18, <2>1, <2>2 DEF HandleOwn, Goto, DiscountOne
<1>19. ASSUME NEW t \in Tasks, Cancel(t) PROVE Goal
  <2>1. stream' \in Seq(Tasks) /\ Len(stream') = Len(stream) + 1 BY <1>19 DEF Cancel
  <2> QED BY <1>19, <2>1 DEF Cancel, DiscountOne
<1>20. CASE UNCHANGED vars BY <1>20 DEF vars
<1> QED
  BY <1>1, <1>2, <1>3, <1>4, <1>5, <1>6, <1>7, <1>8, <1>9, <1>10, <1>11, <1>12, <1>13, <1>14,
     <1>15, <1>16, <1>17, <1>18, <1>19, <1>20
  DEF Next, Submit, Wait, Bridge, TaskFault

\* A half-open breaker waits for its probe, or for any failure, to settle it.
LEMMA BreakerStep ==
  ASSUME IInv, [Next]_vars
  PROVE  BreakerInv'
<1> USE ConstantsAssumption DEF IInv, TypeOK, BreakerInv, HalfOpenHasAProbe, Submitting, Waiting
<1>1. CASE UNCHANGED <<at, response, probe, state, failures>> BY <1>1
<1>2. ASSUME NEW t \in Tasks, AskBreaker(t) PROVE BreakerInv' BY <1>2 DEF AskBreaker, Goto
<1>3. ASSUME NEW t \in Tasks, LoadDepth(t) PROVE BreakerInv'
  BY <1>3 DEF LoadDepth, Goto, breaker
<1>4. ASSUME NEW t \in Tasks, AddTask(t) \/ AddTaskFails(t) \/ Register(t) PROVE BreakerInv'
  BY <1>4 DEF AddTask, AddTaskFails, Register, Goto, breaker
<1>5. ASSUME NEW t \in Tasks, Respond(t) PROVE BreakerInv'
  BY <1>5 DEF Respond, Goto, RecordSuccess, RecordFailure, breaker
<1>6. ASSUME NEW t \in Tasks, WaitFails(t) \/ Wait(t) PROVE BreakerInv'
  BY <1>6 DEF WaitFails, Wait, DeadlinePasses, ReadResults, HandleOther, HandleOwn, Goto, breaker
<1> QED
  BY <1>1, <1>2, <1>3, <1>4, <1>5, <1>6
  DEF Next, Submit, Bridge, TaskFault, TakeEntry, ProcessTask, PublishResult, AckEntry,
      LoseEntry, LoseBatch, Cancel, Rest, vars, callers, breaker

CountedTasks == {t \in Tasks : Counted(t)}

\* The counter is wide enough for every task: it wraps neither up nor down.
LEMMA CountUp ==
  ASSUME IInv, cancelled = {}, NEW t \in Tasks, ~Counted(t), CountOne,
         CountedTasks' = CountedTasks \cup {t}
  PROVE  inflight' = Cardinality(CountedTasks')
<1> USE ConstantsAssumption
<1>1. IsFiniteSet(CountedTasks) /\ IsFiniteSet(CountedTasks')
  BY FS_Subset, CountedTasks \subseteq Tasks, CountedTasks' \subseteq Tasks DEF CountedTasks
<1>2. Cardinality(CountedTasks') = Cardinality(CountedTasks) + 1
  BY <1>1, FS_AddElement DEF CountedTasks
<1>3. Cardinality(CountedTasks') <= Cardinality(Tasks)
  BY FS_Subset, CountedTasks' \subseteq Tasks DEF CountedTasks
<1>4. Cardinality(CountedTasks) \in Nat /\ Cardinality(Tasks) \in Nat
  BY <1>1, FS_CardinalityType
<1>5. inflight = Cardinality(CountedTasks) BY DEF IInv, InflightIsExact, CountedTasks
<1>6. inflight + 1 \in 0..Wrap - 1 BY <1>2, <1>3, <1>4, <1>5
<1>7. (inflight + 1) % Wrap = inflight + 1 BY <1>6
<1> QED BY <1>2, <1>5, <1>7 DEF CountOne

LEMMA CountDown ==
  ASSUME IInv, cancelled = {}, NEW t \in Tasks, Counted(t), DiscountOne,
         CountedTasks' = CountedTasks \ {t}
  PROVE  inflight' = Cardinality(CountedTasks')
<1> USE ConstantsAssumption
<1>1. IsFiniteSet(CountedTasks)
  BY FS_Subset, CountedTasks \subseteq Tasks DEF CountedTasks
<1>2. Cardinality(CountedTasks') = Cardinality(CountedTasks) - 1 /\ Cardinality(CountedTasks') \in Nat
  <2>1. t \in CountedTasks BY DEF CountedTasks
  <2>2. IsFiniteSet(CountedTasks') /\ Cardinality(CountedTasks') = Cardinality(CountedTasks) - 1
    BY <1>1, <2>1, FS_RemoveElement
  <2> QED BY <2>2, FS_CardinalityType
<1>3. inflight = Cardinality(CountedTasks) BY DEF IInv, InflightIsExact, CountedTasks
<1>4. Cardinality(CountedTasks) \in Nat BY <1>1, FS_CardinalityType
<1>5. inflight - 1 \in 0..Wrap - 1 BY <1>2, <1>3, <1>4 DEF IInv, TypeOK
<1>6. (inflight - 1) % Wrap = inflight - 1 BY <1>5
<1> QED BY <1>2, <1>3, <1>6 DEF DiscountOne

\* Every step that adds a task to the counted ones counts one up, every step that takes
\* one away counts one down, as long as none is cancelled.
LEMMA CountStep ==
  ASSUME IInv, [Next]_vars
  PROVE  InflightIsExact'
<1> SUFFICES ASSUME cancelled' = {} PROVE inflight' = Cardinality(CountedTasks')
  BY DEF InflightIsExact, CountedTasks
<1> USE DEF IInv, TypeOK, StageInv, Counted, CountedTasks, Waiting
<1>1. ASSUME cancelled = {}, inflight' = inflight, CountedTasks' = CountedTasks
      PROVE  inflight' = Cardinality(CountedTasks')
  BY <1>1 DEF InflightIsExact
<1>2. CASE UNCHANGED <<at, response, inflight, cancelled>> BY <1>1, <1>2
<1>3. ASSUME NEW t \in Tasks, AskBreaker(t) \/ LoadDepth(t) \/ AddTask(t) \/ AddTaskFails(t)
      PROVE  inflight' = Cardinality(CountedTasks')
  <2>1. CountedTasks' = CountedTasks
    BY <1>3 DEF AskBreaker, LoadDepth, AddTask, AddTaskFails, Goto
  <2> QED BY <1>1, <1>3, <2>1 DEF AskBreaker, LoadDepth, AddTask, AddTaskFails
<1>4. ASSUME NEW t \in Tasks, Register(t) PROVE inflight' = Cardinality(CountedTasks')
  <2>1. ~Counted(t) /\ CountedTasks' = CountedTasks \cup {t} BY <1>4 DEF Register, Goto
  <2>2. cancelled = {} /\ CountOne BY <1>4 DEF Register
  <2> QED BY <2>1, <2>2, CountUp
<1>5. ASSUME NEW t \in Tasks, Respond(t) PROVE inflight' = Cardinality(CountedTasks')
  <2>1. CountedTasks' = CountedTasks BY <1>5 DEF Respond, Goto
  <2> QED BY <1>1, <1>5, <2>1 DEF Respond
<1>6. ASSUME NEW t \in Tasks, WaitFails(t) \/ ReadResults(t) \/ HandleOther(t)
      PROVE  inflight' = Cardinality(CountedTasks')
  <2>1. CountedTasks' = CountedTasks
    BY <1>6 DEF WaitFails, ReadResults, HandleOther, Goto
  <2> QED BY <1>1, <1>6, <2>1 DEF WaitFails, ReadResults, HandleOther
<1>7. ASSUME NEW t \in Tasks, DeadlinePasses(t) \/ HandleOwn(t)
      PROVE  inflight' = Cardinality(CountedTasks')
  <2>1. Counted(t) /\ CountedTasks' = CountedTasks \ {t}
    BY <1>7 DEF DeadlinePasses, HandleOwn, Goto
  <2>2. cancelled = {} /\ DiscountOne BY <1>7 DEF DeadlinePasses, HandleOwn
  <2> QED BY <2>1, <2>2, CountDown
<1>8. ASSUME NEW t \in Tasks, Cancel(t) PROVE FALSE BY <1>8 DEF Cancel
<1> QED
  BY <1>2, <1>3, <1>4, <1>5, <1>6, <1>7, <1>8
  DEF Next, Submit, Wait, Bridge, TaskFault, TakeEntry, ProcessTask, PublishResult, AckEntry,
      LoseEntry, LoseBatch, Rest, vars, callers

-----------------------------------------------------------------------------
(* Results *)

\* Only a reader has a batch, and no task has a slot before it is registered.
PlaceInv ==
  \A t \in Tasks :
    /\ at[t] # "reading" => batch[t] = <<>>
    /\ at[t] \in {"new", "allowed", "room", "added"} => pending[t] = "none"

\* Task t's result is unread, in a reader's hands, in its slot, or dropped.
Placed(t) ==
  \/ \E k \in read + 1..Len(results) : results[k] = t
  \/ \E u \in Tasks : t \in ToSet(batch[u])
  \/ pending[t] = "filled" \/ t \in dropped

\* Where the result of a task is, from its publication to the end of the task's wait.
ResultInv == \A t \in Tasks \ cancelled : at[t] \notin Ended /\ t \in ToSet(results) => Placed(t)

\* What a sequence holds after an append, and before its head is taken.
LEMMA AppendSet ==
  ASSUME NEW S, NEW q \in Seq(S), NEW x \in S
  PROVE  /\ ToSet(Append(q, x)) = ToSet(q) \cup {x}
         /\ Len(Append(q, x)) = Len(q) + 1 /\ Append(q, x)[Len(q) + 1] = x
         /\ \A k \in 1..Len(q) : Append(q, x)[k] = q[k]
<1> DEFINE p == Append(q, x)
<1>1. /\ Len(p) = Len(q) + 1 /\ p[Len(q) + 1] = x /\ Len(q) \in Nat
      /\ \A k \in 1..Len(q) : p[k] = q[k]
      /\ DOMAIN p = 1..Len(p) /\ DOMAIN q = 1..Len(q)
  BY AppendProperties, LenProperties
<1> HIDE DEF p
<1>2. DOMAIN p = DOMAIN q \cup {Len(q) + 1} BY <1>1
<1>3. ToSet(p) = ToSet(q) \cup {x} BY <1>1, <1>2 DEF ToSet
<1> QED BY <1>1, <1>3 DEF p

\* What a sequence holds is its head or in its tail.
LEMMA TailSet ==
  ASSUME NEW S, NEW q \in Seq(S), q # <<>>
  PROVE  ToSet(q) \subseteq {Head(q)} \cup ToSet(Tail(q))
<1>1. /\ Len(q) \in Nat \ {0} /\ Head(q) = q[1] /\ DOMAIN q = 1..Len(q)
      /\ DOMAIN Tail(q) = 1..Len(q) - 1 /\ \A i \in 1..Len(q) - 1 : Tail(q)[i] = q[i + 1]
  OBVIOUS
<1> DEFINE p == Tail(q)
<1> HIDE DEF p
<1>2. ASSUME NEW i \in DOMAIN q, i # 1 PROVE q[i] \in ToSet(p)
  <2>1. i - 1 \in DOMAIN p /\ p[i - 1] = q[(i - 1) + 1] /\ (i - 1) + 1 = i BY <1>1, <1>2 DEF p
  <2> QED BY <2>1 DEF ToSet
<1> QED BY <1>1, <1>2 DEF ToSet, p

\* A read takes the next results: one that was unread is among them, or unread still.
LEMMA UnreadSet ==
  ASSUME TypeOK, read < Len(results), NEW t, NEW k \in read + 1..Len(results), results[k] = t
  PROVE  t \in ToSet(Unread) \/ k \in NewRead + 1..Len(results)
<1> USE ConstantsAssumption DEF TypeOK
<1>1. NewRead \in read + 1..Len(results) BY DEF NewRead
<1>2. /\ Len(Unread) = NewRead - read
      /\ \A i \in 1..NewRead - read : Unread[i] = results[read + i]
      /\ DOMAIN Unread = 1..NewRead - read
  <2>1. Unread = [i \in 1..NewRead - (read + 1) + 1 |-> results[(read + 1) + i - 1]]
    BY <1>1 DEF Unread
  <2>2. NewRead - (read + 1) + 1 = NewRead - read BY <1>1
  <2>3. \A i \in 1..NewRead - read : (read + 1) + i - 1 = read + i BY <1>1
  <2> QED BY <1>1, <2>1, <2>2, <2>3
<1>3. ASSUME k <= NewRead PROVE t \in ToSet(Unread)
  <2>1. k - read \in 1..NewRead - read /\ read + (k - read) = k BY <1>1, <1>3
  <2>2. Unread[k - read] = t BY <1>2, <2>1
  <2> QED BY <1>2, <2>1, <2>2 DEF ToSet
<1> QED BY <1>1, <1>3

\* A batch is read once the last one is worked off, and a slot is made once.
LEMMA PlaceStep == ASSUME IInv, PlaceInv, [Next]_vars PROVE PlaceInv'
<1> USE DEF IInv, TypeOK, PlaceInv
<1>1. CASE UNCHANGED <<at, batch, pending>> BY <1>1
<1>2. ASSUME NEW t \in Tasks, AskBreaker(t) \/ LoadDepth(t) \/ AddTask(t) \/ AddTaskFails(t)
      PROVE  PlaceInv'
  BY <1>2 DEF AskBreaker, LoadDepth, AddTask, AddTaskFails, Goto
<1>3. ASSUME NEW t \in Tasks, Register(t) \/ Respond(t) \/ WaitFails(t) \/ DeadlinePasses(t)
      PROVE  PlaceInv'
  BY <1>3 DEF Register, Respond, WaitFails, DeadlinePasses, Goto
<1>4. ASSUME NEW t \in Tasks, ReadResults(t) PROVE PlaceInv' BY <1>4 DEF ReadResults, Goto
<1>5. ASSUME NEW t \in Tasks, HandleOther(t) PROVE PlaceInv'
  <2> DEFINE r == Head(batch[t])
  <2>1. /\ r \in Tasks /\ (Len(batch[t]) = 1 => Tail(batch[t]) = <<>>)
    <3>1. batch[t] \in Seq(Tasks) /\ batch[t] # <<>> BY <1>5 DEF HandleOther, StageInv
    <3>2. Len(Tail(batch[t])) = Len(batch[t]) - 1 /\ Tail(batch[t]) \in Seq(Tasks)
      BY <3>1, HeadTailProperties
    <3>3. ASSUME Len(batch[t]) = 1 PROVE Tail(batch[t]) = <<>>
      <4>1. Len(Tail(batch[t])) = 0 BY <3>2, <3>3
      <4> QED BY ONLY <3>2, <4>1, EmptySeq
    <3> QED BY <1>5, <3>3, BatchType DEF HandleOther
  <2>2. \A u \in Tasks : pending[u] = "none" => pending'[u] = "none"
    BY <1>5, <2>1 DEF HandleOther, Store
  <2> QED BY <1>5, <2>1, <2>2 DEF HandleOther, Goto
<1>6. ASSUME NEW t \in Tasks, HandleOwn(t) PROVE PlaceInv' BY <1>6 DEF HandleOwn, Goto
<1>7. ASSUME NEW t \in Tasks, Cancel(t) PROVE PlaceInv'
  <2>1. UNCHANGED <<at, batch>> /\ pending' = [pending EXCEPT ![t] = "none"]
    BY <1>7 DEF Cancel, callers
  <2> QED BY <2>1
<1> QED
  BY <1>1, <1>2, <1>3, <1>4, <1>5, <1>6, <1>7
  DEF Next, Submit, Wait, Bridge, TaskFault, TakeEntry, ProcessTask, PublishResult, AckEntry,
      LoseEntry, LoseBatch, Rest, vars, callers

\* A result goes from the stream to a reader's batch and from there to its slot; where it
\* does not, it is dropped, or nobody waits for it any more.
LEMMA ResultStep == ASSUME IInv, PlaceInv, ResultInv, [Next]_vars PROVE ResultInv'
<1> USE DEF IInv, TypeOK
<1> DEFINE Kept(t) == Placed(t) => Placed(t)'
<1>0. ASSUME cancelled \subseteq cancelled', \A t \in Tasks : at'[t] \notin Ended => at[t] \notin Ended,
             ToSet(results') \subseteq ToSet(results),
             \A t \in Tasks \ cancelled' : at'[t] \notin Ended => Kept(t)
      PROVE  ResultInv'
  BY <1>0 DEF ResultInv
<1> HIDE DEF Kept
<1>1. ASSUME UNCHANGED <<read, results, batch, pending, dropped>> PROVE \A t : Kept(t)
  BY <1>1 DEF Kept, Placed
<1>2. ASSUME UNCHANGED <<at, read, results, batch, pending, dropped, cancelled>> PROVE ResultInv'
  BY <1>0, <1>1, <1>2
<1>3. ASSUME NEW t \in Tasks,
             \/ AskBreaker(t) \/ LoadDepth(t) \/ AddTask(t) \/ AddTaskFails(t) \/ Respond(t)
             \/ WaitFails(t) \/ DeadlinePasses(t)
      PROVE  ResultInv'
  <2>1. UNCHANGED <<read, results, batch, pending, dropped, cancelled>>
    BY <1>3 DEF AskBreaker, LoadDepth, AddTask, AddTaskFails, Respond, WaitFails, DeadlinePasses
  <2>2. \A u \in Tasks : at'[u] \notin Ended => at[u] \notin Ended
    BY <1>3 DEF AskBreaker, LoadDepth, AddTask, AddTaskFails, Respond, WaitFails, DeadlinePasses,
                Goto, Ended
  <2> QED BY <1>0, <1>1, <2>1, <2>2
<1>4. ASSUME NEW t \in Tasks, Register(t) PROVE ResultInv'
  <2>1. /\ UNCHANGED <<read, results, batch, dropped, cancelled>>
        /\ pending' = [pending EXCEPT ![t] = "empty"] /\ pending[t] = "none"
    BY <1>4 DEF Register, PlaceInv
  <2>2. \A u \in Tasks : Kept(u) BY <2>1 DEF Kept, Placed
  <2>3. \A u \in Tasks : at'[u] \notin Ended => at[u] \notin Ended
    BY <1>4 DEF Register, Goto, Ended
  <2> QED BY <1>0, <2>1, <2>2, <2>3
<1>5. ASSUME NEW b \in Bridges, PublishResult(b) PROVE ResultInv'
  <2>1. /\ UNCHANGED <<at, read, batch, pending, dropped, cancelled>>
        /\ entry[b] \in Tasks /\ results' = Append(results, entry[b])
    BY <1>5 DEF PublishResult, StageInv, callers
  <2>2. /\ ToSet(results') = ToSet(results) \cup {entry[b]}
        /\ Len(results') = Len(results) + 1 /\ results'[Len(results) + 1] = entry[b]
        /\ \A k \in 1..Len(results) : results'[k] = results[k]
    BY <2>1, AppendSet
  <2>3. read \in Nat /\ Len(results) \in Nat /\ read <= Len(results) OBVIOUS
  <2>4. \A k \in read + 1..Len(results) : k \in read + 1..Len(results') /\ results'[k] = results[k]
    BY <2>2, <2>3
  <2>5. Len(results) + 1 \in read + 1..Len(results') BY <2>2, <2>3
  <2>6. \A t : Placed(t) => Placed(t)' BY <2>1, <2>4 DEF Placed
  <2>7. \A t \in {entry[b]} : Placed(t)' BY <2>1, <2>2, <2>5 DEF Placed
  <2>8. ASSUME NEW t \in Tasks \ cancelled', at'[t] \notin Ended, t \in ToSet(results')
        PROVE  Placed(t)'
    BY <2>1, <2>2, <2>6, <2>7, <2>8 DEF ResultInv
  <2> QED BY <2>8 DEF ResultInv
<1>6. ASSUME NEW t \in Tasks, ReadResults(t) PROVE ResultInv'
  <2>1. /\ UNCHANGED <<results, pending, dropped, cancelled>> /\ read' = NewRead
        /\ batch' = [batch EXCEPT ![t] = Unread] /\ batch[t] = <<>>
    BY <1>6 DEF ReadResults, PlaceInv
  <2>2. \A u \in Tasks : \A k \in read + 1..Len(results) : results[k] = u =>
          u \in ToSet(batch'[t]) \/ k \in read' + 1..Len(results')
    BY <1>6, <2>1, UnreadSet DEF ReadResults
  <2>3. \A v \in Tasks : batch'[v] = batch[v] \/ batch[v] = <<>> BY <2>1
  <2>4. \A u : u \notin ToSet(<<>>) BY DEF ToSet
  <2>5. \A u \in Tasks : Kept(u) BY <2>1, <2>2, <2>3, <2>4 DEF Kept, Placed
  <2>6. \A u \in Tasks : at'[u] \notin Ended => at[u] \notin Ended
    BY <1>6 DEF ReadResults, Goto, Ended
  <2> QED BY <1>0, <2>1, <2>5, <2>6
<1>7. ASSUME NEW t \in Tasks, LoseBatch(t) PROVE ResultInv'
  <2>1. /\ UNCHANGED <<at, results, batch, pending, cancelled>> /\ read' = NewRead
        /\ dropped' = dropped \cup ToSet(Unread)
    BY <1>7 DEF LoseBatch, callers
  <2>2. \A u \in Tasks : \A k \in read + 1..Len(results) : results[k] = u =>
          u \in dropped' \/ k \in read' + 1..Len(results')
    BY <1>7, <2>1, UnreadSet DEF LoseBatch
  <2>3. \A u \in Tasks : Kept(u) BY <2>1, <2>2 DEF Kept, Placed
  <2> QED BY <1>0, <2>1, <2>3
<1>8. ASSUME NEW t \in Tasks, HandleOther(t) PROVE ResultInv'
  <2> DEFINE r == Head(batch[t])
             s == Tail(batch[t])
  <2>1. /\ UNCHANGED <<read, results, cancelled>> /\ Store(r)
        /\ batch' = [batch EXCEPT ![t] = s]
    BY <1>8 DEF HandleOther
  <2>2. r \in Tasks /\ ToSet(batch[t]) \subseteq {r} \cup ToSet(s)
    BY <1>8, BatchType, TailSet DEF HandleOther, StageInv
  <2> HIDE DEF r, s
  <2>3. pending'[r] = "filled" \/ r \in dropped' BY <2>1, <2>2 DEF Store
  <2>4. \A u \in Tasks : (pending[u] = "filled" => pending'[u] = "filled")
                         /\ (u \in dropped => u \in dropped')
    BY <2>1, <2>2 DEF Store
  <2>5. \A u, v \in Tasks : u \in ToSet(batch[v]) => u \in ToSet(batch'[v]) \/ u = r
    BY <2>1, <2>2
  <2>6. \A u \in Tasks : Kept(u) BY <2>1, <2>3, <2>4, <2>5 DEF Kept, Placed
  <2>7. \A u \in Tasks : at'[u] \notin Ended => at[u] \notin Ended
    BY <1>8 DEF HandleOther, Goto, Ended
  <2> QED BY <1>0, <2>1, <2>6, <2>7
<1>9. ASSUME NEW t \in Tasks, HandleOwn(t) PROVE ResultInv'
  <2> DEFINE s == Tail(batch[t])
  <2>1. /\ UNCHANGED <<read, results, cancelled>> /\ at' = [at EXCEPT ![t] = "answered"]
        /\ batch' = [batch EXCEPT ![t] = <<>>] /\ dropped' = dropped \cup ToSet(s)
        /\ pending' = [pending EXCEPT ![t] = "none"]
    BY <1>9 DEF HandleOwn, Goto
  <2>2. ToSet(batch[t]) \subseteq {t} \cup ToSet(s)
    BY <1>9, TailSet DEF HandleOwn, StageInv
  <2> HIDE DEF s
  <2>3. \A u \in Tasks : at'[u] \notin Ended => at[u] \notin Ended /\ u # t BY <2>1 DEF Ended
  <2>4. \A u, v \in Tasks : u \in ToSet(batch[v]) => u \in ToSet(batch'[v]) \/ u \in dropped' \/ u = t
    BY <2>1, <2>2
  <2>5. \A u \in Tasks : u # t => Kept(u) BY <2>1, <2>4 DEF Kept, Placed
  <2> QED BY <1>0, <2>1, <2>3, <2>5
<1>10. ASSUME NEW t \in Tasks, Cancel(t) PROVE ResultInv'
  <2>1. /\ UNCHANGED <<at, read, results, batch, dropped>> /\ cancelled' = cancelled \cup {t}
        /\ pending' = [pending EXCEPT ![t] = "none"]
    BY <1>10 DEF Cancel, callers
  <2>2. \A u \in Tasks : u # t => Kept(u) BY <2>1 DEF Kept, Placed
  <2> QED BY <1>0, <2>1, <2>2
<1>11. CASE Rest \/ UNCHANGED vars BY <1>2, <1>11 DEF Rest, vars, callers
<1>12. ASSUME NEW b \in Bridges, TakeEntry(b) \/ ProcessTask(b) \/ AckEntry(b) \/ LoseEntry(b)
       PROVE  ResultInv'
  BY <1>2, <1>12 DEF TakeEntry, ProcessTask, AckEntry, LoseEntry, callers
<1> QED
  BY <1>3, <1>4, <1>5, <1>6, <1>7, <1>8, <1>9, <1>10, <1>11, <1>12
  DEF Next, Submit, Wait, Bridge, TaskFault

-----------------------------------------------------------------------------
(* Theorems *)

\* The inductive invariant holds in every reachable state.
THEOREM Invariance == Spec => [](IInv /\ PlaceInv /\ ResultInv)
<1>1. Init => PlaceInv /\ ResultInv BY DEF Init, PlaceInv, ResultInv, ToSet
<1>2. IInv /\ PlaceInv /\ ResultInv /\ [Next]_vars => IInv' /\ PlaceInv' /\ ResultInv'
  BY TypeStep, BreakerStep, CountStep, PlaceStep, ResultStep DEF IInv
<1> QED BY InitInv, <1>1, <1>2, PTL DEF Spec

\* Streams, batches, slots and counters keep their types: no batch is read past its end,
\* and the counter stays within its width.
THEOREM TypeTheorem == Spec => []TypeOK
<1>1. IInv => TypeOK BY DEF IInv
<1> QED BY Invariance, <1>1, PTL

\* The in-flight counter is exact for any interleaving of submitters and waiters, as long
\* as nobody cancels.
THEOREM InflightTheorem == Spec => []InflightIsExact
<1>1. IInv => InflightIsExact BY DEF IInv
<1> QED BY Invariance, <1>1, PTL

\* A half-open breaker always has its probe on the way, unless that probe was throttled.
THEOREM ProbeTheorem == Spec => []HalfOpenHasAProbe
<1>1. IInv => HalfOpenHasAProbe BY DEF IInv, BreakerInv
<1> QED BY Invariance, <1>1, PTL

\* A result published for a task whose caller waits is found where wait() and the readers
\* of the shared stream look for it, or is known to be dropped.
THEOREM ResultsTheorem == Spec => []ResultsAreAccountedFor
<1>1. ResultInv => ResultsAreAccountedFor
  BY DEF ResultInv, Placed, ResultsAreAccountedFor, Waiting, Ended
<1> QED BY Invariance, <1>1, PTL
=============================================================================
