--------------------------- MODULE DispatchProofs ---------------------------
(***************************************************************************)
(* Proofs about DispatchQueue, for any finite set of tasks, any users and   *)
(* tiers, any limits and any number of limit changes and faults: the        *)
(* counters are exact, the gate loses no wake-up and admits only below its  *)
(* limit, its cap is exceeded by at most one task, and tasks of better      *)
(* tiers are popped first.                                                  *)
(***************************************************************************)
EXTENDS DispatchQueue, FiniteSetTheorems, TLAPS

\* Waiters are distinct and all parked in the gate.
WaitersInv ==
  /\ \A i \in 1..Len(waiters) : at[waiters[i]] = "gate"
  /\ \A i, j \in 1..Len(waiters) : waiters[i] = waiters[j] => i = j

\* Only tasks of the generator ever see the gate.
GateInv == \A t \in Tasks : at[t] \in {"gate", "woken"} => t \in Generated

\* While someone waits, the slots taken and the wake-ups under way make up the limit.
WakeInv == waiters # <<>> => rlInflight + Cardinality(In({"woken"})) >= rlLimit

DInv == TypeOK /\ CountsAreExact /\ WaitersInv /\ GateInv /\ WakeInv

ActiveOf(u) == {t \in In({"active"}) : Uid[t] = u}
ActiveGenerated == In({"active"}) \cap Generated

-----------------------------------------------------------------------------
(* Cardinalities *)

\* Every set of tasks is finite.
LEMMA TasksFinite ==
  ASSUME NEW S \in SUBSET Tasks
  PROVE  IsFiniteSet(S) /\ Cardinality(S) \in Nat
  BY TasksAssumption, FS_Subset, FS_CardinalityType

\* A task that joins a set of tasks adds one to its size.
LEMMA OneMore ==
  ASSUME NEW S \in SUBSET Tasks, NEW t \in Tasks, t \notin S
  PROVE  Cardinality(S \cup {t}) = Cardinality(S) + 1
  BY TasksFinite, FS_AddElement

\* A task that leaves a set of tasks takes one from its size.
LEMMA OneLess ==
  ASSUME NEW S \in SUBSET Tasks, NEW t \in S
  PROVE  Cardinality(S \ {t}) = Cardinality(S) - 1 /\ Cardinality(S) > 0
  <1>1. Cardinality(S \ {t}) = Cardinality(S) - 1
    BY TasksFinite, FS_RemoveElement
  <1>2. Cardinality(S) \in Nat /\ Cardinality(S \ {t}) \in Nat
    BY TasksFinite
  <1>3. QED
    BY <1>1, <1>2

\* The counters stay exact when nobody enters or leaves handle_pipeline_execution.
LEMMA CountsKept ==
  ASSUME CountsAreExact, UNCHANGED <<active, rlInflight>>,
         \A t \in Tasks : at'[t] = "active" <=> at[t] = "active"
  PROVE  CountsAreExact'
  <1>1. In({"active"})' = In({"active"})
    BY DEF In
  <1>2. QED
    BY <1>1 DEF CountsAreExact

\* The counters stay exact when a task is admitted.
LEMMA CountsEnter ==
  ASSUME TypeOK, CountsAreExact, NEW t \in Tasks, at[t] # "active", Admit(t)
  PROVE  CountsAreExact' /\ active' \in [Uids -> Nat] /\ rlInflight' \in Nat
  <1>1. Uid[t] \in Uids
    BY DEF Uids
  <1>2. In({"active"})' = In({"active"}) \cup {t} /\ t \notin In({"active"})
    BY DEF In, Admit, TypeOK
  <1>3. In({"active"}) \subseteq Tasks
    BY DEF In
  <1>4. ASSUME NEW u \in Uids
        PROVE  active'[u] = Cardinality({x \in In({"active"})' : Uid[x] = u})
    <2> DEFINE S == {x \in In({"active"}) : Uid[x] = u}
    <2>1. active[u] = Cardinality(S) /\ S \in SUBSET Tasks /\ t \notin S
      BY <1>2, <1>3 DEF CountsAreExact
    <2>2. CASE u = Uid[t]
      <3>1. {x \in In({"active"})' : Uid[x] = u} = S \cup {t}
        BY <1>2, <2>2
      <3>2. active'[u] = active[u] + 1
        BY <1>1, <2>2 DEF Admit, TypeOK
      <3> HIDE DEF S
      <3>3. QED
        BY <2>1, <3>1, <3>2, OneMore
    <2>3. CASE u # Uid[t]
      <3>1. {x \in In({"active"})' : Uid[x] = u} = S
        BY <1>2, <2>3
      <3>2. active'[u] = active[u]
        BY <1>1, <2>3 DEF Admit, TypeOK
      <3>3. QED
        BY <2>1, <3>1, <3>2
    <2>4. QED
      BY <2>2, <2>3
  <1>5. rlInflight' = Cardinality(In({"active"})' \cap Generated)
    <2> DEFINE S == In({"active"}) \cap Generated
    <2>1. rlInflight = Cardinality(S) /\ S \in SUBSET Tasks /\ t \notin S
      BY <1>2, <1>3 DEF CountsAreExact
    <2>2. CASE t \in Generated
      <3>1. In({"active"})' \cap Generated = S \cup {t} /\ rlInflight' = rlInflight + 1
        BY <1>2, <2>2 DEF Admit
      <3> HIDE DEF S
      <3>2. QED
        BY <2>1, <3>1, OneMore
    <2>3. CASE t \notin Generated
      BY <1>2, <2>1, <2>3 DEF Admit
    <2>4. QED
      BY <2>2, <2>3
  <1>6. active' \in [Uids -> Nat] /\ rlInflight' \in Nat
    BY <1>1 DEF Admit, TypeOK
  <1>7. QED
    BY <1>4, <1>5, <1>6 DEF CountsAreExact

\* The counters stay exact, and do not go below zero, when a task leaves.
LEMMA CountsLeave ==
  ASSUME TypeOK, CountsAreExact, NEW t \in Tasks, at[t] = "active",
         \A u \in Tasks : at'[u] = "active" <=> at[u] = "active" /\ u # t,
         active' = [active EXCEPT ![Uid[t]] = @ - 1],
         rlInflight' = IF t \in Generated /\ rlInflight > 0 THEN rlInflight - 1
                       ELSE rlInflight
  PROVE  /\ CountsAreExact' /\ active' \in [Uids -> Nat] /\ rlInflight' \in Nat
         /\ rlInflight' = IF t \in Generated THEN rlInflight - 1 ELSE rlInflight
  <1>1. Uid[t] \in Uids
    BY DEF Uids
  <1>2. In({"active"})' = In({"active"}) \ {t} /\ t \in In({"active"})
    BY DEF In
  <1>3. In({"active"}) \subseteq Tasks
    BY DEF In
  <1>4. ASSUME NEW u \in Uids
        PROVE  /\ active'[u] = Cardinality({x \in In({"active"})' : Uid[x] = u})
               /\ active'[u] \in Nat
    <2> DEFINE S == {x \in In({"active"}) : Uid[x] = u}
    <2>1. active[u] = Cardinality(S) /\ S \in SUBSET Tasks /\ active[u] \in Nat
      BY <1>3 DEF CountsAreExact, TypeOK
    <2>2. CASE u = Uid[t]
      <3>1. {x \in In({"active"})' : Uid[x] = u} = S \ {t} /\ t \in S
        BY <1>2, <2>2
      <3>2. active'[u] = active[u] - 1
        BY <1>1, <2>2 DEF TypeOK
      <3> HIDE DEF S
      <3>3. Cardinality(S \ {t}) = Cardinality(S) - 1 /\ Cardinality(S) > 0
        BY <2>1, <3>1, OneLess
      <3>4. QED
        <4>1. Cardinality(S) - 1 \in Nat
          BY <2>1, <3>3
        <4>2. QED
          BY <2>1, <3>1, <3>2, <3>3, <4>1
    <2>3. CASE u # Uid[t]
      <3>1. {x \in In({"active"})' : Uid[x] = u} = S
        BY <1>2, <2>3
      <3>2. active'[u] = active[u]
        BY <1>1, <2>3 DEF TypeOK
      <3>3. QED
        BY <2>1, <3>1, <3>2
    <2>4. QED
      BY <2>2, <2>3
  <1>5. /\ rlInflight' = Cardinality(In({"active"})' \cap Generated)
        /\ rlInflight' = IF t \in Generated THEN rlInflight - 1 ELSE rlInflight
        /\ rlInflight' \in Nat
    <2> DEFINE S == In({"active"}) \cap Generated
    <2>1. rlInflight = Cardinality(S) /\ S \in SUBSET Tasks /\ rlInflight \in Nat
      BY <1>3 DEF CountsAreExact, TypeOK
    <2>2. CASE t \in Generated
      <3>1. In({"active"})' \cap Generated = S \ {t} /\ t \in S
        BY <1>2, <2>2
      <3> HIDE DEF S
      <3>2. Cardinality(S \ {t}) = Cardinality(S) - 1 /\ Cardinality(S) > 0
        BY <2>1, <3>1, OneLess
      <3>3. rlInflight' = rlInflight - 1 /\ rlInflight' \in Nat
        BY <2>1, <2>2, <3>2
      <3>4. rlInflight' = Cardinality(In({"active"})' \cap Generated)
        BY <2>1, <3>1, <3>2, <3>3
      <3>5. QED
        BY <2>2, <3>3, <3>4
    <2>3. CASE t \notin Generated
      BY <1>2, <2>1, <2>3
    <2>4. QED
      BY <2>2, <2>3
  <1>6. active' \in [Uids -> Nat]
    BY <1>4 DEF TypeOK
  <1>7. QED
    BY <1>4, <1>5, <1>6 DEF CountsAreExact

\* A woken task that takes its turn leaves one wake-up less under way.
LEMMA WakeFewer ==
  ASSUME TypeOK, NEW t \in Tasks, at[t] = "woken",
         \A u \in Tasks : at'[u] = "woken" <=> at[u] = "woken" /\ u # t
  PROVE  Cardinality(In({"woken"}))' = Cardinality(In({"woken"})) - 1
  <1>1. In({"woken"}) \in SUBSET Tasks /\ t \in In({"woken"})
    BY DEF In
  <1>2. In({"woken"})' = In({"woken"}) \ {t}
    BY DEF In
  <1>3. Cardinality(In({"woken"}) \ {t}) = Cardinality(In({"woken"})) - 1
    BY <1>1, OneLess
  <1>4. QED
    BY <1>2, <1>3

\* The gate's part of the invariant holds when it was not touched.
LEMMA GateKept ==
  ASSUME WaitersInv, GateInv, WakeInv, UNCHANGED <<waiters, rlLimit, rlInflight>>,
         waiters \in Seq(Generated), Generated \subseteq Tasks,
         \A t \in Tasks : at'[t] # at[t] => {at[t], at'[t]} \cap {"gate", "woken"} = {}
  PROVE  WaitersInv' /\ GateInv' /\ WakeInv'
  <1>1. In({"woken"})' = In({"woken"})
    BY DEF In
  <1>2. \A i \in 1..Len(waiters) : waiters[i] \in Tasks
    OBVIOUS
  <1>3. QED
    BY <1>1, <1>2 DEF WaitersInv, GateInv, WakeInv

\* The parts of the invariant that concern the gate survive a task parking in it.
LEMMA GateParks ==
  ASSUME DInv, NEW t \in Tasks, t \in Generated, at[t] # "gate", rlInflight >= rlLimit,
         at' = [at EXCEPT ![t] = "gate"], waiters' = Append(waiters, t),
         UNCHANGED <<rlLimit, rlInflight>>
  PROVE  WaitersInv' /\ GateInv' /\ WakeInv' /\ waiters' \in Seq(Generated)
  <1>1. /\ at \in [Tasks -> Places] /\ waiters \in Seq(Generated)
        /\ rlLimit \in Nat /\ rlInflight \in Nat
    BY DEF DInv, TypeOK
  <1>2. /\ Len(waiters') = Len(waiters) + 1 /\ waiters'[Len(waiters) + 1] = t
        /\ \A i \in 1..Len(waiters) : waiters'[i] = waiters[i]
        /\ waiters' \in Seq(Generated)
    BY <1>1
  <1>3. \A i \in 1..Len(waiters) : waiters[i] # t /\ at'[waiters[i]] = "gate"
    <2>1. \A i \in 1..Len(waiters) : waiters[i] \in Tasks
      BY <1>1, TasksAssumption
    <2>2. QED
      BY <1>1, <2>1 DEF DInv, WaitersInv
  <1>4. WaitersInv'
    <2>1. \A i \in 1..Len(waiters') : i \in 1..Len(waiters) \/ i = Len(waiters) + 1
      BY <1>1, <1>2
    <2>2. at'[t] = "gate"
      BY <1>1
    <2>3. QED
      BY <1>2, <1>3, <2>1, <2>2 DEF DInv, WaitersInv
  <1>5. GateInv'
    BY <1>1 DEF DInv, GateInv
  <1>6. Cardinality(In({"woken"}))' \in Nat
    <2>1. In({"woken"})' \in SUBSET Tasks
      BY DEF In
    <2>2. QED
      BY <2>1, TasksFinite
  <1>7. WakeInv'
    BY <1>1, <1>6 DEF WakeInv
  <1>8. QED
    BY <1>2, <1>4, <1>5, <1>7

\* They survive an admission: the wake-up that is used up becomes a slot taken.
LEMMA GateAdmits ==
  ASSUME DInv, NEW t \in Tasks, at[t] \in {"spawned", "woken"}, Admit(t),
         UNCHANGED <<waiters, rlLimit>>
  PROVE  WaitersInv' /\ GateInv' /\ WakeInv'
  <1>1. /\ at \in [Tasks -> Places] /\ waiters \in Seq(Generated)
        /\ rlLimit \in Nat /\ rlInflight \in Nat
    BY DEF DInv, TypeOK
  <1>2. at' = [at EXCEPT ![t] = "active"]
    BY DEF Admit
  <1>3. WaitersInv'
    <2>1. \A i \in 1..Len(waiters) : waiters[i] \in Tasks /\ at[waiters[i]] = "gate"
      BY <1>1, TasksAssumption DEF DInv, WaitersInv
    <2>2. \A i \in 1..Len(waiters) : at'[waiters[i]] = "gate"
      BY <1>1, <1>2, <2>1
    <2>3. QED
      BY <2>2 DEF DInv, WaitersInv
  <1>4. GateInv'
    BY <1>1, <1>2 DEF DInv, GateInv
  <1>5. Cardinality(In({"woken"})) \in Nat
    <2>1. In({"woken"}) \in SUBSET Tasks
      BY DEF In
    <2>2. QED
      BY <2>1, TasksFinite
  <1>6. CASE at[t] = "woken"
    <2>1. Cardinality(In({"woken"}))' = Cardinality(In({"woken"})) - 1
      BY <1>1, <1>2, <1>6, WakeFewer DEF DInv
    <2>2. rlInflight' = rlInflight + 1
      BY <1>6 DEF DInv, GateInv, Admit
    <2>3. WakeInv'
      BY <1>1, <1>5, <2>1, <2>2 DEF DInv, WakeInv
    <2>4. QED
      BY <1>3, <1>4, <2>3
  <1>7. CASE at[t] = "spawned"
    <2>1. In({"woken"})' = In({"woken"})
      BY <1>1, <1>2, <1>7 DEF In
    <2>2. rlInflight' >= rlInflight /\ rlInflight' \in Nat
      BY <1>1 DEF Admit
    <2>3. WakeInv'
      BY <1>1, <1>5, <2>1, <2>2 DEF DInv, WakeInv
    <2>4. QED
      BY <1>3, <1>4, <2>3
  <1>8. QED
    BY <1>6, <1>7

\* They survive a return from handle_pipeline_execution: the slot given back becomes
\* the wake-up of the oldest waiter.
LEMMA GateLeaves ==
  ASSUME DInv, NEW t \in Tasks, NEW place \in {"executing", "finished"}, Leave(t, place),
         rlInflight' = IF t \in Generated THEN rlInflight - 1 ELSE rlInflight,
         rlInflight' \in Nat
  PROVE  WaitersInv' /\ GateInv' /\ WakeInv' /\ waiters' \in Seq(Generated)
  <1>1. /\ at \in [Tasks -> Places] /\ waiters \in Seq(Generated)
        /\ rlLimit \in Nat /\ rlInflight \in Nat
    BY DEF DInv, TypeOK
  <1>2. at[t] = "active" /\ rlLimit' = rlLimit
    BY DEF Leave
  <1>3. In({"woken"}) \in SUBSET Tasks
    BY DEF In
  <1>4. CASE t \in Generated /\ waiters # <<>>
    <2> DEFINE h == Head(waiters)
    <2>1. /\ h \in Generated /\ h \in Tasks /\ h = waiters[1]
          /\ Len(waiters) >= 1 /\ Len(waiters) \in Nat
      BY <1>1, <1>4, TasksAssumption
    <2>2. at[h] = "gate" /\ h # t
      BY <1>2, <2>1 DEF DInv, WaitersInv
    <2>3. /\ waiters' = Tail(waiters)
          /\ at' = [u \in Tasks |-> IF u = t THEN place
                                    ELSE IF u = h THEN "woken" ELSE at[u]]
      BY <1>4 DEF Leave
    <2>4. /\ Len(waiters') = Len(waiters) - 1 /\ waiters' \in Seq(Generated)
          /\ \A i \in 1..Len(waiters') : waiters'[i] = waiters[i + 1]
      BY <1>1, <1>4, <2>3
    <2> HIDE DEF h
    <2>5. \A i \in 1..Len(waiters') :
            /\ i + 1 \in 1..Len(waiters) /\ i + 1 # 1
            /\ waiters[i + 1] \in Tasks
      BY <1>1, <2>1, <2>4, TasksAssumption
    <2>6. \A i \in 1..Len(waiters') : at'[waiters'[i]] = "gate"
      <3> SUFFICES ASSUME NEW i \in 1..Len(waiters') PROVE at'[waiters'[i]] = "gate"
        OBVIOUS
      <3>1. waiters'[i] \in Tasks /\ at[waiters'[i]] = "gate"
        BY <2>4, <2>5 DEF DInv, WaitersInv
      <3>2. waiters'[i] # h
        BY <2>1, <2>4, <2>5 DEF DInv, WaitersInv
      <3>3. waiters'[i] # t
        BY <1>2, <3>1
      <3>4. QED
        BY <2>3, <3>1, <3>2, <3>3
    <2>7. WaitersInv'
      <3>1. ASSUME NEW i \in 1..Len(waiters'), NEW j \in 1..Len(waiters'),
                   waiters'[i] = waiters'[j]
            PROVE  i = j
        BY <2>1, <2>4, <2>5, <3>1 DEF DInv, WaitersInv
      <3>2. QED
        BY <2>6, <3>1 DEF WaitersInv
    <2>8. GateInv'
      BY <1>1, <2>1, <2>3 DEF DInv, GateInv
    <2>9. Cardinality(In({"woken"}))' = Cardinality(In({"woken"})) + 1
      <3>1. In({"woken"})' = In({"woken"}) \cup {h} /\ h \notin In({"woken"})
        BY <1>1, <1>2, <2>1, <2>2, <2>3 DEF In
      <3>2. Cardinality(In({"woken"}) \cup {h}) = Cardinality(In({"woken"})) + 1
        BY <1>3, <2>1, <3>1, OneMore
      <3>3. QED
        BY <3>1, <3>2
    <2>10. Cardinality(In({"woken"})) \in Nat
      BY <1>3, TasksFinite
    <2>11. WakeInv'
      BY <1>1, <1>2, <1>4, <2>9, <2>10 DEF DInv, WakeInv
    <2>12. QED
      BY <2>4, <2>7, <2>8, <2>11
  <1>5. CASE ~(t \in Generated /\ waiters # <<>>)
    <2>1. waiters' = waiters /\ at' = [u \in Tasks |-> IF u = t THEN place ELSE at[u]]
      BY <1>5 DEF Leave
    <2>2. In({"woken"})' = In({"woken"})
      BY <1>1, <1>2, <2>1 DEF In
    <2>3. WaitersInv'
      <3>1. \A i \in 1..Len(waiters) : waiters[i] \in Tasks /\ at[waiters[i]] = "gate"
        BY <1>1, TasksAssumption DEF DInv, WaitersInv
      <3>2. \A i \in 1..Len(waiters) : at'[waiters[i]] = "gate"
        BY <1>2, <2>1, <3>1
      <3>3. QED
        BY <2>1, <3>2 DEF DInv, WaitersInv
    <2>4. GateInv'
      BY <1>1, <2>1 DEF DInv, GateInv
    <2>5. WakeInv'
      BY <1>2, <1>5, <2>1, <2>2 DEF DInv, WakeInv
    <2>6. QED
      BY <1>1, <2>1, <2>3, <2>4, <2>5
  <1>6. QED
    BY <1>4, <1>5

-----------------------------------------------------------------------------
(* The invariant *)

\* The invariant holds initially.
LEMMA InitInv == Init => DInv
  <1> SUFFICES ASSUME Init PROVE DInv
    OBVIOUS
  <1>1. TypeOK
    <2>1. /\ at \in [Tasks -> Places] /\ stamp \in [Tasks -> 0..MaxClock]
          /\ active \in [Uids -> Nat] /\ now \in 0..MaxClock
      BY BoundsAssumption DEF Init, Places
    <2>2. /\ rlLimit \in Nat /\ rlInflight \in Nat
          /\ resizes \in 0..MaxResizes /\ faults \in 0..MaxFaults
      BY BoundsAssumption DEF Init
    <2>3. waiters = <<>> /\ signal = FALSE /\ bridge = "popping"
      BY DEF Init
    <2>4. waiters \in Seq(Generated) /\ bridge \in {"popping", "sleeping", "waiting"}
      BY <2>3
    <2>5. signal \in BOOLEAN
      BY <2>3
    <2>6. QED
      BY <2>1, <2>2, <2>4, <2>5 DEF TypeOK
  <1>2. CountsAreExact
    <2>1. In({"active"}) = {}
      BY DEF Init, In
    <2>2. \A u \in Uids : {t \in In({"active"}) : Uid[t] = u} = {}
      BY <2>1
    <2>3. In({"active"}) \cap Generated = {} /\ Cardinality({}) = 0
      BY <2>1, FS_EmptySet
    <2>4. QED
      BY <2>2, <2>3 DEF Init, CountsAreExact
  <1>3. WaitersInv /\ GateInv /\ WakeInv
    BY DEF Init, WaitersInv, GateInv, WakeInv
  <1>4. QED
    BY <1>1, <1>2, <1>3 DEF DInv

\* A step that keeps the counters, the waiters and everybody's place in the gate and
\* in execution preserves the invariant when it preserves the types.
LEMMA QuietStep ==
  ASSUME DInv, TypeOK', UNCHANGED <<active, rlLimit, rlInflight, waiters>>,
         \A t \in Tasks : at'[t] # at[t] =>
           {at[t], at'[t]} \cap {"gate", "woken", "active"} = {}
  PROVE  DInv'
  <1>1. CountsAreExact'
    <2>1. \A t \in Tasks : at'[t] = "active" <=> at[t] = "active"
      OBVIOUS
    <2>2. QED
      BY <2>1, CountsKept DEF DInv
  <1>2. WaitersInv' /\ GateInv' /\ WakeInv'
    BY GateKept, TasksAssumption DEF DInv, TypeOK
  <1>3. QED
    BY <1>1, <1>2 DEF DInv

\* The gate's turn of a coroutine, at its start or after a wake-up.
LEMMA GateTurn ==
  ASSUME DInv, NEW t \in Tasks, at[t] \in {"spawned", "woken"},
         \/ /\ t \in Generated /\ rlInflight >= rlLimit
            /\ at' = [at EXCEPT ![t] = "gate"] /\ waiters' = Append(waiters, t)
            /\ UNCHANGED <<active, rlInflight>>
         \/ Admit(t) /\ UNCHANGED waiters,
         UNCHANGED <<now, stamp, rlLimit, bridge, signal, resizes, faults>>
  PROVE  DInv'
  <1>1. TypeOK /\ CountsAreExact
    BY DEF DInv
  <1>2. CASE /\ t \in Generated /\ rlInflight >= rlLimit
             /\ at' = [at EXCEPT ![t] = "gate"] /\ waiters' = Append(waiters, t)
             /\ UNCHANGED <<active, rlInflight>>
    <2>1. WaitersInv' /\ GateInv' /\ WakeInv' /\ waiters' \in Seq(Generated)
      BY <1>2, GateParks
    <2>2. TypeOK'
      BY <1>1, <1>2, <2>1 DEF TypeOK, Places
    <2>3. \A u \in Tasks : at'[u] = "active" <=> at[u] = "active"
      BY <1>1, <1>2 DEF TypeOK
    <2>4. CountsAreExact'
      BY <1>1, <1>2, <2>3, CountsKept
    <2>5. QED
      BY <2>1, <2>2, <2>4 DEF DInv
  <1>3. CASE Admit(t) /\ UNCHANGED waiters
    <2>1. WaitersInv' /\ GateInv' /\ WakeInv'
      BY <1>3, GateAdmits
    <2>2. CountsAreExact' /\ active' \in [Uids -> Nat] /\ rlInflight' \in Nat
      BY <1>1, <1>3, CountsEnter
    <2>3. TypeOK'
      BY <1>1, <1>3, <2>2 DEF TypeOK, Places, Admit
    <2>4. QED
      BY <2>1, <2>2, <2>3 DEF DInv
  <1>4. QED
    BY <1>2, <1>3

\* Leaving handle_pipeline_execution preserves the invariant.
LEMMA LeaveInv ==
  ASSUME DInv, NEW t \in Tasks, NEW place \in {"executing", "finished"}, Leave(t, place)
  PROVE  DInv'
  <1>1. TypeOK /\ CountsAreExact /\ WaitersInv
    BY DEF DInv
  <1>2. \A u \in Tasks : at'[u] = "active" <=> at[u] = "active" /\ u # t
    <2>1. waiters # <<>> => at[Head(waiters)] = "gate"
      BY <1>1 DEF TypeOK, WaitersInv
    <2>2. \A u \in Tasks : \/ u = t /\ at'[u] = place
                           \/ u # t /\ at'[u] = at[u]
                           \/ u # t /\ at'[u] = "woken" /\ at[u] = "gate"
      <3>1. CASE t \in Generated /\ waiters # <<>>
        <4>1. at' = [u \in Tasks |-> IF u = t THEN place
                                    ELSE IF u = Head(waiters) THEN "woken" ELSE at[u]]
          BY <3>1 DEF Leave
        <4>2. QED
          BY <2>1, <3>1, <4>1
      <3>2. CASE ~(t \in Generated /\ waiters # <<>>)
        <4>1. at' = [u \in Tasks |-> IF u = t THEN place ELSE at[u]]
          BY <3>2 DEF Leave
        <4>2. QED
          BY <4>1
      <3>3. QED
        BY <3>1, <3>2
    <2>3. at[t] = "active"
      BY DEF Leave
    <2>4. QED
      BY <2>2, <2>3
  <1>3. /\ CountsAreExact' /\ active' \in [Uids -> Nat] /\ rlInflight' \in Nat
        /\ rlInflight' = IF t \in Generated THEN rlInflight - 1 ELSE rlInflight
    BY <1>1, <1>2, CountsLeave DEF Leave
  <1>4. WaitersInv' /\ GateInv' /\ WakeInv' /\ waiters' \in Seq(Generated)
    BY <1>3, GateLeaves
  <1>5. at' \in [Tasks -> Places]
    BY <1>1 DEF Leave, TypeOK, Places
  <1>6. TypeOK'
    BY <1>1, <1>3, <1>4, <1>5 DEF Leave, TypeOK
  <1>7. QED
    BY <1>3, <1>4, <1>6 DEF DInv

\* The invariant is preserved by every step.
LEMMA StepInv == DInv /\ [Next]_vars => DInv'
  <1> SUFFICES ASSUME DInv, [Next]_vars PROVE DInv'
    OBVIOUS
  <1>0. TypeOK
    BY DEF DInv
  <1>1. CASE Tick
    <2>1. TypeOK'
      BY <1>0, <1>1, BoundsAssumption DEF Tick, TypeOK
    <2>2. QED
      BY <1>1, <2>1, QuietStep DEF Tick
  <1>2. ASSUME NEW t \in Tasks, ScoreTask(t) PROVE DInv'
    <2>1. TypeOK'
      BY <1>0, <1>2 DEF ScoreTask, TypeOK, Places
    <2>2. QED
      BY <1>0, <1>2, <2>1, QuietStep DEF ScoreTask, TypeOK
  <1>3. ASSUME NEW t \in Tasks, Enqueue(t) PROVE DInv'
    <2>1. TypeOK'
      BY <1>0, <1>3 DEF Enqueue, TypeOK, Places
    <2>2. QED
      BY <1>0, <1>3, <2>1, QuietStep DEF Enqueue, TypeOK
  <1>4. ASSUME NEW t \in Tasks, PopTask(t) PROVE DInv'
    <2>1. at[t] = "queued"
      BY <1>4 DEF PopTask, Lowest, In
    <2>2. TypeOK'
      BY <1>0, <1>4, BoundsAssumption DEF PopTask, TypeOK, Places, NextBridge
    <2>3. QED
      BY <1>0, <1>4, <2>1, <2>2, QuietStep DEF PopTask, TypeOK
  <1>5. CASE PopNothing
    <2>1. TypeOK'
      BY <1>0, <1>5 DEF PopNothing, TypeOK
    <2>2. QED
      BY <1>5, <2>1, QuietStep DEF PopNothing
  <1>6. CASE WakeFromSleep
    <2>1. TypeOK'
      BY <1>0, <1>6 DEF WakeFromSleep, TypeOK, NextBridge
    <2>2. QED
      BY <1>6, <2>1, QuietStep DEF WakeFromSleep
  <1>7. CASE WakeFromWait
    <2>1. TypeOK'
      BY <1>0, <1>7 DEF WakeFromWait, TypeOK, NextBridge
    <2>2. QED
      BY <1>7, <2>1, QuietStep DEF WakeFromWait
  <1>8. ASSUME NEW t \in Tasks, StartTask(t) PROVE DInv'
    BY <1>8, GateTurn DEF StartTask
  <1>9. ASSUME NEW t \in Tasks, RecheckGate(t) PROVE DInv'
    <2>1. t \in Generated
      BY <1>9 DEF RecheckGate, DInv, GateInv
    <2>2. QED
      BY <1>9, <2>1, GateTurn DEF RecheckGate
  <1>10. ASSUME NEW t \in Tasks, LaunchTask(t) \/ RejectTask(t) PROVE DInv'
    BY <1>10, LeaveInv DEF LaunchTask, RejectTask
  <1>11. ASSUME NEW t \in Tasks, FinishRun(t) PROVE DInv'
    <2>1. TypeOK'
      BY <1>0, <1>11 DEF FinishRun, TypeOK, Places
    <2>2. QED
      BY <1>0, <1>11, <2>1, QuietStep DEF FinishRun, TypeOK
  <1>12. ASSUME NEW n \in 0..MaxLimit, SetRLConcurrency(n) PROVE DInv'
    <2>1. TypeOK'
      BY <1>0, <1>12, BoundsAssumption DEF SetRLConcurrency, TypeOK, Places
    <2>2. \A t \in Tasks : at'[t] = "active" <=> at[t] = "active"
      BY <1>12 DEF SetRLConcurrency
    <2>3. CountsAreExact'
      BY <1>12, <2>2, CountsKept DEF SetRLConcurrency, DInv
    <2>4. WaitersInv' /\ WakeInv'
      BY <1>12 DEF SetRLConcurrency, WaitersInv, WakeInv
    <2>5. GateInv'
      BY <1>12 DEF SetRLConcurrency, DInv, GateInv
    <2>6. QED
      BY <2>1, <2>3, <2>4, <2>5 DEF DInv
  <1>13. CASE BridgeError
    <2>1. \A t \in Lowest : t \in Tasks /\ at[t] = "queued"
      BY DEF Lowest, In
    <2>2. TypeOK'
      BY <1>0, <1>13, <2>1, BoundsAssumption DEF BridgeError, TypeOK, Places
    <2>3. \A t \in Tasks : at'[t] # at[t] =>
            {at[t], at'[t]} \cap {"gate", "woken", "active"} = {}
      BY <1>0, <1>13, <2>1 DEF BridgeError, TypeOK
    <2>4. QED
      BY <1>13, <2>2, <2>3, QuietStep DEF BridgeError
  <1>14. CASE Crash
    <2>1. TypeOK'
      <3>1. /\ at' \in [Tasks -> Places] /\ stamp' \in [Tasks -> 0..MaxClock]
            /\ active' \in [Uids -> Nat] /\ now' \in 0..MaxClock
        BY <1>0, <1>14, BoundsAssumption DEF Crash, TypeOK, Places
      <3>2. /\ rlLimit' \in Nat /\ rlInflight' \in Nat
            /\ resizes' \in 0..MaxResizes /\ faults' \in 0..MaxFaults
        BY <1>0, <1>14, BoundsAssumption DEF Crash, TypeOK
      <3>3. waiters' = <<>> /\ signal' = FALSE /\ bridge' = "popping"
        BY <1>14 DEF Crash
      <3>4. waiters' \in Seq(Generated) /\ bridge' \in {"popping", "sleeping", "waiting"}
        BY <3>3
      <3>5. signal' \in BOOLEAN
        BY <3>3
      <3>6. QED
        BY <3>1, <3>2, <3>4, <3>5 DEF TypeOK
    <2>2. In({"active"})' = {}
      BY <1>14 DEF Crash, In, InMemory
    <2>3. CountsAreExact'
      <3>1. \A u \in Uids : {t \in In({"active"})' : Uid[t] = u} = {}
        BY <2>2
      <3>2. In({"active"})' \cap Generated = {} /\ Cardinality({}) = 0
        BY <2>2, FS_EmptySet
      <3>3. QED
        BY <1>14, <3>1, <3>2 DEF Crash, CountsAreExact
    <2>4. WaitersInv' /\ GateInv' /\ WakeInv'
      BY <1>14 DEF Crash, InMemory, WaitersInv, GateInv, WakeInv
    <2>5. QED
      BY <2>1, <2>3, <2>4 DEF DInv
  <1>15. CASE UNCHANGED vars
    <2>1. TypeOK'
      BY <1>0, <1>15 DEF vars, TypeOK
    <2>2. QED
      BY <1>15, <2>1, QuietStep DEF vars
  <1>16. QED
    BY <1>1, <1>2, <1>3, <1>4, <1>5, <1>6, <1>7, <1>8, <1>9, <1>10, <1>11, <1>12, <1>13,
       <1>14, <1>15 DEF Next, Bridge, Coroutine

\* The invariant holds throughout every behaviour.
THEOREM Invariance == Spec => []DInv
  BY InitInv, StepInv, PTL DEF Spec

\* The type invariant, whose part that no counter goes below zero rests on the counters
\* being exact.
THEOREM TypeTheorem == Spec => []TypeOK
  <1>1. DInv => TypeOK
    BY DEF DInv
  <1>2. QED
    BY Invariance, <1>1, PTL

\* _active_runs and the gate's count of slots are exact in every state, across
\* rejections, limit changes and restarts (_run_safely).
THEOREM CountsTheorem == Spec => []CountsAreExact
  <1>1. DInv => CountsAreExact
    BY DEF DInv
  <1>2. QED
    BY Invariance, <1>1, PTL

\* Nobody waits in the gate beside a free slot without a wake-up under way
\* (_RLGate.__aexit__, set_rl_concurrency).
THEOREM WakeupTheorem == Spec => []NoLostWakeup
  <1>1. ASSUME DInv PROVE NoLostWakeup
    <2>1. rlLimit \in Nat /\ rlInflight \in Nat
      BY <1>1 DEF DInv, TypeOK
    <2>2. In({"woken"}) = {} => Cardinality(In({"woken"})) = 0
      BY FS_EmptySet
    <2>3. QED
      BY <1>1, <2>1, <2>2 DEF DInv, WakeInv, NoLostWakeup
  <1>2. QED
    BY Invariance, <1>1, PTL

\* The number of generated tasks inside the gate, counted by where they are and not by
\* rlInflight, never grows unless it is below the limit of that moment, whatever changes of
\* the limit, re-checks, rejections and crashes preceded (_RLGate).
THEOREM GateTheorem == Spec => GateBoundsInside
  <1>1. DInv /\ [Next]_vars => [Inside' > Inside => Inside < rlLimit]_vars
    <2> SUFFICES ASSUME DInv, Next, Inside' > Inside
                 PROVE  Inside < rlLimit
      BY DEF vars
    <2>1. /\ at \in [Tasks -> Places] /\ rlLimit \in Nat /\ rlInflight \in Nat
          /\ rlInflight = Inside
      BY DEF DInv, TypeOK, CountsAreExact, Inside
    <2>2. PICK t \in Generated : t \in Tasks /\ at[t] # "active" /\ at'[t] = "active"
      <3>1. SUFFICES ASSUME ActiveGenerated' \subseteq ActiveGenerated PROVE FALSE
        BY TasksAssumption DEF ActiveGenerated, In
      <3>2. ActiveGenerated \subseteq Tasks
        BY DEF ActiveGenerated, In
      <3>3. /\ Cardinality(ActiveGenerated') <= Cardinality(ActiveGenerated)
            /\ Cardinality(ActiveGenerated') \in Nat /\ Cardinality(ActiveGenerated) \in Nat
        BY <3>1, <3>2, TasksFinite, FS_Subset
      <3>4. QED
        BY <3>3 DEF ActiveGenerated, Inside
    <2>3. PICK u \in Tasks : StartTask(u) \/ RecheckGate(u)
      BY <2>1, <2>2 DEF Next, vars, Tick, Bridge, PopTask, PopNothing, WakeFromSleep,
         WakeFromWait, BridgeError, Crash, ScoreTask, Enqueue, Coroutine, LaunchTask,
         RejectTask, Leave, FinishRun, SetRLConcurrency
    <2>4. at' = [at EXCEPT ![u] = "active"] \/ at' = [at EXCEPT ![u] = "gate"]
      BY <2>3 DEF StartTask, RecheckGate, Admit
    <2>5. t = u
      BY <2>1, <2>2, <2>4
    <2>6. ~(rlInflight >= rlLimit)
      BY <2>1, <2>2, <2>3, <2>5 DEF StartTask, RecheckGate
    <2>7. QED
      BY <2>1, <2>6
  <1>2. QED
    BY <1>1, Invariance, PTL DEF Spec, GateBoundsInside

\* The tiebreaker is a part of a day, so it is smaller than the gap between two tiers.
LEMMA ScoreInTier ==
  ASSUME TypeOK, NEW t \in Tasks
  PROVE  /\ TierPriority(Tier[t]) \in Int
         /\ \E frac \in 0..(Day - 1) : Score(t) = TierPriority(Tier[t]) * Day + frac
  <1>1. Day \in Nat \ {0} /\ MaxClock \in Nat
    BY BoundsAssumption
  <1>2. stamp[t] % Day \in 0..(Day - 1)
    BY <1>1 DEF TypeOK
  <1>3. TierPriority(Tier[t]) \in Int
    BY TierAssumption DEF TierPriority, UserTiers, WorkTiers
  <1>4. 0 \in 0..(Day - 1)
    BY <1>1
  <1>5. QED
    BY <1>2, <1>3, <1>4 DEF Score

\* Of two numbers of whole days and a fraction each, the smaller has no more days.
LEMMA DaysDecide ==
  ASSUME NEW a \in Int, NEW b \in Int, NEW d \in Nat \ {0},
         NEW x \in 0..(d - 1), NEW y \in 0..(d - 1), a * d + x <= b * d + y
  PROVE  a <= b
  <1> SUFFICES ASSUME a >= b + 1 PROVE FALSE
    OBVIOUS
  <1>1. a * d >= (b + 1) * d
    OBVIOUS
  <1>2. (b + 1) * d = b * d + d
    OBVIOUS
  <1>3. a * d \in Int /\ b * d \in Int
    OBVIOUS
  <1>4. QED
    BY <1>1, <1>2, <1>3

\* A task is popped only when no queued task has a better tier (drain_queue).
THEOREM TierTheorem == Spec => BetterTierFirst
  <1> DEFINE Best ==
        \A t, u \in Tasks :
          at[t] = "queued" /\ at'[t] = "spawned" /\ at[u] = "queued"
            => TierPriority(Tier[t]) <= TierPriority(Tier[u])
  <1>1. DInv /\ [Next]_vars => [Best]_vars
    <2> SUFFICES ASSUME DInv, Next, NEW t \in Tasks, NEW u \in Tasks,
                        at[t] = "queued", at'[t] = "spawned", at[u] = "queued"
                 PROVE  TierPriority(Tier[t]) <= TierPriority(Tier[u])
      BY DEF vars
    <2>1. TypeOK
      BY DEF DInv
    <2>2. PICK v \in Tasks : PopTask(v)
      BY <2>1 DEF Next, vars, Tick, Bridge, PopNothing, WakeFromSleep,
         WakeFromWait, BridgeError, Crash, ScoreTask, Enqueue, Coroutine, StartTask,
         RecheckGate, Admit, LaunchTask, RejectTask, Leave, FinishRun,
         SetRLConcurrency, TypeOK
    <2>3. t = v
      BY <2>1, <2>2 DEF PopTask, TypeOK
    <2>4. Score(t) <= Score(u)
      BY <2>2, <2>3 DEF PopTask, Lowest, In
    <2>5. PICK x \in 0..(Day - 1) : Score(t) = TierPriority(Tier[t]) * Day + x
      BY <2>1, ScoreInTier
    <2>6. PICK y \in 0..(Day - 1) : Score(u) = TierPriority(Tier[u]) * Day + y
      BY <2>1, ScoreInTier
    <2>7. /\ TierPriority(Tier[t]) \in Int /\ TierPriority(Tier[u]) \in Int
          /\ Day \in Nat \ {0}
      BY <2>1, ScoreInTier, BoundsAssumption
    <2>8. QED
      BY <2>4, <2>5, <2>6, <2>7, DaysDecide
  <1>2. QED
    BY <1>1, Invariance, PTL DEF Spec, BetterTierFirst

-----------------------------------------------------------------------------
(* What the bridge reads of _active_runs. SumActive is a fold over the       *)
(* users; it is the number of tasks active. The argument is by a least       *)
(* counterexample twice: first that the fold is defined by its recursive     *)
(* equation, then what it computes.                                          *)

\* A set of numbers has a least one.
LEMMA LeastNumber ==
  ASSUME NEW S \in SUBSET Nat, S # {}
  PROVE  \E n \in S : \A m \in S : n <= m
  <1>1. PICK n \in S : \A m \in S : ~(<<m, n>> \in OpToRel(<, Nat))
    BY WFMin, NatLessThanWellFounded
  <1>2. \A m \in S : ~(m < n)
    BY <1>1 DEF OpToRel
  <1>3. QED
    BY <1>2

\* The users are finitely many.
LEMMA UidsFinite == IsFiniteSet(Uids)
  <1> DEFINE f == [t \in Tasks |-> Uid[t]]
  <1>1. f \in Surjection(Tasks, Uids)
    BY DEF Uids, Surjection
  <1>2. QED
    BY <1>1, TasksAssumption, FS_Surjection

\* One step of the fold over the users of s, when g has the sums of the smaller sets.
Sum1(g, s) == IF s = {} THEN 0
              ELSE LET u == CHOOSE u \in s : TRUE IN active[u] + g[s \ {u}]

IsSum(g, U) == g = [s \in SUBSET U |-> Sum1(g, s)]

SmallSets(n) == {s \in SUBSET Uids : Cardinality(s) <= n}

IsSmallSum(h, n) == \A s \in SmallSets(n) : h[s] = Sum1(h, s)

\* A set of users without the one chosen is smaller by one.
LEMMA OneUserLess ==
  ASSUME NEW s \in SUBSET Uids, s # {}
  PROVE  LET u == CHOOSE u \in s : TRUE
         IN  /\ u \in s /\ u \in Uids /\ s \ {u} \in SUBSET Uids
             /\ Cardinality(s) \in Nat /\ Cardinality(s \ {u}) = Cardinality(s) - 1
             /\ Cardinality(s) > 0
  <1> DEFINE u == CHOOSE u \in s : TRUE
  <1>1. u \in s
    OBVIOUS
  <1> HIDE DEF u
  <1>2. IsFiniteSet(s) /\ Cardinality(s) \in Nat
    BY UidsFinite, FS_Subset, FS_CardinalityType
  <1>3. Cardinality(s \ {u}) = Cardinality(s) - 1
    BY <1>1, <1>2, FS_RemoveElement
  <1>4. Cardinality(s) # 0
    BY <1>1, <1>2, FS_EmptySet
  <1>5. QED
    BY <1>1, <1>2, <1>3, <1>4 DEF u

\* Sums exist for the sets of at most n users, for every n.
LEMMA SmallSumsExist ==
  ASSUME active \in [Uids -> Nat]
  PROVE  \A n \in Nat : \E h \in [SmallSets(n) -> Nat] : IsSmallSum(h, n)
  <1> DEFINE Bad == {n \in Nat : ~\E h \in [SmallSets(n) -> Nat] : IsSmallSum(h, n)}
  <1> SUFFICES ASSUME Bad # {} PROVE FALSE
    OBVIOUS
  <1>1. PICK n \in Bad : \A m \in Bad : n <= m
    <2>1. Bad \in SUBSET Nat
      OBVIOUS
    <2> HIDE DEF Bad
    <2>2. QED
      BY <2>1, LeastNumber
  <1>2. n \in Nat
    OBVIOUS
  <1>3. CASE n = 0
    <2> DEFINE h == [s \in SmallSets(0) |-> 0]
    <2>1. \A s \in SmallSets(0) : s = {}
      <3> SUFFICES ASSUME NEW s \in SmallSets(0), s # {} PROVE FALSE
        OBVIOUS
      <3>1. s \in SUBSET Uids /\ Cardinality(s) <= 0
        BY DEF SmallSets
      <3>2. Cardinality(s) \in Nat /\ Cardinality(s) > 0
        BY <3>1, OneUserLess
      <3>3. QED
        BY <3>1, <3>2
    <2>2. h \in [SmallSets(0) -> Nat]
      OBVIOUS
    <2>3. IsSmallSum(h, 0)
      BY <2>1 DEF IsSmallSum, Sum1
    <2>4. QED
      BY <1>3, <2>2, <2>3
  <1>4. CASE n # 0
    <2>1. n - 1 \in Nat /\ n - 1 \notin Bad
      BY <1>1, <1>2, <1>4
    <2>2. PICK g \in [SmallSets(n - 1) -> Nat] : IsSmallSum(g, n - 1)
      BY <2>1
    <2> DEFINE h == [s \in SmallSets(n) |-> Sum1(g, s)]
    <2>3. ASSUME NEW s \in SmallSets(n), s # {}
          PROVE  LET u == CHOOSE u \in s : TRUE
                 IN  u \in Uids /\ s \ {u} \in SmallSets(n - 1) /\ s \ {u} \in SmallSets(n)
      BY <1>2, <2>3, OneUserLess DEF SmallSets
    <2>4. h \in [SmallSets(n) -> Nat]
      BY <2>3 DEF Sum1
    <2>5. \A s \in SmallSets(n - 1) : s \in SmallSets(n) /\ h[s] = g[s]
      <3> SUFFICES ASSUME NEW s \in SmallSets(n - 1)
                   PROVE  s \in SmallSets(n) /\ h[s] = g[s]
        OBVIOUS
      <3>1. Cardinality(s) \in Nat /\ s \in SUBSET Uids
        BY UidsFinite, FS_Subset, FS_CardinalityType DEF SmallSets
      <3>2. s \in SmallSets(n)
        BY <1>2, <3>1 DEF SmallSets
      <3>3. QED
        BY <2>2, <3>2 DEF IsSmallSum
    <2>6. ASSUME NEW s \in SmallSets(n) PROVE h[s] = Sum1(h, s)
      <3>1. h[s] = Sum1(g, s)
        OBVIOUS
      <3>2. CASE s = {}
        BY <3>1, <3>2 DEF Sum1
      <3>3. CASE s # {}
        <4> DEFINE u == CHOOSE u \in s : TRUE
        <4>1. s \ {u} \in SmallSets(n - 1)
          BY <2>3, <3>3
        <4>2. h[s \ {u}] = g[s \ {u}]
          BY <2>5, <4>1
        <4> HIDE DEF h
        <4>3. QED
          BY <3>1, <3>3, <4>2 DEF Sum1
      <3>4. QED
        BY <3>2, <3>3
    <2>7. IsSmallSum(h, n)
      BY <2>6 DEF IsSmallSum
    <2>8. QED
      BY <2>4, <2>7
  <1>5. QED
    BY <1>3, <1>4

\* The fold obeys its recursive equation.
LEMMA SumUnfolds ==
  ASSUME active \in [Uids -> Nat]
  PROVE  \E g : IsSum(g, Uids) /\ SumActive = g[Uids]
  <1> DEFINE n == Cardinality(Uids)
             g == CHOOSE g : IsSum(g, Uids)
  <1>1. n \in Nat
    BY UidsFinite, FS_CardinalityType
  <1>2. SmallSets(n) = SUBSET Uids
    BY UidsFinite, FS_Subset DEF SmallSets
  <1>3. PICK h \in [SmallSets(n) -> Nat] : IsSmallSum(h, n)
    BY <1>1, SmallSumsExist
  <1>4. IsSum(h, Uids)
    BY <1>2, <1>3 DEF IsSum, IsSmallSum
  <1>5. IsSum(g, Uids)
    BY <1>4
  <1>6. SumActive = (CHOOSE k : IsSum(k, DOMAIN active))[DOMAIN active]
    BY DEF SumActive, FoldFunction, FoldFunctionOnSet, MapThenFoldSet, IsSum, Sum1
  <1>7. QED
    BY <1>5, <1>6

\* The tasks active of the users of s.
ActiveIn(s) == {t \in In({"active"}) : Uid[t] \in s}

\* What the bridge compares with the cap is the number of tasks active.
LEMMA SumIsCount ==
  ASSUME TypeOK, CountsAreExact
  PROVE  SumActive = Cardinality(In({"active"}))
  <1>1. active \in [Uids -> Nat]
    BY DEF TypeOK
  <1>2. PICK g : IsSum(g, Uids) /\ SumActive = g[Uids]
    BY <1>1, SumUnfolds
  <1>3. \A s \in SUBSET Uids : g[s] = Sum1(g, s)
    BY <1>2 DEF IsSum
  <1> DEFINE Bad == {n \in Nat : \E s \in SUBSET Uids : /\ Cardinality(s) = n
                                                       /\ g[s] # Cardinality(ActiveIn(s))}
  <1>4. Bad = {}
    <2> SUFFICES ASSUME Bad # {} PROVE FALSE
      OBVIOUS
    <2>1. PICK n \in Bad : \A m \in Bad : n <= m
      <3>1. Bad \in SUBSET Nat
        OBVIOUS
      <3> HIDE DEF Bad
      <3>2. QED
        BY <3>1, LeastNumber
    <2>2. PICK s \in SUBSET Uids : Cardinality(s) = n /\ g[s] # Cardinality(ActiveIn(s))
      OBVIOUS
    <2>3. s # {}
      <3> SUFFICES ASSUME s = {} PROVE FALSE
        OBVIOUS
      <3>1. ActiveIn(s) = {} /\ g[s] = 0
        BY <1>3 DEF ActiveIn, Sum1
      <3>2. QED
        BY <2>2, <3>1, FS_EmptySet
    <2> DEFINE u == CHOOSE u \in s : TRUE
               r == s \ {u}
    <2>4. /\ u \in s /\ u \in Uids /\ r \in SUBSET Uids
          /\ Cardinality(s) \in Nat /\ Cardinality(r) = Cardinality(s) - 1
          /\ Cardinality(s) > 0
      BY <2>3, OneUserLess
    <2>5. g[s] = active[u] + g[r]
      BY <1>3, <2>3 DEF Sum1
    <2> HIDE DEF u
    <2>6. g[r] = Cardinality(ActiveIn(r))
      <3>1. Cardinality(r) \in Nat /\ Cardinality(r) < n
        BY <2>2, <2>4
      <3>2. Cardinality(r) \notin Bad
        <4>1. n \in Nat
          OBVIOUS
        <4> HIDE DEF Bad, r
        <4>2. QED
          BY <2>1, <3>1, <4>1
      <3>3. QED
        BY <2>4, <3>1, <3>2
    <2>7. active[u] = Cardinality(ActiveIn({u}))
      <3>1. ActiveIn({u}) = {t \in In({"active"}) : Uid[t] = u}
        BY DEF ActiveIn
      <3>2. QED
        BY <2>4, <3>1 DEF CountsAreExact
    <2>8. /\ ActiveIn(s) = ActiveIn(r) \cup ActiveIn({u})
          /\ ActiveIn(r) \cap ActiveIn({u}) = {}
          /\ ActiveIn(r) \in SUBSET Tasks /\ ActiveIn({u}) \in SUBSET Tasks
      BY <2>4 DEF ActiveIn, In
    <2>9. Cardinality(ActiveIn(s)) = Cardinality(ActiveIn(r)) + Cardinality(ActiveIn({u}))
      <3>1. /\ IsFiniteSet(ActiveIn(r)) /\ Cardinality(ActiveIn(r)) \in Nat
            /\ IsFiniteSet(ActiveIn({u})) /\ Cardinality(ActiveIn({u})) \in Nat
        BY <2>8, TasksFinite
      <3>2. Cardinality(ActiveIn(r) \cap ActiveIn({u})) = 0
        BY <2>8, FS_EmptySet
      <3> DEFINE S == ActiveIn(r)
                 T == ActiveIn({u})
      <3>3. /\ IsFiniteSet(S) /\ IsFiniteSet(T) /\ Cardinality(S \cap T) = 0
            /\ Cardinality(S) \in Nat /\ Cardinality(T) \in Nat
        BY <3>1, <3>2
      <3> HIDE DEF S, T
      <3>4. Cardinality(S \cup T) = Cardinality(S) + Cardinality(T)
        <4>1. Cardinality(S \cup T)
                = Cardinality(S) + Cardinality(T) - Cardinality(S \cap T)
          BY <3>3, FS_Union
        <4>2. QED
          BY <3>3, <4>1
      <3>5. QED
        BY <2>8, <3>4 DEF S, T
    <2>10. QED
      <3>1. Cardinality(ActiveIn(r)) \in Nat /\ Cardinality(ActiveIn({u})) \in Nat
        BY <2>8, TasksFinite
      <3>2. QED
        BY <2>2, <2>5, <2>6, <2>7, <2>9, <3>1
  <1>5. g[Uids] = Cardinality(ActiveIn(Uids))
    <2>1. Cardinality(Uids) \in Nat
      BY UidsFinite, FS_CardinalityType
    <2>2. Cardinality(Uids) \notin Bad
      BY <1>4
    <2>3. QED
      BY <2>1, <2>2
  <1>6. ActiveIn(Uids) = In({"active"})
    BY DEF ActiveIn, In, Uids
  <1>7. QED
    BY <1>2, <1>5, <1>6

-----------------------------------------------------------------------------
(* The cap of the bridge *)

\* Tasks no gate holds back that are counted, or about to count themselves.
Ungated == In({"spawned", "active"}) \ Generated

\* The bridge goes to sleep as soon as it may have created one task too many.
CapInv ==
  Cardinality(Ungated) <= IF bridge = "sleeping" THEN DispatchCap + 1 ELSE DispatchCap

\* No step but a pop adds to the tasks the cap is about.
LEMMA CapKept ==
  ASSUME CapInv, Ungated' \subseteq Ungated, bridge = "sleeping" => bridge' = "sleeping"
  PROVE  CapInv'
  <1>1. Ungated \in SUBSET Tasks
    BY DEF Ungated, In
  <1>2. IsFiniteSet(Ungated) /\ Cardinality(Ungated) \in Nat
    BY <1>1, TasksFinite
  <1> DEFINE S == Ungated
             T == Ungated'
  <1>3. T \in SUBSET S /\ IsFiniteSet(S) /\ Cardinality(S) \in Nat
    BY <1>2
  <1>4. IsFiniteSet(T)
    BY <1>3, FS_Subset
  <1> HIDE DEF S, T
  <1>5. Cardinality(T) <= Cardinality(S) /\ Cardinality(T) \in Nat
    BY <1>3, <1>4, FS_Subset, FS_CardinalityType
  <1>6. DispatchCap \in Nat
    BY BoundsAssumption
  <1>7. Cardinality(Ungated') <= Cardinality(Ungated) /\ Cardinality(Ungated') \in Nat
    BY <1>5 DEF S, T
  <1>8. QED
    BY <1>2, <1>6, <1>7 DEF CapInv

\* The ungated tasks that run are among those the bridge counts.
LEMMA BelowCap ==
  ASSUME TypeOK, CountsAreExact, In({"spawned"}) = {}, SumActive < DispatchCap
  PROVE  Cardinality(Ungated) < DispatchCap /\ Cardinality(Ungated) \in Nat
  <1>1. Ungated \in SUBSET In({"active"}) /\ In({"active"}) \in SUBSET Tasks
    BY DEF Ungated, In
  <1>2. IsFiniteSet(In({"active"})) /\ Cardinality(In({"active"})) \in Nat
    BY <1>1, TasksFinite
  <1>3. Cardinality(Ungated) <= Cardinality(In({"active"})) /\ Cardinality(Ungated) \in Nat
    BY <1>1, <1>2, FS_Subset, FS_CardinalityType
  <1>4. SumActive = Cardinality(In({"active"}))
    BY SumIsCount
  <1>5. QED
    BY <1>2, <1>3, <1>4, BoundsAssumption

\* A pop: the cap is tested after it on what the tasks before it have counted.
LEMMA CapPop ==
  ASSUME TypeOK, CountsAreExact, CapInv, NEW t \in Tasks, PopTask(t)
  PROVE  CapInv'
  <1>1. /\ bridge = "popping" /\ In({"spawned"}) = {}
        /\ at' = [at EXCEPT ![t] = "spawned"] /\ bridge' = NextBridge
    BY DEF PopTask
  <1>2. Ungated \in SUBSET Tasks /\ Ungated' \in SUBSET (Ungated \cup {t})
    BY <1>1 DEF TypeOK, Ungated, In
  <1>3. /\ IsFiniteSet(Ungated) /\ Cardinality(Ungated) \in Nat
        /\ IsFiniteSet(Ungated \cup {t})
        /\ Cardinality(Ungated \cup {t}) <= Cardinality(Ungated) + 1
    BY <1>2, TasksFinite, FS_AddElement
  <1> DEFINE S == Ungated \cup {t}
             T == Ungated'
  <1>4. T \in SUBSET S /\ IsFiniteSet(S) /\ Cardinality(S) <= Cardinality(Ungated) + 1
    BY <1>2, <1>3
  <1>5. IsFiniteSet(T)
    BY <1>4, FS_Subset
  <1> HIDE DEF S, T
  <1>6. /\ Cardinality(T) <= Cardinality(S) /\ Cardinality(T) \in Nat
        /\ Cardinality(S) \in Nat
    BY <1>4, <1>5, FS_Subset, FS_CardinalityType
  <1>7. Cardinality(Ungated') <= Cardinality(Ungated) + 1
    <2>1. Cardinality(T) <= Cardinality(Ungated) + 1
      BY <1>3, <1>4, <1>6
    <2>2. QED
      BY <2>1 DEF T
  <1>8. DispatchCap \in Nat /\ Cardinality(Ungated') \in Nat
    BY <1>6, BoundsAssumption DEF T
  <1>9. CASE SumActive >= DispatchCap
    <2>1. bridge' = "sleeping" /\ Cardinality(Ungated) <= DispatchCap
      BY <1>1, <1>9 DEF NextBridge, CapInv
    <2>2. QED
      BY <1>3, <1>7, <1>8, <2>1 DEF CapInv
  <1>10. CASE ~(SumActive >= DispatchCap)
    <2>1. SumActive = Cardinality(In({"active"})) /\ Cardinality(In({"active"})) \in Nat
      <3>1. In({"active"}) \in SUBSET Tasks
        BY DEF In
      <3>2. QED
        BY <3>1, SumIsCount, TasksFinite
    <2>2. SumActive < DispatchCap
      BY <1>8, <1>10, <2>1
    <2>3. Cardinality(Ungated) < DispatchCap
      BY <1>1, <2>2, BelowCap
    <2>4. bridge' = "popping"
      BY <1>1, <1>10 DEF NextBridge
    <2>5. QED
      BY <1>3, <1>7, <1>8, <2>3, <2>4 DEF CapInv
  <1>11. QED
    BY <1>9, <1>10

\* The cap is tested again, with no coroutine waiting for its first turn.
LEMMA CapSleep ==
  ASSUME TypeOK, CountsAreExact, CapInv, WakeFromSleep
  PROVE  CapInv'
  <1>1. /\ bridge = "sleeping" /\ In({"spawned"}) = {}
        /\ bridge' = NextBridge /\ at' = at
    BY DEF WakeFromSleep
  <1>2. Ungated' = Ungated
    BY <1>1 DEF Ungated, In
  <1>3. CASE SumActive >= DispatchCap
    BY <1>1, <1>2, <1>3 DEF NextBridge, CapInv
  <1>4. CASE ~(SumActive >= DispatchCap)
    <2>1. SumActive = Cardinality(In({"active"})) /\ Cardinality(In({"active"})) \in Nat
      <3>1. In({"active"}) \in SUBSET Tasks
        BY DEF In
      <3>2. QED
        BY <3>1, SumIsCount, TasksFinite
    <2>2. SumActive < DispatchCap /\ DispatchCap \in Nat
      BY <1>4, <2>1, BoundsAssumption
    <2>3. Cardinality(Ungated) < DispatchCap /\ Cardinality(Ungated) \in Nat
      BY <1>1, <2>2, BelowCap
    <2>4. bridge' = "popping"
      BY <1>1, <1>4 DEF NextBridge
    <2>5. QED
      BY <1>2, <2>2, <2>3, <2>4 DEF CapInv
  <1>5. QED
    BY <1>3, <1>4

LEMMA CapInit == Init => CapInv
  <1> SUFFICES ASSUME Init PROVE CapInv
    OBVIOUS
  <1>1. Ungated = {}
    BY DEF Init, Ungated, In
  <1>2. Cardinality(Ungated) = 0
    BY <1>1, FS_EmptySet
  <1>3. QED
    BY <1>2, BoundsAssumption DEF CapInv

\* The bridge's bound is preserved by every step.
LEMMA CapStep == DInv /\ CapInv /\ [Next]_vars => CapInv'
  <1> SUFFICES ASSUME DInv, CapInv, [Next]_vars PROVE CapInv'
    OBVIOUS
  <1>0. TypeOK /\ CountsAreExact /\ GateInv
    BY DEF DInv
  <1>1. CASE Tick
    BY <1>1, CapKept DEF Tick, Ungated, In
  <1>2. ASSUME NEW t \in Tasks, ScoreTask(t) \/ Enqueue(t) \/ FinishRun(t) PROVE CapInv'
    <2>1. Ungated' \subseteq Ungated /\ bridge' = bridge
      BY <1>0, <1>2 DEF ScoreTask, Enqueue, FinishRun, Ungated, In, TypeOK
    <2>2. QED
      BY <2>1, CapKept
  <1>3. ASSUME NEW t \in Tasks, PopTask(t) PROVE CapInv'
    BY <1>0, <1>3, CapPop
  <1>4. CASE PopNothing
    <2>1. Ungated' = Ungated /\ bridge = "popping" /\ bridge' = "waiting"
      BY <1>4 DEF PopNothing, Ungated, In
    <2>2. QED
      BY <2>1 DEF CapInv
  <1>5. CASE WakeFromSleep
    BY <1>0, <1>5, CapSleep
  <1>6. CASE WakeFromWait
    <2>1. Ungated' = Ungated /\ bridge = "waiting" /\ bridge' \in {"sleeping", "popping"}
      BY <1>6 DEF WakeFromWait, NextBridge, Ungated, In
    <2>2. QED
      BY <2>1, CapKept
  <1>7. ASSUME NEW t \in Tasks, StartTask(t) PROVE CapInv'
    <2>1. Ungated' \subseteq Ungated /\ bridge' = bridge
      BY <1>0, <1>7 DEF StartTask, Admit, Ungated, In, TypeOK
    <2>2. QED
      BY <2>1, CapKept
  <1>8. ASSUME NEW t \in Tasks, RecheckGate(t) PROVE CapInv'
    <2>1. t \in Generated
      BY <1>0, <1>8 DEF RecheckGate, GateInv
    <2>2. Ungated' \subseteq Ungated /\ bridge' = bridge
      BY <1>0, <1>8, <2>1 DEF RecheckGate, Admit, Ungated, In, TypeOK
    <2>3. QED
      BY <2>2, CapKept
  <1>9. ASSUME NEW t \in Tasks, LaunchTask(t) \/ RejectTask(t) PROVE CapInv'
    <2>1. PICK place \in {"executing", "finished"} : Leave(t, place)
      BY <1>9 DEF LaunchTask, RejectTask
    <2>2. Ungated' \subseteq Ungated /\ bridge' = bridge
      BY <1>0, <2>1 DEF Leave, Ungated, In, TypeOK
    <2>3. QED
      BY <2>2, CapKept
  <1>10. ASSUME NEW n \in 0..MaxLimit, SetRLConcurrency(n) PROVE CapInv'
    <2>1. Ungated' \subseteq Ungated /\ bridge' = bridge
      BY <1>0, <1>10 DEF SetRLConcurrency, Ungated, In, TypeOK
    <2>2. QED
      BY <2>1, CapKept
  <1>11. CASE BridgeError
    <2>1. Ungated' \subseteq Ungated /\ bridge' = "sleeping"
      BY <1>0, <1>11 DEF BridgeError, Lowest, Ungated, In, TypeOK
    <2>2. QED
      BY <2>1, CapKept
  <1>12. CASE Crash
    <2>1. Ungated' = {}
      BY <1>12 DEF Crash, InMemory, Ungated, In
    <2>2. Cardinality(Ungated') = 0
      BY <2>1, FS_EmptySet
    <2>3. QED
      BY <2>2, BoundsAssumption DEF CapInv
  <1>13. CASE UNCHANGED vars
    BY <1>13, CapKept DEF vars, Ungated, In
  <1>14. QED
    BY <1>1, <1>2, <1>3, <1>4, <1>5, <1>6, <1>7, <1>8, <1>9, <1>10, <1>11, <1>12, <1>13
       DEF Next, Bridge, Coroutine

\* The bridge exceeds its cap by at most the one coroutine it created in the turn of the
\* test, whatever the users, rejections, limit changes and restarts (drain_queue).
THEOREM BoundTheorem == Spec => []DispatchIsBounded
  <1>1. TypeOK /\ CapInv => DispatchIsBounded
    <2> SUFFICES ASSUME CapInv PROVE DispatchIsBounded
      OBVIOUS
    <2> DEFINE S == Ungated
               T == In({"active"}) \ Generated
    <2>1. T \in SUBSET S /\ S \in SUBSET Tasks
      BY DEF Ungated, In
    <2> HIDE DEF S, T
    <2>2. /\ Cardinality(T) <= Cardinality(S) /\ Cardinality(S) \in Nat
          /\ Cardinality(T) \in Nat
      BY <2>1, TasksFinite, FS_Subset, FS_CardinalityType
    <2>3. DispatchCap \in Nat
      BY BoundsAssumption
    <2>4. Cardinality(S) <= DispatchCap + 1
      BY <2>2, <2>3 DEF S, CapInv
    <2>5. Cardinality(T) <= DispatchCap + 1
      BY <2>2, <2>3, <2>4
    <2>6. QED
      BY <2>5 DEF T, DispatchIsBounded
  <1>2. DInv => TypeOK
    BY DEF DInv
  <1>3. QED
    BY <1>1, <1>2, Invariance, CapInit, CapStep, PTL DEF Spec
=============================================================================
