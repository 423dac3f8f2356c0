--------------------------- MODULE EventBusProofs ---------------------------
(***************************************************************************)
(* Proofs about EventBus, for any finite sets of items and workers, any    *)
(* split into lanes and reserved workers, any nesting of emits and any     *)
(* capacities: every item under way is held exactly once, and the pool     *)
(* implements EventDelivery. The last part follows what handlers tell the  *)
(* browser over ClientStream: no reconnect skips an entry.                 *)
(***************************************************************************)
EXTENDS EventBus, SessionStream, FiniteSetTheorems, SequenceTheorems, TLAPS

\* x is in q, and q has no item twice.
In(x, q) == \E k \in 1..Len(q) : q[k] = x
NoDup(q) == \A k, l \in 1..Len(q) : q[k] = q[l] /\ q[k] # Sentinel => k = l

Queued(i, lane) == call[i] = "queued" /\ Lane[i] = lane

\* A queue holds an item once, and only items that are queued in its lane.
QueuesInv ==
  /\ \A i \in Items : (In(i, userQ) => Queued(i, "user")) /\ (In(i, bgQ) => Queued(i, "bg"))
  /\ NoDup(userQ) /\ NoDup(bgQ)

\* A get() task holds what no queue and no other get() task holds.
GetsInv ==
  \A w \in Workers :
    /\ at[w] # "select" => gotUser[w] = Nobody /\ gotBg[w] = Nobody
    /\ gotUser[w] \in Items => /\ Queued(gotUser[w], "user") /\ ~In(gotUser[w], userQ)
                               /\ \A v \in Workers : gotUser[v] = gotUser[w] => v = w
    /\ gotBg[w] \in Items => /\ Queued(gotBg[w], "bg") /\ ~In(gotBg[w], bgQ)
                             /\ \A v \in Workers : gotBg[v] = gotBg[w] => v = w

\* A running worker has a running item of its own.
RunsInv ==
  \A w \in Workers :
    /\ at[w] = "run" <=> item[w] # Nobody
    /\ item[w] # Nobody => /\ call[item[w]] = "running"
                           /\ \A v \in Workers : item[v] = item[w] => v = w

\* Every item under way is somewhere.
PlacedInv ==
  \A i \in Items :
    /\ Queued(i, "user") => In(i, userQ) \/ \E w \in Workers : gotUser[w] = i
    /\ Queued(i, "bg") => In(i, bgQ) \/ \E w \in Workers : gotBg[w] = i
    /\ call[i] = "running" => \E w \in Workers : item[w] = i
    /\ call[i] = "putting" => Lane[i] = "user"

\* A pool that is down has no workers and empty queues; a put() that was left waiting is
\* known to be stranded. Sentinels are owed only during a stop.
PoolInv ==
  /\ pool = "down" => /\ userQ = <<>> /\ bgQ = <<>>
                      /\ \A w \in Workers : at[w] = "exited"
                      /\ \A i \in Items : call[i] = "putting" => i \in stranded
  /\ pool # "stopping" => sentinels = 0

BInv == TypeOK /\ QueuesInv /\ GetsInv /\ RunsInv /\ PlacedInv /\ PoolInv

-----------------------------------------------------------------------------
(* Queues *)

\* Nothing is in the empty queue.
LEMMA EmptyFacts == (\A x : ~In(x, <<>>)) /\ NoDup(<<>>)
  BY DEF In, NoDup

\* What put() does to a queue.
LEMMA AppendFacts ==
  ASSUME NEW S, NEW q \in Seq(S), NEW x \in S
  PROVE  /\ Append(q, x) \in Seq(S) /\ Len(q) \in Nat /\ Len(Append(q, x)) = Len(q) + 1
         /\ \A y : In(y, Append(q, x)) <=> In(y, q) \/ y = x
         /\ NoDup(q) /\ ~In(x, q) => NoDup(Append(q, x))
  <1>1. /\ Append(q, x) \in Seq(S) /\ Len(q) \in Nat /\ Len(Append(q, x)) = Len(q) + 1
        /\ \A k \in 1..Len(q) : Append(q, x)[k] = q[k] /\ k \in 1..Len(Append(q, x))
        /\ Append(q, x)[Len(q) + 1] = x
        /\ \A k \in 1..Len(Append(q, x)) : k = Len(q) + 1 \/ k \in 1..Len(q)
    OBVIOUS
  <1> DEFINE p == Append(q, x)
  <1> HIDE DEF p
  <1>2. ASSUME NEW y PROVE In(y, p) <=> In(y, q) \/ y = x
    BY <1>1 DEF In, p
  <1>3. NoDup(q) /\ ~In(x, q) => NoDup(p)
    BY <1>1 DEF In, NoDup, p
  <1>4. QED
    BY <1>1, <1>2, <1>3 DEF p

\* What get() does to a queue.
LEMMA TailFacts ==
  ASSUME NEW S, NEW q \in Seq(S), q # <<>>
  PROVE  /\ Tail(q) \in Seq(S) /\ Len(q) \in Nat \ {0} /\ Len(Tail(q)) = Len(q) - 1
         /\ Head(q) \in S /\ In(Head(q), q)
         /\ \A y : (In(y, Tail(q)) => In(y, q)) /\ (In(y, q) => y = Head(q) \/ In(y, Tail(q)))
         /\ NoDup(q) => NoDup(Tail(q)) /\ (Head(q) # Sentinel => ~In(Head(q), Tail(q)))
  <1>1. /\ Tail(q) \in Seq(S) /\ Len(q) \in Nat \ {0} /\ Len(Tail(q)) = Len(q) - 1
        /\ Head(q) = q[1] /\ Head(q) \in S /\ 1 \in 1..Len(q)
        /\ \A k \in 1..Len(Tail(q)) : Tail(q)[k] = q[k + 1] /\ k + 1 \in 1..Len(q)
        /\ \A k \in 1..Len(q) : k = 1 \/ (k - 1 \in 1..Len(Tail(q)) /\ Tail(q)[k - 1] = q[k])
    OBVIOUS
  <1> DEFINE p == Tail(q)
             h == Head(q)
  <1> HIDE DEF p, h
  <1>2. ASSUME NEW y PROVE (In(y, p) => In(y, q)) /\ (In(y, q) => y = h \/ In(y, p))
    BY <1>1 DEF In, p, h
  <1>3. In(h, q)
    BY <1>1 DEF In, h
  <1>4. ASSUME NoDup(q) PROVE NoDup(p) /\ (h # Sentinel => ~In(h, p))
    <2>1. ASSUME NEW k \in 1..Len(p), NEW l \in 1..Len(p), p[k] = p[l], p[k] # Sentinel
          PROVE  k = l
      <3>1. p[k] = q[k + 1] /\ p[l] = q[l + 1] /\ k + 1 \in 1..Len(q) /\ l + 1 \in 1..Len(q)
        BY <1>1 DEF p
      <3>2. k + 1 = l + 1
        BY <1>4, <2>1, <3>1 DEF NoDup
      <3>3. QED
        BY <1>1, <3>2 DEF p
    <2>2. ASSUME h # Sentinel, NEW k \in 1..Len(p), p[k] = h PROVE FALSE
      <3>1. p[k] = q[k + 1] /\ k + 1 \in 1..Len(q) /\ h = q[1] /\ 1 \in 1..Len(q)
        BY <1>1 DEF p, h
      <3>2. k + 1 = 1
        BY <1>4, <2>2, <3>1 DEF NoDup
      <3>3. QED
        BY <1>1, <3>2 DEF p
    <2>3. QED
      BY <2>1, <2>2 DEF NoDup, In
  <1>5. QED
    BY <1>1, <1>2, <1>3, <1>4 DEF p, h

\* What putting sentinels does to the user queue.
LEMMA PutSomeFacts ==
  ASSUME TypeOK, NoDup(userQ), NEW n \in Nat, PutSome(n)
  PROVE  /\ userQ' \in Seq(Items \cup {Sentinel}) /\ Len(userQ') \in Nat /\ Len(userQ') <= UserCap
         /\ sentinels' \in 0..n /\ NoDup(userQ')
         /\ \A i \in Items : In(i, userQ') <=> In(i, userQ)
  <1> DEFINE m == IF n <= UserCap - Len(userQ) THEN n ELSE UserCap - Len(userQ)
             s == [j \in 1..m |-> Sentinel]
             q == userQ \o s
  <1>1. userQ \in Seq(Items \cup {Sentinel}) /\ Len(userQ) \in Nat /\ Len(userQ) <= UserCap
        /\ UserCap \in Nat
    BY ConstantsAssumption DEF TypeOK
  <1>2. userQ' = q /\ sentinels' = n - m
    BY DEF PutSome
  <1>3. m \in 0..n /\ m + Len(userQ) <= UserCap
    BY <1>1
  <1> HIDE DEF m
  <1>4. /\ s \in Seq(Items \cup {Sentinel}) /\ Len(s) = m
        /\ \A k \in 1..m : s[k] = Sentinel
    BY <1>3, IsASeq
  <1> HIDE DEF s
  <1>5. /\ q \in Seq(Items \cup {Sentinel}) /\ Len(q) = Len(userQ) + m
        /\ \A k \in 1..Len(q) :
             q[k] = IF k <= Len(userQ) THEN userQ[k] ELSE s[k - Len(userQ)]
    BY <1>1, <1>3, <1>4, ConcatProperties
  <1> HIDE DEF q
  <1>6. /\ \A k \in 1..Len(userQ) : q[k] = userQ[k] /\ k \in 1..Len(q)
        /\ \A k \in 1..Len(q) : k \in 1..Len(userQ) \/ q[k] = Sentinel
    BY <1>1, <1>3, <1>4, <1>5
  <1>7. NoDup(q)
    BY <1>6 DEF NoDup
  <1>8. ASSUME NEW i \in Items PROVE In(i, q) <=> In(i, userQ)
    BY <1>6, ConstantsAssumption DEF In
  <1>9. QED
    BY <1>1, <1>2, <1>3, <1>5, <1>7, <1>8

\* The number of workers is a number.
LEMMA WorkersCounted == Cardinality(Workers) \in Nat
  BY ConstantsAssumption, FS_CardinalityType

\* Names and lanes that must not be confused.
LEMMA Names ==
  /\ \A i \in Items : i # Nobody /\ i # Sentinel /\ Lane[i] \in {"user", "bg"}
  /\ Nobody # Sentinel /\ Nobody \notin Items /\ Sentinel \notin Items
  BY ConstantsAssumption

-----------------------------------------------------------------------------
(* Every step keeps the invariant *)

\* An item that is neither queued nor run by a worker before or after.
LEMMA KeptBesides ==
  ASSUME BInv, NEW i \in Items, NEW s \in {"direct", "putting", "handled", "dropped"},
         call[i] \in {"new", "putting", "direct"}, call' = [call EXCEPT ![i] = s],
         s = "putting" => Lane[i] = "user" /\ pool # "down",
         UNCHANGED <<pool, userQ, bgQ, stranded, workers, sentinels, starts>>
  PROVE  BInv'
  <1>0. TypeOK /\ QueuesInv /\ GetsInv /\ RunsInv /\ PlacedInv /\ PoolInv
    BY DEF BInv
  <1>1. /\ pool' = pool /\ userQ' = userQ /\ bgQ' = bgQ /\ stranded' = stranded
        /\ at' = at /\ gotUser' = gotUser /\ gotBg' = gotBg /\ item' = item
        /\ sentinels' = sentinels /\ starts' = starts
    BY DEF workers
  <1>2. /\ call'[i] = s /\ call' \in [Items -> CallStates]
        /\ \A j \in Items \ {i} : call'[j] = call[j]
    BY <1>0 DEF TypeOK, CallStates, Settled
  <1>3. TypeOK'
    BY <1>0, <1>1, <1>2, ConstantsAssumption DEF TypeOK
  <1>4. QueuesInv'
    BY <1>0, <1>1, <1>2, Names DEF QueuesInv, Queued
  <1>5. GetsInv'
    BY <1>0, <1>1, <1>2, Names DEF GetsInv, QueuesInv, Queued, TypeOK
  <1>6. RunsInv'
    BY <1>0, <1>1, <1>2, Names DEF RunsInv, Queued, TypeOK
  <1>7. PlacedInv'
    BY <1>0, <1>1, <1>2, Names DEF PlacedInv, RunsInv, Queued, TypeOK
  <1>8. PoolInv'
    BY <1>0, <1>1, <1>2, Names DEF PoolInv
  <1>9. QED
    BY <1>3, <1>4, <1>5, <1>6, <1>7, <1>8 DEF BInv

\* An item that enters the user queue.
LEMMA KeptByPut ==
  ASSUME BInv, NEW i \in Items, call[i] \in {"new", "putting"}, Lane[i] = "user",
         Len(userQ) < UserCap, pool # "down", userQ' = Append(userQ, i),
         call' = [call EXCEPT ![i] = "queued"],
         UNCHANGED <<pool, bgQ, stranded, workers, sentinels, starts>>
  PROVE  BInv'
  <1>0. TypeOK /\ QueuesInv /\ GetsInv /\ RunsInv /\ PlacedInv /\ PoolInv
    BY DEF BInv
  <1>1. /\ pool' = pool /\ bgQ' = bgQ /\ stranded' = stranded /\ at' = at
        /\ gotUser' = gotUser /\ gotBg' = gotBg /\ item' = item /\ sentinels' = sentinels
        /\ starts' = starts
    BY DEF workers
  <1>2. /\ call'[i] = "queued" /\ call' \in [Items -> CallStates]
        /\ \A j \in Items \ {i} : call'[j] = call[j]
    BY <1>0 DEF TypeOK, CallStates, Settled
  <1>3. ~In(i, userQ) /\ NoDup(userQ) /\ userQ \in Seq(Items \cup {Sentinel})
    BY <1>0 DEF QueuesInv, Queued, TypeOK
  <1>4. /\ userQ' \in Seq(Items \cup {Sentinel}) /\ Len(userQ') = Len(userQ) + 1 /\ Len(userQ) \in Nat
        /\ \A j \in Items : In(j, userQ') <=> In(j, userQ) \/ j = i
        /\ NoDup(userQ')
    BY <1>3, AppendFacts
  <1>5. TypeOK'
    BY <1>0, <1>1, <1>2, <1>4, ConstantsAssumption DEF TypeOK
  <1>6. QueuesInv'
    BY <1>0, <1>1, <1>2, <1>4, Names DEF QueuesInv, Queued
  <1>7. GetsInv'
    BY <1>0, <1>1, <1>2, <1>4, Names DEF GetsInv, QueuesInv, Queued, TypeOK
  <1>8. RunsInv'
    BY <1>0, <1>1, <1>2, <1>4, Names DEF RunsInv, Queued, TypeOK
  <1>9. PlacedInv'
    BY <1>0, <1>1, <1>2, <1>4, Names DEF PlacedInv, RunsInv, Queued, TypeOK
  <1>10. PoolInv'
    BY <1>0, <1>1, <1>2, <1>4, Names DEF PoolInv
  <1>11. QED
    BY <1>5, <1>6, <1>7, <1>8, <1>9, <1>10 DEF BInv

\* An item that enters the background queue, which has room.
LEMMA KeptByBgPut ==
  ASSUME BInv, NEW i \in Items, EmitBg(i), Len(bgQ) < BgCap
  PROVE  BInv'
  <1>0. TypeOK /\ QueuesInv /\ GetsInv /\ RunsInv /\ PlacedInv /\ PoolInv
    BY DEF BInv
  <1>1. /\ pool' = pool /\ userQ' = userQ /\ stranded' = stranded /\ at' = at
        /\ gotUser' = gotUser /\ gotBg' = gotBg /\ item' = item /\ sentinels' = sentinels
        /\ starts' = starts
        /\ call[i] = "new" /\ pool # "down" /\ Lane[i] = "bg"
    BY DEF EmitBg, MayEmit, workers
  <1>2. /\ call'[i] = "queued" /\ call' \in [Items -> CallStates]
        /\ \A j \in Items \ {i} : call'[j] = call[j]
    BY <1>0 DEF EmitBg, PutDropOldest, TypeOK, CallStates, Settled
  <1>3. ~In(i, bgQ) /\ NoDup(bgQ) /\ bgQ \in Seq(Items) /\ bgQ' = Append(bgQ, i)
    BY <1>0, <1>1 DEF EmitBg, PutDropOldest, QueuesInv, Queued, TypeOK
  <1>4. /\ bgQ' \in Seq(Items) /\ Len(bgQ') = Len(bgQ) + 1 /\ Len(bgQ) \in Nat
        /\ \A j \in Items : In(j, bgQ') <=> In(j, bgQ) \/ j = i
        /\ NoDup(bgQ')
    BY <1>3, AppendFacts
  <1>5. TypeOK'
    BY <1>0, <1>1, <1>2, <1>4, ConstantsAssumption DEF TypeOK
  <1>6. QueuesInv'
    BY <1>0, <1>1, <1>2, <1>4, Names DEF QueuesInv, Queued
  <1>7. GetsInv'
    BY <1>0, <1>1, <1>2, <1>4, Names DEF GetsInv, QueuesInv, Queued, TypeOK
  <1>8. RunsInv'
    BY <1>0, <1>1, <1>2, <1>4, Names DEF RunsInv, Queued, TypeOK
  <1>9. PlacedInv'
    BY <1>0, <1>1, <1>2, <1>4, Names DEF PlacedInv, RunsInv, Queued, TypeOK
  <1>10. PoolInv'
    BY <1>0, <1>1, <1>2, <1>4, Names DEF PoolInv
  <1>11. QED
    BY <1>5, <1>6, <1>7, <1>8, <1>9, <1>10 DEF BInv

\* An item that enters the full background queue, whose oldest item is dropped.
LEMMA KeptByDropOldest ==
  ASSUME BInv, NEW i \in Items, EmitBg(i), Len(bgQ) >= BgCap
  PROVE  BInv'
  <1>0. TypeOK /\ QueuesInv /\ GetsInv /\ RunsInv /\ PlacedInv /\ PoolInv
    BY DEF BInv
  <1>1. /\ pool' = pool /\ userQ' = userQ /\ stranded' = stranded /\ at' = at
        /\ gotUser' = gotUser /\ gotBg' = gotBg /\ item' = item /\ sentinels' = sentinels
        /\ starts' = starts
        /\ call[i] = "new" /\ pool # "down" /\ Lane[i] = "bg"
    BY DEF EmitBg, MayEmit, workers
  <1>2. bgQ \in Seq(Items) /\ Len(bgQ) = BgCap /\ BgCap \in Nat \ {0} /\ bgQ # <<>> /\ NoDup(bgQ)
    BY <1>0, ConstantsAssumption DEF TypeOK, QueuesInv
  <1>3. PICK q : q = Tail(bgQ)
    OBVIOUS
  <1>4. PICK d : d = Head(bgQ)
    OBVIOUS
  <1>5. /\ bgQ' = Append(q, i)
        /\ call' = [call EXCEPT ![d] = "dropped", ![i] = "queued"]
    BY <1>2, <1>3, <1>4 DEF EmitBg, PutDropOldest
  <1>6. /\ q \in Seq(Items) /\ Len(q) = Len(bgQ) - 1 /\ NoDup(q)
        /\ d \in Items /\ In(d, bgQ) /\ ~In(d, q)
        /\ \A j : (In(j, q) => In(j, bgQ)) /\ (In(j, bgQ) => j = d \/ In(j, q))
    BY <1>2, <1>3, <1>4, TailFacts, Names
  <1>7. Queued(d, "bg") /\ d # i /\ ~In(i, q)
    BY <1>0, <1>1, <1>6 DEF QueuesInv, Queued
  <1>8. /\ bgQ' \in Seq(Items) /\ Len(bgQ') = Len(bgQ) /\ NoDup(bgQ')
        /\ \A j \in Items : In(j, bgQ') <=> In(j, q) \/ j = i
    BY <1>2, <1>5, <1>6, <1>7, AppendFacts
  <1>9. /\ call'[i] = "queued" /\ call'[d] = "dropped" /\ call' \in [Items -> CallStates]
        /\ \A j \in Items \ {i, d} : call'[j] = call[j]
    BY <1>0, <1>5, <1>6, <1>7 DEF TypeOK, CallStates, Settled
  <1>10. \A w \in Workers : gotUser[w] \notin {i, d} /\ gotBg[w] \notin {i, d}
    BY <1>0, <1>1, <1>6, <1>7, Names DEF GetsInv, Queued
  <1>11. \A j \in Items : In(j, bgQ') <=> (In(j, bgQ) /\ j # d) \/ j = i
    BY <1>6, <1>8
  <1>12. \A j \in Items, lane \in {"user", "bg"} : j \notin {i, d} => (Queued(j, lane)' <=> Queued(j, lane))
    BY <1>9 DEF Queued
  <1>13. TypeOK'
    BY <1>0, <1>1, <1>2, <1>8, <1>9, ConstantsAssumption DEF TypeOK
  <1>14. QueuesInv'
    BY <1>0, <1>1, <1>6, <1>7, <1>8, <1>9, Names DEF QueuesInv, Queued
  <1>15. GetsInv'
    BY <1>0, <1>1, <1>8, <1>10, <1>11, <1>12, Names DEF GetsInv
  <1>16. RunsInv'
    BY <1>0, <1>1, <1>6, <1>7, <1>8, <1>9, Names DEF RunsInv, Queued, TypeOK
  <1>17. PlacedInv'
    BY <1>0, <1>1, <1>7, <1>9, <1>10, <1>11, <1>12 DEF PlacedInv, Queued
  <1>18. PoolInv'
    BY <1>0, <1>1, <1>9, Names DEF PoolInv
  <1>19. QED
    BY <1>13, <1>14, <1>15, <1>16, <1>17, <1>18 DEF BInv

\* A worker that takes an item from the user queue to run it, or a sentinel to leave.
LEMMA KeptByGet ==
  ASSUME BInv, NEW w \in Workers, GetUser(w)
  PROVE  BInv'
  <1>0. TypeOK /\ QueuesInv /\ GetsInv /\ RunsInv /\ PlacedInv /\ PoolInv
    BY DEF BInv
  <1>1. /\ pool' = pool /\ bgQ' = bgQ /\ stranded' = stranded /\ gotUser' = gotUser
        /\ gotBg' = gotBg /\ sentinels' = sentinels /\ starts' = starts
        /\ at[w] = "loop" /\ userQ # <<>>
    BY DEF GetUser
  <1>2. PICK h : h = Head(userQ)
    OBVIOUS
  <1>3. userQ \in Seq(Items \cup {Sentinel}) /\ NoDup(userQ) /\ userQ' = Tail(userQ)
    BY <1>0 DEF GetUser, QueuesInv, TypeOK
  <1>4. /\ h \in Items \cup {Sentinel}
        /\ userQ' \in Seq(Items \cup {Sentinel}) /\ Len(userQ') = Len(userQ) - 1 /\ Len(userQ) \in Nat
        /\ NoDup(userQ') /\ In(h, userQ) /\ (h # Sentinel => ~In(h, userQ'))
        /\ \A j \in Items : (In(j, userQ') => In(j, userQ)) /\ (In(j, userQ) => j = h \/ In(j, userQ'))
    BY <1>1, <1>2, <1>3, TailFacts
  <1>5. h \in Items => Queued(h, "user")
    BY <1>0, <1>4 DEF QueuesInv
  <1>6. /\ \A j \in Items : call'[j] = (IF j = h THEN "running" ELSE call[j])
        /\ call' \in [Items -> CallStates]
    BY <1>0, <1>2, <1>4, <1>5, Names DEF GetUser, Started, TypeOK, CallStates, Settled
  <1>7. /\ at' \in [Workers -> {"loop", "select", "run", "exited"}]
        /\ item' \in [Workers -> Items \cup {Nobody}]
        /\ at'[w] = (IF h = Sentinel THEN "exited" ELSE "run")
        /\ item'[w] = (IF h = Sentinel THEN Nobody ELSE h)
        /\ \A v \in Workers \ {w} : at'[v] = at[v] /\ item'[v] = item[v]
    BY <1>0, <1>2, <1>4 DEF GetUser, Take, TypeOK
  <1>8. pool # "down" /\ item[w] = Nobody
    BY <1>0, <1>1 DEF PoolInv, RunsInv
  <1>9. TypeOK'
    BY <1>0, <1>1, <1>4, <1>6, <1>7, ConstantsAssumption DEF TypeOK
  <1>10. QueuesInv'
    BY <1>0, <1>1, <1>4, <1>5, <1>6, Names DEF QueuesInv, Queued
  <1>11. GetsInv'
    BY <1>0, <1>1, <1>4, <1>5, <1>6, <1>7, Names DEF GetsInv, QueuesInv, Queued, TypeOK
  <1>12. RunsInv'
    BY <1>0, <1>1, <1>4, <1>5, <1>6, <1>7, <1>8, Names DEF RunsInv, Queued, TypeOK
  <1>13. PlacedInv'
    BY <1>0, <1>1, <1>4, <1>5, <1>6, <1>7, <1>8, Names DEF PlacedInv, RunsInv, Queued, TypeOK
  <1>14. PoolInv'
    BY <1>0, <1>1, <1>6, <1>8, Names DEF PoolInv
  <1>15. QED
    BY <1>9, <1>10, <1>11, <1>12, <1>13, <1>14 DEF BInv

\* A get() task that takes the head of the user queue.
LEMMA KeptByUserArrives ==
  ASSUME BInv, NEW w \in Workers, UserArrives(w)
  PROVE  BInv'
  <1>0. TypeOK /\ QueuesInv /\ GetsInv /\ RunsInv /\ PlacedInv /\ PoolInv
    BY DEF BInv
  <1>1. /\ pool' = pool /\ bgQ' = bgQ /\ call' = call /\ stranded' = stranded /\ at' = at
        /\ gotBg' = gotBg /\ item' = item /\ sentinels' = sentinels /\ starts' = starts
        /\ at[w] = "select" /\ gotUser[w] = Nobody /\ userQ # <<>>
    BY DEF UserArrives
  <1>2. PICK h : h = Head(userQ)
    OBVIOUS
  <1>3. userQ \in Seq(Items \cup {Sentinel}) /\ NoDup(userQ) /\ userQ' = Tail(userQ)
    BY <1>0 DEF UserArrives, QueuesInv, TypeOK
  <1>4. /\ h \in Items \cup {Sentinel}
        /\ userQ' \in Seq(Items \cup {Sentinel}) /\ Len(userQ') = Len(userQ) - 1 /\ Len(userQ) \in Nat
        /\ NoDup(userQ') /\ In(h, userQ) /\ (h # Sentinel => ~In(h, userQ'))
        /\ \A j \in Items : (In(j, userQ') => In(j, userQ)) /\ (In(j, userQ) => j = h \/ In(j, userQ'))
    BY <1>1, <1>2, <1>3, TailFacts
  <1>5. h \in Items => Queued(h, "user")
    BY <1>0, <1>4 DEF QueuesInv
  <1>6. /\ gotUser' \in [Workers -> Items \cup {Nobody, Sentinel}] /\ gotUser'[w] = h
        /\ \A v \in Workers \ {w} : gotUser'[v] = gotUser[v]
    BY <1>0, <1>2, <1>4 DEF UserArrives, TypeOK
  <1>7. pool # "down"
    BY <1>0, <1>1 DEF PoolInv
  <1>8. TypeOK'
    BY <1>0, <1>1, <1>4, <1>6, ConstantsAssumption DEF TypeOK
  <1>9. QueuesInv'
    BY <1>0, <1>1, <1>4, Names DEF QueuesInv, Queued
  <1>10. GetsInv'
    BY <1>0, <1>1, <1>4, <1>5, <1>6, Names DEF GetsInv, QueuesInv, Queued, TypeOK
  <1>11. RunsInv'
    BY <1>0, <1>1, Names DEF RunsInv, Queued, TypeOK
  <1>12. PlacedInv'
    BY <1>0, <1>1, <1>4, <1>6, Names DEF PlacedInv, RunsInv, Queued, TypeOK
  <1>13. PoolInv'
    BY <1>0, <1>1, <1>7, Names DEF PoolInv
  <1>14. QED
    BY <1>8, <1>9, <1>10, <1>11, <1>12, <1>13 DEF BInv

\* A get() task that takes the head of the background queue.
LEMMA KeptByBgArrives ==
  ASSUME BInv, NEW w \in Workers, BgArrives(w)
  PROVE  BInv'
  <1>0. TypeOK /\ QueuesInv /\ GetsInv /\ RunsInv /\ PlacedInv /\ PoolInv
    BY DEF BInv
  <1>1. /\ pool' = pool /\ userQ' = userQ /\ call' = call /\ stranded' = stranded
        /\ at' = at /\ gotUser' = gotUser /\ item' = item /\ sentinels' = sentinels
        /\ starts' = starts
        /\ at[w] = "select" /\ gotBg[w] = Nobody /\ bgQ # <<>>
    BY DEF BgArrives
  <1>2. PICK h : h = Head(bgQ)
    OBVIOUS
  <1>3. bgQ \in Seq(Items) /\ NoDup(bgQ) /\ bgQ' = Tail(bgQ)
    BY <1>0 DEF BgArrives, QueuesInv, TypeOK
  <1>4. /\ h \in Items
        /\ bgQ' \in Seq(Items) /\ Len(bgQ') = Len(bgQ) - 1 /\ Len(bgQ) \in Nat
        /\ NoDup(bgQ') /\ In(h, bgQ) /\ (h # Sentinel => ~In(h, bgQ'))
        /\ \A j \in Items : (In(j, bgQ') => In(j, bgQ)) /\ (In(j, bgQ) => j = h \/ In(j, bgQ'))
    BY <1>1, <1>2, <1>3, TailFacts
  <1>5. Queued(h, "bg") /\ h # Sentinel
    BY <1>0, <1>4, Names DEF QueuesInv
  <1>6. /\ gotBg' \in [Workers -> Items \cup {Nobody}] /\ gotBg'[w] = h
        /\ \A v \in Workers \ {w} : gotBg'[v] = gotBg[v]
    BY <1>0, <1>2, <1>4 DEF BgArrives, TypeOK
  <1>7. pool # "down"
    BY <1>0, <1>1 DEF PoolInv
  <1>8. TypeOK'
    BY <1>0, <1>1, <1>4, <1>6, ConstantsAssumption DEF TypeOK
  <1>9. QueuesInv'
    BY <1>0, <1>1, <1>4, Names DEF QueuesInv, Queued
  <1>10. GetsInv'
    BY <1>0, <1>1, <1>4, <1>5, <1>6, Names DEF GetsInv, QueuesInv, Queued, TypeOK
  <1>11. RunsInv'
    BY <1>0, <1>1, Names DEF RunsInv, Queued, TypeOK
  <1>12. PlacedInv'
    BY <1>0, <1>1, <1>4, <1>6, Names DEF PlacedInv, RunsInv, Queued, TypeOK
  <1>13. PoolInv'
    BY <1>0, <1>1, <1>7, Names DEF PoolInv
  <1>14. QED
    BY <1>8, <1>9, <1>10, <1>11, <1>12, <1>13 DEF BInv

\* A general worker that got a background item runs it.
LEMMA KeptByWakeForBg ==
  ASSUME BInv, NEW w \in Workers, WakeForBg(w)
  PROVE  BInv'
  <1>0. TypeOK /\ QueuesInv /\ GetsInv /\ RunsInv /\ PlacedInv /\ PoolInv
    BY DEF BInv
  <1>1. /\ pool' = pool /\ userQ' = userQ /\ bgQ' = bgQ /\ stranded' = stranded
        /\ gotUser' = gotUser /\ sentinels' = sentinels /\ starts' = starts
        /\ at[w] = "select" /\ gotUser[w] = Nobody /\ gotBg[w] \in Items
    BY <1>0 DEF WakeForBg, TypeOK
  <1>2. PICK b : b = gotBg[w]
    OBVIOUS
  <1>3. b \in Items /\ Queued(b, "bg") /\ ~In(b, bgQ)
    BY <1>0, <1>1, <1>2 DEF GetsInv
  <1>4. /\ call'[b] = "running" /\ call' \in [Items -> CallStates]
        /\ \A j \in Items \ {b} : call'[j] = call[j]
    BY <1>0, <1>2, <1>3, Names DEF WakeForBg, Started, TypeOK, CallStates, Settled
  <1>5. /\ at' \in [Workers -> {"loop", "select", "run", "exited"}]
        /\ item' \in [Workers -> Items \cup {Nobody}]
        /\ gotBg' \in [Workers -> Items \cup {Nobody}]
        /\ at'[w] = "run" /\ item'[w] = b /\ gotBg'[w] = Nobody
        /\ \A v \in Workers \ {w} : at'[v] = at[v] /\ item'[v] = item[v] /\ gotBg'[v] = gotBg[v]
    BY <1>0, <1>2, <1>3, Names DEF WakeForBg, Take, TypeOK
  <1>6. pool # "down" /\ item[w] = Nobody
    BY <1>0, <1>1 DEF PoolInv, RunsInv
  <1>7. \A v \in Workers \ {w} : gotUser[v] # b /\ gotBg[v] # b
    BY <1>0, <1>1, <1>2, <1>3 DEF GetsInv, Queued
  <1>8. TypeOK'
    BY <1>0, <1>1, <1>4, <1>5, ConstantsAssumption DEF TypeOK
  <1>9. QueuesInv'
    BY <1>0, <1>1, <1>3, <1>4, Names DEF QueuesInv, Queued
  <1>10. GetsInv'
    BY <1>0, <1>1, <1>4, <1>5, <1>7, Names DEF GetsInv, Queued
  <1>11. RunsInv'
    BY <1>0, <1>1, <1>3, <1>4, <1>5, <1>6, Names DEF RunsInv, Queued
  <1>12. PlacedInv'
    BY <1>0, <1>1, <1>2, <1>3, <1>4, <1>5, <1>6, Names DEF PlacedInv, Queued
  <1>13. PoolInv'
    BY <1>0, <1>1, <1>4, <1>6, Names DEF PoolInv
  <1>14. QED
    BY <1>8, <1>9, <1>10, <1>11, <1>12, <1>13 DEF BInv

\* A general worker that got a user item runs it, or leaves if it is a sentinel; a background
\* item it got as well goes back, or is dropped.
LEMMA KeptByWakeForUser ==
  ASSUME BInv, NEW w \in Workers, WakeForUser(w)
  PROVE  BInv'
  <1>0. TypeOK /\ QueuesInv /\ GetsInv /\ RunsInv /\ PlacedInv /\ PoolInv
    BY DEF BInv
  <1>1. /\ pool' = pool /\ userQ' = userQ /\ stranded' = stranded
        /\ sentinels' = sentinels /\ starts' = starts
        /\ at[w] = "select"
    BY DEF WakeForUser
  <1>2. PICK u : u = gotUser[w]
    OBVIOUS
  <1>3. PICK b : b = gotBg[w]
    OBVIOUS
  <1>4. u \in Items \cup {Sentinel} /\ b \in Items \cup {Nobody}
    BY <1>0, <1>2, <1>3 DEF WakeForUser, TypeOK
  <1>5. u \in Items => Queued(u, "user") /\ ~In(u, userQ)
    BY <1>0, <1>2 DEF GetsInv
  <1>6. b \in Items => Queued(b, "bg") /\ ~In(b, bgQ) /\ b # u
    BY <1>0, <1>3, <1>5, Names DEF GetsInv, Queued
  <1>7. \A v \in Workers \ {w} : \A j \in Items : j \in {u, b} => gotUser[v] # j /\ gotBg[v] # j
    BY <1>0, <1>2, <1>3, <1>4, <1>5, <1>6, Names DEF GetsInv, Queued
  <1>8. /\ at' \in [Workers -> {"loop", "select", "run", "exited"}]
        /\ item' \in [Workers -> Items \cup {Nobody}]
        /\ gotBg' \in [Workers -> Items \cup {Nobody}]
        /\ gotUser' \in [Workers -> Items \cup {Nobody, Sentinel}]
        /\ at'[w] = (IF u = Sentinel THEN "exited" ELSE "run")
        /\ item'[w] = (IF u = Sentinel THEN Nobody ELSE u)
        /\ gotBg'[w] = Nobody /\ gotUser'[w] = Nobody
        /\ \A v \in Workers \ {w} : /\ at'[v] = at[v] /\ item'[v] = item[v]
                                    /\ gotBg'[v] = gotBg[v] /\ gotUser'[v] = gotUser[v]
    BY <1>0, <1>2, <1>4, Names DEF WakeForUser, Take, TypeOK
  <1>9. PICK gone \in BOOLEAN :
          /\ gone => b \in Items
          /\ \A j \in Items : call'[j] = (IF j = u THEN "running"
                                           ELSE IF gone /\ j = b THEN "dropped" ELSE call[j])
          /\ call' \in [Items -> CallStates]
          /\ bgQ' \in Seq(Items) /\ Len(bgQ') <= BgCap /\ NoDup(bgQ')
          /\ \A j \in Items : In(j, bgQ') <=> In(j, bgQ) \/ (~gone /\ j = b)
    <2>1. /\ NoDup(bgQ) /\ bgQ \in Seq(Items) /\ Len(bgQ) <= BgCap /\ call \in [Items -> CallStates]
      BY <1>0 DEF QueuesInv, TypeOK
    <2>2. CASE b = Nobody
      <3>1. bgQ' = bgQ /\ call' = Started(u, call)
        BY <1>2, <1>3, <2>2 DEF WakeForUser, PutBack
      <3>2. /\ \A j \in Items : call'[j] = (IF j = u THEN "running" ELSE call[j])
            /\ call' \in [Items -> CallStates]
        BY <1>4, <2>1, <3>1, Names DEF Started, CallStates, Settled
      <3>3. QED
        BY <2>1, <2>2, <3>1, <3>2, Names
    <2>3. CASE b \in Items /\ Len(bgQ) < BgCap
      <3>1. bgQ' = Append(bgQ, b) /\ call' = Started(u, call)
        BY <1>2, <1>3, <2>3, Names DEF WakeForUser, PutBack
      <3>2. /\ \A j \in Items : call'[j] = (IF j = u THEN "running" ELSE call[j])
            /\ call' \in [Items -> CallStates]
        BY <1>4, <2>1, <3>1, Names DEF Started, CallStates, Settled
      <3>3. /\ bgQ' \in Seq(Items) /\ Len(bgQ') = Len(bgQ) + 1 /\ Len(bgQ) \in Nat /\ NoDup(bgQ')
            /\ \A j \in Items : In(j, bgQ') <=> In(j, bgQ) \/ j = b
        BY <1>6, <2>1, <2>3, <3>1, AppendFacts
      <3>4. Len(bgQ') <= BgCap
        BY <2>3, <3>3, ConstantsAssumption
      <3>5. QED
        BY <2>3, <3>2, <3>3, <3>4
    <2>4. CASE b \in Items /\ ~(Len(bgQ) < BgCap)
      <3>1. bgQ' = bgQ /\ call' = Started(u, [call EXCEPT ![b] = "dropped"])
        BY <1>2, <1>3, <2>4, Names DEF WakeForUser, PutBack
      <3>2. /\ \A j \in Items : call'[j] = (IF j = u THEN "running"
                                             ELSE IF j = b THEN "dropped" ELSE call[j])
            /\ call' \in [Items -> CallStates]
        BY <1>4, <1>6, <2>1, <2>4, <3>1, Names DEF Started, CallStates, Settled
      <3>3. QED
        BY <2>1, <2>4, <3>1, <3>2
    <2>5. QED
      BY <1>4, <2>2, <2>3, <2>4
  <1>10. pool # "down" /\ item[w] = Nobody
    BY <1>0, <1>1 DEF PoolInv, RunsInv
  <1>11. TypeOK'
    BY <1>0, <1>1, <1>8, <1>9, ConstantsAssumption DEF TypeOK
  <1>12. QueuesInv'
    BY <1>0, <1>1, <1>4, <1>5, <1>6, <1>9, Names DEF QueuesInv, Queued
  <1>13. GetsInv'
    BY <1>0, <1>1, <1>4, <1>5, <1>6, <1>7, <1>8, <1>9, Names DEF GetsInv, Queued
  <1>14. RunsInv'
    BY <1>0, <1>1, <1>4, <1>5, <1>6, <1>8, <1>9, <1>10, Names DEF RunsInv, Queued, TypeOK
  <1>15. PlacedInv'
    BY <1>0, <1>1, <1>2, <1>3, <1>4, <1>5, <1>6, <1>8, <1>9, <1>10, Names DEF PlacedInv, Queued
  <1>16. PoolInv'
    BY <1>0, <1>1, <1>4, <1>6, <1>9, <1>10, Names DEF PoolInv, Queued
  <1>17. QED
    BY <1>11, <1>12, <1>13, <1>14, <1>15, <1>16 DEF BInv

\* A handler that returns.
LEMMA KeptByFinish ==
  ASSUME BInv, NEW w \in Workers, Finish(w)
  PROVE  BInv'
  <1>0. TypeOK /\ QueuesInv /\ GetsInv /\ RunsInv /\ PlacedInv /\ PoolInv
    BY DEF BInv
  <1>1. /\ pool' = pool /\ userQ' = userQ /\ bgQ' = bgQ /\ stranded' = stranded
        /\ gotUser' = gotUser /\ gotBg' = gotBg /\ sentinels' = sentinels
        /\ starts' = starts
        /\ at[w] = "run"
    BY DEF Finish
  <1>2. PICK i : i = item[w]
    OBVIOUS
  <1>3. i \in Items /\ call[i] = "running" /\ \A v \in Workers \ {w} : item[v] # i
    BY <1>0, <1>1, <1>2 DEF RunsInv, TypeOK
  <1>4. /\ call'[i] = "handled" /\ call' \in [Items -> CallStates]
        /\ \A j \in Items \ {i} : call'[j] = call[j]
    BY <1>0, <1>2, <1>3 DEF Finish, TypeOK, CallStates, Settled
  <1>5. /\ at' \in [Workers -> {"loop", "select", "run", "exited"}]
        /\ item' \in [Workers -> Items \cup {Nobody}]
        /\ at'[w] = "loop" /\ item'[w] = Nobody
        /\ \A v \in Workers \ {w} : at'[v] = at[v] /\ item'[v] = item[v]
    BY <1>0 DEF Finish, TypeOK
  <1>6. pool # "down"
    BY <1>0, <1>1 DEF PoolInv
  <1>7. TypeOK'
    BY <1>0, <1>1, <1>4, <1>5, ConstantsAssumption DEF TypeOK
  <1>8. QueuesInv'
    BY <1>0, <1>1, <1>3, <1>4, Names DEF QueuesInv, Queued
  <1>9. GetsInv'
    BY <1>0, <1>1, <1>3, <1>4, <1>5, Names DEF GetsInv, QueuesInv, Queued, TypeOK
  <1>10. RunsInv'
    BY <1>0, <1>1, <1>2, <1>3, <1>4, <1>5, Names DEF RunsInv, Queued, TypeOK
  <1>11. PlacedInv'
    BY <1>0, <1>1, <1>2, <1>3, <1>4, <1>5, Names DEF PlacedInv, RunsInv, Queued, TypeOK
  <1>12. PoolInv'
    BY <1>0, <1>1, <1>4, <1>6, Names DEF PoolInv
  <1>13. QED
    BY <1>7, <1>8, <1>9, <1>10, <1>11, <1>12 DEF BInv

\* The start of the pool.
LEMMA KeptByStart ==
  ASSUME BInv, StartWorkers
  PROVE  BInv'
  <1>0. TypeOK /\ QueuesInv /\ GetsInv /\ RunsInv /\ PlacedInv /\ PoolInv
    BY DEF BInv
  <1>1. /\ call' = call /\ stranded' = stranded /\ gotUser' = gotUser /\ gotBg' = gotBg
        /\ item' = item /\ sentinels' = sentinels
        /\ pool = "down" /\ pool' = "up" /\ userQ' = <<>> /\ bgQ' = <<>>
        /\ \A w \in Workers : at[w] = "exited"
        /\ userQ = <<>> /\ bgQ = <<>>
    BY <1>0 DEF StartWorkers, PoolInv
  <1>2. /\ at' = [w \in Workers |-> "loop"] /\ starts' \in 0..MaxStarts
    BY <1>0, ConstantsAssumption DEF StartWorkers, TypeOK
  <1>3. TypeOK'
    BY <1>0, <1>1, <1>2, ConstantsAssumption DEF TypeOK
  <1>4. QueuesInv'
    BY <1>0, <1>1, <1>2, Names DEF QueuesInv, Queued
  <1>5. GetsInv'
    BY <1>0, <1>1, <1>2, Names DEF GetsInv, QueuesInv, Queued, TypeOK
  <1>6. RunsInv'
    BY <1>0, <1>1, <1>2, Names DEF RunsInv, Queued, TypeOK
  <1>7. PlacedInv'
    BY <1>0, <1>1, <1>2, Names DEF PlacedInv, RunsInv, Queued, TypeOK
  <1>8. PoolInv'
    BY <1>0, <1>1, <1>2, Names DEF PoolInv
  <1>9. QED
    BY <1>3, <1>4, <1>5, <1>6, <1>7, <1>8 DEF BInv

\* The start of a stop.
LEMMA KeptByBeginStop ==
  ASSUME BInv, BeginStop
  PROVE  BInv'
  <1>0. TypeOK /\ QueuesInv /\ GetsInv /\ RunsInv /\ PlacedInv /\ PoolInv
    BY DEF BInv
  <1>1. /\ bgQ' = bgQ /\ call' = call /\ stranded' = stranded /\ at' = at
        /\ gotUser' = gotUser /\ gotBg' = gotBg /\ item' = item /\ starts' = starts
        /\ pool = "up" /\ pool' = "stopping"
    BY DEF BeginStop, workers
  <1>2. /\ userQ' \in Seq(Items \cup {Sentinel}) /\ Len(userQ') \in Nat /\ Len(userQ') <= UserCap
        /\ NoDup(userQ')
        /\ \A i \in Items : In(i, userQ') <=> In(i, userQ)
        /\ sentinels' \in 0..Cardinality(Workers)
    BY <1>0, WorkersCounted, PutSomeFacts DEF BeginStop, QueuesInv
  <1>3. TypeOK'
    BY <1>0, <1>1, <1>2, ConstantsAssumption DEF TypeOK
  <1>4. QueuesInv'
    BY <1>0, <1>1, <1>2, Names DEF QueuesInv, Queued
  <1>5. GetsInv'
    BY <1>0, <1>1, <1>2, Names DEF GetsInv, QueuesInv, Queued, TypeOK
  <1>6. RunsInv'
    BY <1>0, <1>1, <1>2, Names DEF RunsInv, Queued, TypeOK
  <1>7. PlacedInv'
    BY <1>0, <1>1, <1>2, Names DEF PlacedInv, RunsInv, Queued, TypeOK
  <1>8. PoolInv'
    BY <1>0, <1>1, <1>2, Names DEF PoolInv
  <1>9. QED
    BY <1>3, <1>4, <1>5, <1>6, <1>7, <1>8 DEF BInv

\* A stop that goes on after it waited for room.
LEMMA KeptByPutSentinels ==
  ASSUME BInv, PutSentinels
  PROVE  BInv'
  <1>0. TypeOK /\ QueuesInv /\ GetsInv /\ RunsInv /\ PlacedInv /\ PoolInv
    BY DEF BInv
  <1>1. /\ pool' = pool /\ bgQ' = bgQ /\ call' = call /\ stranded' = stranded /\ at' = at
        /\ gotUser' = gotUser /\ gotBg' = gotBg /\ item' = item /\ starts' = starts
        /\ sentinels \in 0..Cardinality(Workers) /\ sentinels > 0
    BY <1>0 DEF PutSentinels, workers, TypeOK
  <1>2. pool = "stopping" /\ sentinels \in Nat
    BY <1>0, <1>1, WorkersCounted DEF PoolInv
  <1>3. /\ userQ' \in Seq(Items \cup {Sentinel}) /\ Len(userQ') \in Nat /\ Len(userQ') <= UserCap
        /\ NoDup(userQ')
        /\ \A i \in Items : In(i, userQ') <=> In(i, userQ)
        /\ sentinels' \in 0..sentinels
    BY <1>0, <1>2, PutSomeFacts DEF PutSentinels, QueuesInv
  <1>4. sentinels' \in 0..Cardinality(Workers)
    BY <1>1, <1>3, WorkersCounted
  <1>5. TypeOK'
    BY <1>0, <1>1, <1>2, <1>3, <1>4, ConstantsAssumption DEF TypeOK
  <1>6. QueuesInv'
    BY <1>0, <1>1, <1>2, <1>3, <1>4, Names DEF QueuesInv, Queued
  <1>7. GetsInv'
    BY <1>0, <1>1, <1>2, <1>3, <1>4, Names DEF GetsInv, QueuesInv, Queued, TypeOK
  <1>8. RunsInv'
    BY <1>0, <1>1, <1>2, <1>3, <1>4, Names DEF RunsInv, Queued, TypeOK
  <1>9. PlacedInv'
    BY <1>0, <1>1, <1>2, <1>3, <1>4, Names DEF PlacedInv, RunsInv, Queued, TypeOK
  <1>10. PoolInv'
    BY <1>0, <1>1, <1>2, <1>3, <1>4, Names DEF PoolInv
  <1>11. QED
    BY <1>5, <1>6, <1>7, <1>8, <1>9, <1>10 DEF BInv

\* The end of a stop.
LEMMA KeptByEndStop ==
  ASSUME BInv, EndStop
  PROVE  BInv'
  <1>0. TypeOK /\ QueuesInv /\ GetsInv /\ RunsInv /\ PlacedInv /\ PoolInv
    BY DEF BInv
  <1>1. /\ at' = at /\ gotUser' = gotUser /\ gotBg' = gotBg /\ item' = item
        /\ sentinels' = sentinels /\ starts' = starts
        /\ pool = "stopping" /\ pool' = "down" /\ sentinels = 0 /\ userQ' = <<>> /\ bgQ' = <<>>
        /\ \A w \in Workers : at[w] = "exited"
        /\ stranded' = stranded \cup {i \in Items : call[i] = "putting"}
    BY DEF EndStop, workers
  <1>2. \A i \in Items : i \in ItemsOf(userQ) \cup ItemsOf(bgQ) <=> In(i, userQ) \/ In(i, bgQ)
    BY <1>0, Names DEF ItemsOf, ToSet, In, TypeOK
  <1>3. /\ call' \in [Items -> CallStates]
        /\ \A i \in Items : call'[i] = (IF In(i, userQ) \/ In(i, bgQ) THEN "dropped" ELSE call[i])
    BY <1>0, <1>2 DEF EndStop, Drain, TypeOK, CallStates, Settled
  <1>4. \A w \in Workers : gotUser[w] = Nobody /\ gotBg[w] = Nobody /\ item[w] = Nobody
    BY <1>0, <1>1 DEF GetsInv, RunsInv
  <1>5. TypeOK'
    BY <1>0, <1>1, <1>3, ConstantsAssumption DEF TypeOK
  <1>6. QueuesInv'
    BY <1>0, <1>1, EmptyFacts DEF QueuesInv
  <1>7. GetsInv'
    BY <1>1, <1>4, Names DEF GetsInv
  <1>8. RunsInv'
    BY <1>1, <1>4 DEF RunsInv
  <1>9. PlacedInv'
    BY <1>0, <1>1, <1>3, <1>4, Names DEF PlacedInv, QueuesInv, Queued
  <1>10. PoolInv'
    BY <1>1, <1>3 DEF PoolInv
  <1>11. QED
    BY <1>5, <1>6, <1>7, <1>8, <1>9, <1>10 DEF BInv

\* Every step of the bus keeps the invariant.
LEMMA BusStep == BInv /\ [Next]_vars => BInv'
  <1> SUFFICES ASSUME BInv, [Next]_vars PROVE BInv'
    OBVIOUS
  <1>0. TypeOK /\ PoolInv /\ PlacedInv
    BY DEF BInv
  <1>1. ASSUME NEW i \in Items,
               EmitDirect(i) \/ EmitUserFull(i) \/ CancelPut(i) \/ RunDirect(i)
        PROVE  BInv'
    <2>1. PICK s \in {"direct", "putting", "handled", "dropped"} :
            /\ call' = [call EXCEPT ![i] = s] /\ call[i] \in {"new", "putting", "direct"}
            /\ s = "putting" => Lane[i] = "user" /\ pool # "down"
            /\ UNCHANGED <<pool, userQ, bgQ, stranded, workers, sentinels, starts>>
      <3>1. CASE EmitDirect(i)
        BY <3>1 DEF EmitDirect, MayEmit
      <3>2. CASE EmitUserFull(i)
        BY <3>2 DEF EmitUserFull, MayEmit
      <3>3. CASE RunDirect(i)
        BY <3>3 DEF RunDirect
      <3>4. CASE CancelPut(i)
        BY <3>4 DEF CancelPut
      <3>5. QED
        BY <1>1, <3>1, <3>2, <3>3, <3>4
    <2>2. QED
      BY <2>1, KeptBesides
  <1>2. ASSUME NEW i \in Items, EmitUser(i) PROVE BInv'
    BY <1>2, KeptByPut DEF EmitUser, MayEmit
  <1>3. ASSUME NEW i \in Items, PutBlocked(i) PROVE BInv'
    <2>1. Lane[i] = "user" /\ pool # "down"
      BY <1>0, <1>3 DEF PutBlocked, PlacedInv, PoolInv
    <2>2. QED
      BY <1>3, <2>1, KeptByPut DEF PutBlocked
  <1>4. ASSUME NEW i \in Items, EmitBg(i) PROVE BInv'
    <2>1. Len(bgQ) \in Nat /\ BgCap \in Nat
      BY <1>0, ConstantsAssumption DEF TypeOK
    <2>2. Len(bgQ) < BgCap \/ Len(bgQ) >= BgCap
      BY <2>1
    <2>3. QED
      BY <1>4, <2>2, KeptByBgPut, KeptByDropOldest
  <1>5. ASSUME NEW w \in Workers, Select(w) PROVE BInv'
    <2>1. /\ TypeOK /\ QueuesInv /\ GetsInv /\ RunsInv /\ PlacedInv /\ PoolInv
          /\ at[w] = "loop" /\ at' = [at EXCEPT ![w] = "select"]
          /\ UNCHANGED <<pool, userQ, bgQ, call, stranded, gotUser, gotBg, item, sentinels, starts>>
      BY <1>5 DEF BInv, Select
    <2>2. TypeOK' /\ PoolInv'
      BY <2>1 DEF TypeOK, PoolInv
    <2>3. QueuesInv' /\ PlacedInv'
      BY <2>1 DEF QueuesInv, PlacedInv, Queued
    <2>4. GetsInv' /\ RunsInv'
      BY <2>1 DEF GetsInv, RunsInv, Queued, TypeOK
    <2>5. QED
      BY <2>2, <2>3, <2>4 DEF BInv
  <1>6. CASE UNCHANGED vars
    BY <1>6 DEF vars, BInv, TypeOK, QueuesInv, GetsInv, RunsInv, PlacedInv, PoolInv, Queued
  <1>7. QED
    BY <1>1, <1>2, <1>3, <1>4, <1>5, <1>6, KeptByGet, KeptByUserArrives, KeptByBgArrives,
       KeptByWakeForBg, KeptByWakeForUser, KeptByFinish, KeptByStart, KeptByBeginStop,
       KeptByPutSentinels, KeptByEndStop DEF Next, Emit, Worker

\* The invariant holds before the pool is started.
LEMMA BusInit == Init => BInv
  <1> SUFFICES ASSUME Init PROVE BInv
    OBVIOUS
  <1>1. TypeOK
    BY ConstantsAssumption, WorkersCounted DEF Init, TypeOK, CallStates
  <1>2. QueuesInv /\ PoolInv
    BY EmptyFacts DEF Init, QueuesInv, PoolInv
  <1>3. GetsInv /\ RunsInv
    BY Names DEF Init, GetsInv, RunsInv
  <1>4. PlacedInv
    BY DEF Init, PlacedInv, Queued
  <1>5. QED
    BY <1>1, <1>2, <1>3, <1>4 DEF BInv

-----------------------------------------------------------------------------
(* What follows *)

\* The bus keeps its types, its queues free of duplicates, and every item placed.
THEOREM Invariance == Spec => []BInv
  BY BusInit, BusStep, PTL DEF Spec

\* Queues keep their capacities and every variable its type.
THEOREM TypeTheorem == Spec => []TypeOK
  <1>1. BInv => TypeOK
    BY DEF BInv
  <1>2. QED
    BY <1>1, Invariance, PTL

\* An item under way is in one queue, one get() task or one worker, and at one place there.
LEMMA OneHolder ==
  ASSUME BInv, NEW i \in Items, call[i] \in {"queued", "running"}
  PROVE  \E h : Holders(i) = {h}
  <1>0. TypeOK /\ QueuesInv /\ GetsInv /\ RunsInv /\ PlacedInv
    BY DEF BInv
  <1>1. DOMAIN userQ = 1..Len(userQ) /\ DOMAIN bgQ = 1..Len(bgQ)
    BY <1>0 DEF TypeOK
  <1>2. i # Nobody /\ i # Sentinel /\ Lane[i] \in {"user", "bg"}
    BY Names
  <1>3. CASE call[i] = "running"
    <2>1. PICK w \in Workers : item[w] = i
      BY <1>0, <1>3 DEF PlacedInv
    <2>2. \A v \in Workers : item[v] = i => v = w
      BY <1>0, <1>2, <2>1 DEF RunsInv
    <2>3. ~In(i, userQ) /\ ~In(i, bgQ) /\ \A v \in Workers : gotUser[v] # i /\ gotBg[v] # i
      BY <1>0, <1>3 DEF QueuesInv, GetsInv, Queued
    <2>4. Holders(i) = {<<"run", w>>}
      BY <1>1, <2>1, <2>2, <2>3 DEF Holders, In
    <2>5. QED
      BY <2>4
  <1>4. CASE call[i] = "queued" /\ Lane[i] = "user"
    <2>1. ~In(i, bgQ) /\ \A v \in Workers : gotBg[v] # i /\ item[v] # i
      BY <1>0, <1>2, <1>4 DEF QueuesInv, GetsInv, RunsInv, Queued
    <2>2. CASE In(i, userQ)
      <3>1. PICK k \in 1..Len(userQ) : userQ[k] = i
        BY <2>2 DEF In
      <3>2. \A l \in 1..Len(userQ) : userQ[l] = i => l = k
        BY <1>0, <1>2, <3>1 DEF QueuesInv, NoDup
      <3>3. \A v \in Workers : gotUser[v] # i
        BY <1>0, <2>2 DEF GetsInv
      <3>4. Holders(i) = {<<"user", k>>}
        BY <1>1, <2>1, <3>1, <3>2, <3>3 DEF Holders, In
      <3>5. QED
        BY <3>4
    <2>3. CASE ~In(i, userQ)
      <3>1. PICK w \in Workers : gotUser[w] = i
        BY <1>0, <1>4, <2>3 DEF PlacedInv, Queued
      <3>2. \A v \in Workers : gotUser[v] = i => v = w
        BY <1>0, <3>1 DEF GetsInv
      <3>3. Holders(i) = {<<"get", w>>}
        BY <1>1, <2>1, <2>3, <3>1, <3>2 DEF Holders, In
      <3>4. QED
        BY <3>3
    <2>4. QED
      BY <2>2, <2>3
  <1>5. CASE call[i] = "queued" /\ Lane[i] = "bg"
    <2>1. ~In(i, userQ) /\ \A v \in Workers : gotUser[v] # i /\ item[v] # i
      BY <1>0, <1>2, <1>5 DEF QueuesInv, GetsInv, RunsInv, Queued
    <2>2. CASE In(i, bgQ)
      <3>1. PICK k \in 1..Len(bgQ) : bgQ[k] = i
        BY <2>2 DEF In
      <3>2. \A l \in 1..Len(bgQ) : bgQ[l] = i => l = k
        BY <1>0, <1>2, <3>1 DEF QueuesInv, NoDup
      <3>3. \A v \in Workers : gotBg[v] # i
        BY <1>0, <2>2 DEF GetsInv
      <3>4. Holders(i) = {<<"bg", k>>}
        BY <1>1, <2>1, <3>1, <3>2, <3>3 DEF Holders, In
      <3>5. QED
        BY <3>4
    <2>3. CASE ~In(i, bgQ)
      <3>1. PICK w \in Workers : gotBg[w] = i
        BY <1>0, <1>5, <2>3 DEF PlacedInv, Queued
      <3>2. \A v \in Workers : gotBg[v] = i => v = w
        BY <1>0, <3>1 DEF GetsInv
      <3>3. Holders(i) = {<<"get", w>>}
        BY <1>1, <2>1, <2>3, <3>1, <3>2 DEF Holders, In
      <3>4. QED
        BY <3>3
    <2>4. QED
      BY <2>2, <2>3
  <1>6. QED
    BY <1>2, <1>3, <1>4, <1>5

\* No item is held twice, none that is under way is lost.
THEOREM HeldTheorem == Spec => []HeldOnce
  <1>1. BInv => HeldOnce
    <2> SUFFICES ASSUME BInv, NEW i \in Items
                 PROVE  /\ call[i] \in {"queued", "running"} => Cardinality(Holders(i)) = 1
                        /\ call[i] \notin {"queued", "running"} => Holders(i) = {}
      BY DEF HeldOnce
    <2>0. TypeOK /\ QueuesInv /\ GetsInv /\ RunsInv /\ PlacedInv
      BY DEF BInv
    <2>1. ASSUME call[i] \in {"queued", "running"} PROVE Cardinality(Holders(i)) = 1
      <3>1. PICK h : Holders(i) = {h}
        BY <2>1, OneHolder
      <3>2. QED
        BY <3>1, FS_Singleton
    <2>2. ASSUME call[i] \notin {"queued", "running"} PROVE Holders(i) = {}
      <3>1. /\ ~In(i, userQ) /\ ~In(i, bgQ)
            /\ \A v \in Workers : gotUser[v] # i /\ gotBg[v] # i /\ item[v] # i
        BY <2>0, <2>2, Names DEF QueuesInv, GetsInv, RunsInv, Queued
      <3>2. DOMAIN userQ = 1..Len(userQ) /\ DOMAIN bgQ = 1..Len(bgQ)
        BY <2>0 DEF TypeOK
      <3>3. QED
        BY <3>1, <3>2 DEF Holders, In
    <2>3. QED
      BY <2>1, <2>2
  <1>2. QED
    BY <1>1, Invariance, PTL

-----------------------------------------------------------------------------
(* The bus implements EventDelivery *)

\* The calls as EventDelivery sees them.
Seen == [i \in Items |-> Delivered(call[i])]

\* A step that moves the item i moves it for EventDelivery.
LEMMA SeenMoves ==
  ASSUME TypeOK, NEW i \in Items, NEW s, call' = [call EXCEPT ![i] = s]
  PROVE  Seen' = [Seen EXCEPT ![i] = Delivered(s)]
  BY DEF Seen, TypeOK

\* What EventDelivery calls each state.
LEMMA SeenStates ==
  /\ Delivered("new") = "new" /\ Delivered("putting") = "offered"
  /\ Delivered("queued") = "accepted" /\ Delivered("running") = "running"
  /\ Delivered("direct") = "running" /\ Delivered("handled") = "handled"
  /\ Delivered("dropped") = "discarded"
  BY DEF Delivered

\* An emit accepts the item, has it run in place, or accepts it for an older one.
LEMMA EmitDelivers ==
  ASSUME BInv, NEW i \in Items, Emit(i)
  PROVE  Delivery!Next
  <1>0. TypeOK /\ call[i] = "new" /\ Seen[i] = "new"
    BY SeenStates DEF BInv, Emit, EmitDirect, EmitUser, EmitUserFull, EmitBg, MayEmit, Seen
  <1>1. ASSUME NEW s \in {"direct", "putting", "queued"}, call' = [call EXCEPT ![i] = s],
               UNCHANGED pool
        PROVE  Delivery!Next
    <2>1. Seen' = [Seen EXCEPT ![i] = Delivered(s)]
      BY <1>0, <1>1, SeenMoves
    <2>2. CASE s = "direct"
      <3>1. Delivery!RunInPlace(i)
        BY <1>0, <1>1, <2>1, <2>2, SeenStates DEF Delivery!RunInPlace, Delivery!Move, Seen
      <3>2. QED
        BY <3>1 DEF Delivery!Next
    <2>3. CASE s = "queued"
      <3>1. Delivery!Accept(i)
        BY <1>0, <1>1, <2>1, <2>3, SeenStates DEF Delivery!Accept, Delivery!Move, Seen
      <3>2. QED
        BY <3>1 DEF Delivery!Next
    <2>4. CASE s = "putting"
      <3>1. Delivery!Offer(i)
        BY <1>0, <1>1, <2>1, <2>4, SeenStates DEF Delivery!Offer, Delivery!Move, Seen
      <3>2. QED
        BY <3>1 DEF Delivery!Next
    <2>5. QED
      BY <1>1, <2>2, <2>3, <2>4
  <1>2. CASE EmitDirect(i) \/ EmitUser(i) \/ EmitUserFull(i)
    BY <1>1, <1>2 DEF EmitDirect, EmitUser, EmitUserFull
  <1>3. CASE EmitBg(i)
    <2>1. CASE Len(bgQ) < BgCap
      BY <1>1, <1>3, <2>1 DEF EmitBg, PutDropOldest
    <2>2. CASE ~(Len(bgQ) < BgCap)
      <3> DEFINE b == Head(bgQ)
      <3>1. bgQ \in Seq(Items) /\ bgQ # <<>>
        BY <1>0, <2>2, ConstantsAssumption DEF TypeOK
      <3>2. b \in Items /\ Queued(b, "bg")
        BY <3>1, TailFacts DEF BInv, QueuesInv
      <3>3. call' = [call EXCEPT ![b] = "dropped", ![i] = "queued"] /\ UNCHANGED pool
        BY <1>3, <2>2 DEF EmitBg, PutDropOldest
      <3> HIDE DEF b
      <3>4. Seen' = [Seen EXCEPT ![b] = Delivered("dropped"), ![i] = Delivered("queued")]
        BY <1>0, <3>2, <3>3 DEF Seen, TypeOK
      <3>5. b # i /\ Seen[b] = "accepted"
        BY <1>0, <3>2, SeenStates DEF Queued, Seen
      <3>6. Seen' = [Seen EXCEPT ![i] = "accepted", ![b] = "discarded"]
        BY <3>4, <3>5, SeenStates DEF Seen
      <3>7. Delivery!AcceptForAnother(i, b)
        BY <1>0, <3>2, <3>3, <3>5, <3>6 DEF Delivery!AcceptForAnother, Seen, Queued
      <3>8. QED
        BY <3>2, <3>7 DEF Delivery!Next
    <2>3. QED
      BY <2>1, <2>2
  <1>4. QED
    BY <1>2, <1>3 DEF Emit

\* A worker that takes an item runs it, and may have to discard another.
LEMMA WorkerDelivers ==
  ASSUME BInv, NEW w \in Workers, Worker(w) \/ Finish(w)
  PROVE  [Delivery!Next]_(Delivery!vars)
  <1>0. TypeOK /\ QueuesInv /\ GetsInv /\ RunsInv
    BY DEF BInv
  <1>1. ASSUME NEW i \in Items, call[i] = "queued", call' = [call EXCEPT ![i] = "running"],
               UNCHANGED pool
        PROVE  Delivery!Next
    <2>1. Seen' = [Seen EXCEPT ![i] = Delivered("running")]
      BY <1>0, <1>1, SeenMoves
    <2>2. Delivery!Run(i)
      BY <1>1, <2>1, SeenStates DEF Delivery!Run, Delivery!Move, Seen
    <2>3. QED
      BY <2>2 DEF Delivery!Next
  <1>2. ASSUME call' = call, UNCHANGED pool PROVE UNCHANGED Delivery!vars
    BY <1>2 DEF Delivery!vars
  <1>3. CASE GetUser(w)
    <2>1. Head(userQ) \in Items \cup {Sentinel} /\ In(Head(userQ), userQ)
      BY <1>0, <1>3, TailFacts DEF GetUser, TypeOK
    <2>2. CASE Head(userQ) = Sentinel
      BY <1>2, <1>3, <2>2 DEF GetUser, Started
    <2>3. CASE Head(userQ) \in Items
      <3>1. call[Head(userQ)] = "queued" /\ Head(userQ) # Sentinel
        BY <1>0, <2>1, <2>3, Names DEF QueuesInv, Queued
      <3>2. QED
        BY <1>1, <1>3, <2>3, <3>1 DEF GetUser, Started
    <2>4. QED
      BY <2>1, <2>2, <2>3
  <1>4. CASE Select(w) \/ UserArrives(w) \/ BgArrives(w)
    BY <1>2, <1>4 DEF Select, UserArrives, BgArrives
  <1>5. CASE WakeForBg(w)
    <2>1. gotBg[w] \in Items /\ gotBg[w] # Sentinel /\ call[gotBg[w]] = "queued"
      BY <1>0, <1>5, Names DEF WakeForBg, TypeOK, GetsInv, Queued
    <2>2. QED
      BY <1>1, <1>5, <2>1 DEF WakeForBg, Started
  <1>6. CASE WakeForUser(w)
    <2> DEFINE u == gotUser[w]
               b == gotBg[w]
    <2>1. /\ u \in Items \cup {Sentinel} /\ b \in Items \cup {Nobody}
          /\ u \in Items => Queued(u, "user") /\ u # Sentinel
          /\ b \in Items => Queued(b, "bg")
      BY <1>0, <1>6, Names DEF WakeForUser, TypeOK, GetsInv
    <2>2. /\ UNCHANGED pool
          /\ \/ call' = Started(u, call)
             \/ b # Nobody /\ call' = Started(u, [call EXCEPT ![b] = "dropped"])
      BY <1>6 DEF WakeForUser, PutBack
    <2> HIDE DEF u, b
    <2>3. CASE call' = Started(u, call)
      <3>1. CASE u = Sentinel
        BY <1>2, <2>2, <2>3, <3>1 DEF Started
      <3>2. CASE u \in Items
        BY <1>1, <2>1, <2>2, <2>3, <3>2 DEF Started, Queued
      <3>3. QED
        BY <2>1, <3>1, <3>2
    <2>4. CASE b # Nobody /\ call' = Started(u, [call EXCEPT ![b] = "dropped"])
      <3>1. b \in Items /\ Queued(b, "bg") /\ Seen[b] = "accepted"
        BY <2>1, <2>4, SeenStates DEF Seen, Queued
      <3>2. CASE u = Sentinel
        <4>1. call' = [call EXCEPT ![b] = "dropped"]
          BY <2>4, <3>2 DEF Started
        <4>2. Seen' = [Seen EXCEPT ![b] = Delivered("dropped")]
          BY <1>0, <3>1, <4>1, SeenMoves
        <4>3. Delivery!Discard(b)
          BY SeenStates, <2>2, <3>1, <4>2 DEF Delivery!Discard, Delivery!Move, Seen, Queued
        <4>4. QED
          BY <3>1, <4>3 DEF Delivery!Next
      <3>3. CASE u \in Items
        <4>1. call' = [call EXCEPT ![b] = "dropped", ![u] = "running"]
          BY <2>1, <2>4, <3>3 DEF Started
        <4>2. Seen' = [Seen EXCEPT ![b] = Delivered("dropped"), ![u] = Delivered("running")]
          BY <1>0, <3>1, <3>3, <4>1 DEF Seen, TypeOK
        <4>3. b # u /\ Seen[u] = "accepted"
          BY <2>1, <3>1, <3>3, SeenStates DEF Queued, Seen
        <4>4. Seen' = [Seen EXCEPT ![u] = "running", ![b] = "discarded"]
          BY <4>2, <4>3, SeenStates DEF Seen
        <4>5. Delivery!RunAndDiscard(u, b)
          BY <2>2, <3>1, <4>3, <4>4 DEF Delivery!RunAndDiscard, Seen, Queued
        <4>6. QED
          BY <3>1, <3>3, <4>5 DEF Delivery!Next
      <3>4. QED
        BY <2>1, <3>2, <3>3
    <2>5. QED
      BY <2>2, <2>3, <2>4
  <1>7. CASE Finish(w)
    <2>1. item[w] \in Items /\ call[item[w]] = "running"
      BY <1>0, <1>7 DEF Finish, RunsInv, TypeOK
    <2>2. Seen' = [Seen EXCEPT ![item[w]] = Delivered("handled")] /\ UNCHANGED pool
      BY <1>0, <1>7, <2>1, SeenMoves DEF Finish
    <2>3. Delivery!Handled(item[w])
      BY <2>1, <2>2, SeenStates DEF Seen, Delivery!Handled, Delivery!Move
    <2>4. QED
      BY <2>1, <2>3 DEF Delivery!Next
  <1>8. QED
    BY <1>3, <1>4, <1>5, <1>6, <1>7 DEF Worker

\* A stop discards only what was accepted and not run.
LEMMA StopDelivers ==
  ASSUME BInv, BeginStop \/ PutSentinels \/ EndStop \/ StartWorkers
  PROVE  [Delivery!Next]_(Delivery!vars)
  <1>0. TypeOK /\ QueuesInv
    BY DEF BInv
  <1>1. CASE BeginStop
    <2>1. Delivery!BeginStop
      BY <1>1 DEF BeginStop, Delivery!BeginStop
    <2>2. QED
      BY <2>1 DEF Delivery!Next
  <1>2. CASE PutSentinels
    BY <1>2 DEF PutSentinels, Delivery!vars
  <1>3. CASE StartWorkers
    BY <1>3 DEF StartWorkers, Delivery!vars
  <1>4. CASE EndStop
    <2> DEFINE left == ItemsOf(userQ) \cup ItemsOf(bgQ)
    <2>1. ASSUME NEW i \in left PROVE i \in Items /\ call[i] = "queued"
      <3>1. (\E k \in 1..Len(userQ) : userQ[k] = i) \/ (\E k \in 1..Len(bgQ) : bgQ[k] = i)
        BY <1>0, <2>1 DEF TypeOK, ItemsOf, ToSet
      <3>2. i \in Items
        BY <1>0, <2>1, <3>1 DEF TypeOK, ItemsOf
      <3>3. QED
        BY <1>0, <3>1, <3>2 DEF QueuesInv, In, Queued
    <2>2. /\ pool = "stopping" /\ pool' = "down"
          /\ call' = [i \in Items |-> IF i \in left THEN "dropped" ELSE call[i]]
      BY <1>4 DEF EndStop, Drain
    <2> HIDE DEF left
    <2>3. Seen' = [i \in Items |-> IF i \in left THEN "discarded" ELSE Seen[i]]
      BY <2>2, SeenStates DEF Seen
    <2>4. left \in SUBSET Items /\ \A i \in left : Seen[i] = "accepted"
      BY <2>1, SeenStates DEF Seen
    <2>5. Delivery!EndStop(left)
      BY <2>2, <2>3, <2>4 DEF Delivery!EndStop, Seen
    <2>6. QED
      BY <2>4, <2>5 DEF Delivery!Next
  <1>5. QED
    BY <1>1, <1>2, <1>3, <1>4

\* Every step of the bus is a step of EventDelivery or leaves what it sees alone.
LEMMA StepDelivers == BInv /\ [Next]_vars => [Delivery!Next]_(Delivery!vars)
  <1> SUFFICES ASSUME BInv, [Next]_vars PROVE [Delivery!Next]_(Delivery!vars)
    OBVIOUS
  <1>0. TypeOK
    BY DEF BInv
  <1>1. ASSUME NEW i \in Items, PutBlocked(i) \/ CancelPut(i) PROVE Delivery!Next
    <2>1. CASE PutBlocked(i)
      <3>1. call[i] = "putting" /\ call' = [call EXCEPT ![i] = "queued"] /\ UNCHANGED pool
        BY <2>1 DEF PutBlocked
      <3>2. Seen' = [Seen EXCEPT ![i] = Delivered("queued")]
        BY <1>0, <3>1, SeenMoves
      <3>3. Delivery!Accept(i)
        BY <3>1, <3>2, SeenStates DEF Seen, Delivery!Accept, Delivery!Move
      <3>4. QED
        BY <3>3 DEF Delivery!Next
    <2>2. CASE CancelPut(i)
      <3>1. call[i] = "putting" /\ call' = [call EXCEPT ![i] = "dropped"] /\ UNCHANGED pool
        BY <2>2 DEF CancelPut
      <3>2. Seen' = [Seen EXCEPT ![i] = Delivered("dropped")]
        BY <1>0, <3>1, SeenMoves
      <3>3. Delivery!Withdraw(i)
        BY <3>1, <3>2, SeenStates DEF Seen, Delivery!Withdraw, Delivery!Move
      <3>4. QED
        BY <3>3 DEF Delivery!Next
    <2>3. QED
      BY <1>1, <2>1, <2>2
  <1>2. ASSUME NEW i \in Items, RunDirect(i) PROVE Delivery!Next
    <2>0. call[i] = "direct" /\ call' = [call EXCEPT ![i] = "handled"] /\ UNCHANGED pool
      BY <1>2 DEF RunDirect
    <2>1. Seen' = [Seen EXCEPT ![i] = Delivered("handled")]
      BY <1>0, <2>0, SeenMoves
    <2>2. Delivery!Handled(i)
      BY <2>0, <2>1, SeenStates DEF Seen, Delivery!Handled, Delivery!Move
    <2>3. QED
      BY <2>2 DEF Delivery!Next
  <1>3. CASE UNCHANGED vars
    BY <1>3 DEF vars, Delivery!vars
  <1>4. QED
    BY <1>1, <1>2, <1>3, EmitDelivers, WorkerDelivers, StopDelivers DEF Next

\* The bus implements EventDelivery: no call of a handler is run twice, none is settled
\* without having been run or discarded, and a call for a user event is discarded only by
\* a stop, or by its caller while it waits for room.
THEOREM DeliveryTheorem == Spec => DeliveryKept
  <1>1. Init => Delivery!Init
    BY SeenStates DEF Init, Delivery!Init
  <1>2. QED
    BY <1>1, StepDelivers, Invariance, PTL DEF Spec, DeliveryKept, Delivery!Spec

(***************************************************************************)
(* What the session streams, which take the events to the clients, keep    *)
(* for any number of connections of either kind, any batch size and any    *)
(* room in the gateway's channel.                                          *)
(***************************************************************************)
Client == INSTANCE ClientStream

\* Entries a reconnect may start behind.
StreamSettled == written \cup Client!InAChannel \cup lost

\* A connection's loop is never ahead of the stream, its socket never ahead of its loop,
\* and in the Python endpoint the two are level.
LoopInv ==
  \A c \in Conns :
    /\ sent[c] <= last[c] /\ last[c] + batch[c] <= stream
    /\ c \notin Gateways => sent[c] = last[c]
    /\ stage[c] = "sending" => batch[c] > 0
    /\ stage[c] \in {"new", "opening", "closed"} => last[c] = 0 /\ batch[c] = 0

\* Each connection started behind settled entries, and so did the cursor.
SettledInv == /\ 1..cursor \subseteq StreamSettled
              /\ \A c \in Conns : 1..sent[c] \subseteq StreamSettled

ClientInv == Client!TypeOK /\ cursor <= stream /\ LoopInv /\ SettledInv

\* What the loop of a connection has handled is settled, too.
LEMMA HandledIsSettled ==
  ASSUME ClientInv, NEW c \in Conns
  PROVE  1..last[c] \subseteq StreamSettled
<1> USE DEF ClientInv, Client!TypeOK, LoopInv, SettledInv
<1>1. CASE c \in Gateways
  <2>1. Client!Channel(c) \subseteq StreamSettled BY <1>1 DEF StreamSettled, Client!InAChannel
  <2>2. 1..last[c] \subseteq 1..sent[c] \cup Client!Channel(c) BY DEF Client!Channel,
      Client!Entries
  <2> QED BY <2>1, <2>2
<1>2. CASE c \notin Gateways BY <1>2
<1> QED BY <1>1, <1>2

LEMMA ClientInitInv == Client!Init => ClientInv
BY StreamAssumption DEF Client!Init, ClientInv, Client!TypeOK, LoopInv, SettledInv,
    StreamSettled, Client!Entries, Client!Stages, Client!Running

\* The types and the bounds of the loops survive every step.
LEMMA LoopStep ==
  ASSUME ClientInv, [Client!Next]_Client!vars
  PROVE  Client!TypeOK' /\ (cursor <= stream)' /\ LoopInv'
<1> USE StreamAssumption DEF ClientInv, Client!TypeOK, LoopInv, Client!Entries, Client!Stages,
    Client!Running
<1>1. CASE Client!AddMessage BY <1>1 DEF Client!AddMessage, Client!loop, Client!sockets
<1>2. CASE Client!CursorExpires BY <1>2 DEF Client!CursorExpires, Client!loop, Client!sockets
<1>3. ASSUME NEW c \in Conns, Client!Open(c) PROVE Client!TypeOK' /\ (cursor <= stream)' /\
    LoopInv'
  BY <1>3 DEF Client!Open, Client!Goto, Client!sockets
<1>4. ASSUME NEW c \in Conns, Client!Break(c) PROVE Client!TypeOK' /\ (cursor <= stream)' /\
    LoopInv'
  BY <1>4 DEF Client!Break, Client!loop
<1>5. ASSUME NEW c \in Conns, Client!LoadCursor(c) PROVE Client!TypeOK' /\ (cursor <= stream)'
    /\ LoopInv'
  <2> USE <1>5 DEF Client!LoadCursor, Client!Goto, Client!Fault
  <2>1. Client!TypeOK'
    <3>1. last' \in [Conns -> Client!Entries] /\ sent' \in [Conns -> Client!Entries] OBVIOUS
    <3>2. stage' \in [Conns -> Client!Stages] /\ faults' \in 0..MaxFaults OBVIOUS
    <3> QED BY <3>1, <3>2
  <2>2. (cursor <= stream)' OBVIOUS
  <2>3. LoopInv' OBVIOUS
  <2> QED BY <2>1, <2>2, <2>3
<1>6. ASSUME NEW c \in Conns, Client!Read(c) PROVE Client!TypeOK' /\ (cursor <= stream)' /\
    LoopInv'
  BY <1>6 DEF Client!Read, Client!NextBatch, Client!Goto, Client!sockets
<1>7. ASSUME NEW c \in Conns, Client!Send(c) PROVE Client!TypeOK' /\ (cursor <= stream)' /\
    LoopInv'
  <2> USE <1>7 DEF Client!Send, Client!Goto
  <2>1. Client!TypeOK'
    <3>1. last[c] + 1 \in 1..MaxMessages /\ batch[c] - 1 \in 0..Batch OBVIOUS
    <3>2. last' \in [Conns -> Client!Entries] /\ sent' \in [Conns -> Client!Entries] BY <3>1
    <3>3. batch' \in [Conns -> 0..Batch] /\ stage' \in [Conns -> Client!Stages] BY <3>1
    <3>4. written' \subseteq 1..MaxMessages BY <3>1
    <3> QED BY <3>1, <3>2, <3>3, <3>4
  <2>2. (cursor <= stream)' OBVIOUS
  <2>3. LoopInv' OBVIOUS
  <2> QED BY <2>1, <2>2, <2>3
<1>8. ASSUME NEW c \in Conns, Client!Put(c) PROVE Client!TypeOK' /\ (cursor <= stream)' /\
    LoopInv'
  BY <1>8 DEF Client!Put, Client!Goto, Client!sockets
<1>9. ASSUME NEW c \in Conns, Client!Save(c) PROVE Client!TypeOK' /\ (cursor <= stream)' /\
    LoopInv'
  <2> USE <1>9 DEF Client!Save, Client!Goto, Client!Fault, Client!sockets
  <2>1. Client!TypeOK' OBVIOUS
  <2>2. (cursor <= stream)' OBVIOUS
  <2>3. LoopInv' OBVIOUS
  <2> QED BY <2>1, <2>2, <2>3
<1>10. ASSUME NEW c \in Conns, Client!Write(c) PROVE Client!TypeOK' /\ (cursor <= stream)' /\
    LoopInv'
  <2> USE <1>10 DEF Client!Write, Client!loop
  <2>1. Client!TypeOK'
    <3>1. sent[c] + 1 \in 1..MaxMessages OBVIOUS
    <3>2. sent' \in [Conns -> Client!Entries] BY <3>1
    <3>3. written' \subseteq 1..MaxMessages BY <3>1
    <3> QED BY <3>2, <3>3
  <2>2. (cursor <= stream)' OBVIOUS
  <2>3. LoopInv' OBVIOUS
  <2> QED BY <2>1, <2>2, <2>3
<1>11. ASSUME NEW c \in Conns, Client!Close(c) PROVE Client!TypeOK' /\ (cursor <= stream)' /\
    LoopInv'
  <2> USE <1>11 DEF Client!Close, Client!Goto, Client!Channel
  <2>1. Client!TypeOK'
    <3>1. Client!Channel(c) \subseteq 1..MaxMessages OBVIOUS
    <3>2. last' \in [Conns -> Client!Entries] /\ sent' \in [Conns -> Client!Entries] OBVIOUS
    <3>3. batch' \in [Conns -> 0..Batch] /\ stage' \in [Conns -> Client!Stages] OBVIOUS
    <3> QED BY <3>1, <3>2, <3>3
  <2>2. LoopInv' OBVIOUS
  <2> QED BY <2>1, <2>2
<1>12. CASE UNCHANGED Client!vars BY <1>12 DEF Client!vars, Client!loop, Client!sockets
<1> QED
  BY <1>1, <1>2, <1>3, <1>4, <1>5, <1>6, <1>7, <1>8, <1>9, <1>10, <1>11, <1>12 DEF Client!Next,
      Client!Loop

\* Nothing settled is ever unsettled: an entry leaves a channel into a socket or with it.
LEMMA SettledStays ==
  ASSUME ClientInv, [Client!Next]_Client!vars
  PROVE  StreamSettled \subseteq StreamSettled'
<1> USE StreamAssumption DEF ClientInv, Client!TypeOK, LoopInv, Client!Entries, StreamSettled
<1>1. CASE UNCHANGED <<last, sent, written, lost>>
  BY <1>1 DEF Client!InAChannel, Client!Channel
<1>2. ASSUME NEW c \in Conns, Client!LoadCursor(c) PROVE StreamSettled \subseteq StreamSettled'
  <2>1. Client!Channel(c) = {} BY <1>2 DEF Client!LoadCursor, Client!Channel
  <2>2. \A d \in Gateways \ {c} : Client!Channel(d)' = Client!Channel(d)
    BY <1>2 DEF Client!LoadCursor, Client!Channel
  <2> QED BY <1>2, <2>1, <2>2 DEF Client!LoadCursor, Client!InAChannel
<1>3. ASSUME NEW c \in Conns, Client!Send(c) PROVE StreamSettled \subseteq StreamSettled'
  <2>1. \A d \in Gateways : Client!Channel(d)' = Client!Channel(d) BY <1>3 DEF Client!Send,
      Client!Channel
  <2> QED BY <1>3, <2>1 DEF Client!Send, Client!InAChannel
<1>4. ASSUME NEW c \in Conns, Client!Put(c) PROVE StreamSettled \subseteq StreamSettled'
  <2>1. \A d \in Gateways : Client!Channel(d) \subseteq Client!Channel(d)'
    BY <1>4 DEF Client!Put, Client!Channel, Client!sockets
  <2> QED BY <1>4, <2>1 DEF Client!Put, Client!InAChannel, Client!sockets
<1>5. ASSUME NEW c \in Conns, Client!Write(c) PROVE StreamSettled \subseteq StreamSettled'
  <2>1. \A d \in Gateways : Client!Channel(d) \subseteq Client!Channel(d)' \cup {sent[c] + 1}
    BY <1>5 DEF Client!Write, Client!Channel, Client!loop
  <2> QED BY <1>5, <2>1 DEF Client!Write, Client!InAChannel
<1>6. ASSUME NEW c \in Conns, Client!Close(c) PROVE StreamSettled \subseteq StreamSettled'
  <2>1. \A d \in Gateways \ {c} : Client!Channel(d)' = Client!Channel(d) BY <1>6 DEF
      Client!Close, Client!Channel
  <2>2. Client!Channel(c) \subseteq lost' BY <1>6 DEF Client!Close
  <2> QED BY <1>6, <2>1, <2>2 DEF Client!Close, Client!InAChannel
<1> QED
  BY <1>1, <1>2, <1>3, <1>4, <1>5, <1>6
  DEF Client!Next, Client!Loop, Client!AddMessage, Client!CursorExpires, Client!Open,
      Client!Break, Client!Read, Client!Save, Client!vars, Client!loop, Client!sockets

LEMMA SettledStep ==
  ASSUME ClientInv, [Client!Next]_Client!vars
  PROVE  SettledInv'
<1> USE DEF ClientInv, SettledInv
<1>1. StreamSettled \subseteq StreamSettled' BY SettledStays
<1>2. CASE UNCHANGED <<cursor, sent>> BY <1>1, <1>2
<1>3. CASE Client!CursorExpires
  <2>1. 1..0 = {} OBVIOUS
  <2> QED BY <1>1, <1>3, <2>1 DEF Client!CursorExpires, Client!sockets
<1>4. ASSUME NEW c \in Conns, Client!LoadCursor(c) PROVE SettledInv'
  <2>1. sent'[c] = cursor \/ sent'[c] = 0 BY <1>4 DEF Client!LoadCursor, Client!TypeOK
  <2>2. 1..sent'[c] \subseteq StreamSettled BY <2>1
  <2> QED BY <1>1, <1>4, <2>2 DEF Client!LoadCursor, Client!TypeOK
<1>5. ASSUME NEW c \in Conns, Client!Send(c) PROVE SettledInv'
  <2>1. 1..sent'[c] \subseteq 1..last[c] \cup {last[c] + 1}
    BY <1>5 DEF Client!Send, Client!TypeOK, Client!Entries
  <2>2. 1..last[c] \subseteq StreamSettled BY HandledIsSettled
  <2>3. last[c] + 1 \in StreamSettled' BY <1>5 DEF Client!Send, StreamSettled
  <2> QED BY <1>1, <1>5, <2>1, <2>2, <2>3 DEF Client!Send, Client!TypeOK
<1>6. ASSUME NEW c \in Conns, Client!Save(c) PROVE SettledInv'
  <2>1. 1..last[c] \subseteq StreamSettled BY HandledIsSettled
  <2> QED BY <1>1, <1>6, <2>1 DEF Client!Save, Client!sockets
<1>7. ASSUME NEW c \in Conns, Client!Write(c) PROVE SettledInv'
  <2>1. 1..sent'[c] \subseteq 1..sent[c] \cup {sent[c] + 1}
    BY <1>7 DEF Client!Write, Client!TypeOK, Client!Entries
  <2>2. sent[c] + 1 \in StreamSettled' BY <1>7 DEF Client!Write, StreamSettled
  <2> QED BY <1>1, <1>7, <2>1, <2>2 DEF Client!Write, Client!TypeOK
<1>8. ASSUME NEW c \in Conns, Client!Close(c) PROVE SettledInv'
  <2>1. 1..sent'[c] = {} BY <1>8 DEF Client!Close, Client!TypeOK
  <2> QED BY <1>1, <1>8, <2>1 DEF Client!Close, Client!TypeOK
<1> QED
  BY <1>2, <1>3, <1>4, <1>5, <1>6, <1>7, <1>8
  DEF Client!Next, Client!Loop, Client!AddMessage, Client!Open, Client!Break, Client!Read,
      Client!Put, Client!vars, Client!loop, Client!sockets

\* The cursor, and every connection, is behind settled entries only.
THEOREM ClientInvariance == Client!Spec => []ClientInv
<1>1. ClientInv /\ [Client!Next]_Client!vars => ClientInv' BY LoopStep, SettledStep DEF ClientInv
<1> QED BY ClientInitInv, <1>1, PTL DEF Client!Spec

\* The variables of the stream and of every connection keep their types and bounds.
THEOREM ClientTypeTheorem == Client!Spec => []Client!TypeOK
<1>1. ClientInv => Client!TypeOK BY DEF ClientInv
<1> QED BY ClientInvariance, <1>1, PTL

\* The saved cursor never passes an entry that no socket was given, unless a gateway
\* connection holds it or dropped it.
THEOREM CursorTheorem == Client!Spec => []CursorIsWritten
<1>1. ClientInv => CursorIsWritten
  BY DEF ClientInv, SettledInv, StreamSettled, Client!InAChannel, Client!Channel,
     CursorIsWritten, InAChannel, Channel
<1> QED BY ClientInvariance, <1>1, PTL
=============================================================================
