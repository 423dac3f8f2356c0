-------------------------- MODULE BusSubscriberProofs --------------------------
(***************************************************************************)
(* Proofs about BusSubscriber, for any finite set of processes, any number *)
(* of events, any sizes of batch, queue and pool, and any number of        *)
(* crashes, stops and failures: no event's handlers run more often than    *)
(* its routes allow, nothing unhandled is acknowledged unknowingly, and,   *)
(* absent faults, what is pending is in some process's memory.             *)
(***************************************************************************)
EXTENDS BusSubscriber, SequenceTheorems, TLAPS

\* x is in q, and q has nothing twice.
In(x, q) == \E k \in 1..Len(q) : q[k] = x
NoDup(q) == \A k, l \in 1..Len(q) : q[k] = q[l] => k = l

\* Event e has yet to be handled by process p, and is at this place of its memory.
Holds(p, place, k, e) ==
  \/ place = "batch" /\ k = 0 /\ In(e, batch[p])
  \/ place = "offered" /\ k = 0 /\ offered[p] = e
  \/ place = "queue" /\ k = 0 /\ In(e, queue[p])
  \/ place = "worker" /\ k \in DOMAIN pool[p] /\ pool[p][k].at = "run" /\ pool[p][k].ev = e

ReadOut(e) == \E i \in 1..cursor : stream[i] = e
\* Its handlers wait in the process that emitted it, or were discarded there.
Own(e) == e \in lost \/ \E p \in Procs : e \in local[p]
Base(e) == IF e <= emitted /\ ~emittedAs[e] /\ ~Own(e) THEN 1 ELSE 0
Second(e) == IF readAs[e] THEN 1 ELSE 0

\* A worker has an event unless it waits for one; it acknowledges what was handled. A last
\* XACK is for an event whose handling was cut off.
WorkersInv ==
  \A p \in Procs :
    /\ \A k \in DOMAIN pool[p] :
         /\ pool[p][k].at = "get" <=> pool[p][k].ev = None
         /\ pool[p][k].at = "ack" => runs[pool[p][k].ev] >= 1
    /\ dying[p] \subseteq cut

\* An event is in at most one XADD task or in one entry of the stream.
StreamInv ==
  /\ NoDup(stream)
  /\ \A e \in Events :
       /\ In(e, stream) => e <= emitted /\ \A p \in Procs : e \notin sending[p]
       /\ \A p, q \in Procs : e \in sending[p] /\ e \in sending[q] => p = q
       /\ \A p \in Procs : e \in sending[p] => e <= emitted

\* Only events that are not left to the readers wait for the workers of their emitter, each
\* in one process, until they are handled or discarded.
LocalInv ==
  \A e \in Events :
    /\ Own(e) => e <= emitted /\ ~emittedAs[e]
    /\ \A p \in Procs : e \in local[p] => e \notin lost
    /\ \A p, q \in Procs : e \in local[p] /\ e \in local[q] => p = q

\* An event that has yet to be handled is in one place of one process.
HeldInv ==
  /\ \A p \in Procs : NoDup(batch[p]) /\ NoDup(queue[p])
  /\ \A e \in Events, p, q \in Procs : \A u, v, k, l :
       Holds(p, u, k, e) /\ Holds(q, v, l, e) => p = q /\ u = v /\ k = l
  /\ \A e \in Events, p \in Procs : \A u, k : Holds(p, u, k, e) => ReadOut(e)

\* How often the handlers ran, by the way the event has gone.
RunsInv ==
  /\ \A e \in Events :
       /\ Base(e) <= runs[e] /\ runs[e] <= Base(e) + Second(e)
       /\ ~ReadOut(e) => ~readAs[e]
  /\ \A e \in Events, p \in Procs : \A u, k :
       Holds(p, u, k, e) => IF u = "batch" THEN ~readAs[e] ELSE readAs[e] /\ runs[e] = Base(e)

\* An event left to the readers and read is pending, or done with, or was skipped; one
\* still in a batch has yet to be taken or skipped.
AckInv ==
  \A e \in Events :
    emittedAs[e] =>
      /\ ReadOut(e) => e \in pending \/ runs[e] >= 1 \/ e \in cut \/ Skipped(e)
      /\ \A p \in Procs : In(e, batch[p]) => e \in pending \/ runs[e] >= 1 \/ e \in cut

BInv == TypeOK /\ WorkersInv /\ StreamInv /\ LocalInv /\ HeldInv /\ RunsInv /\ AckInv

-----------------------------------------------------------------------------
(* Sequences *)

\* What appending to a sequence does.
LEMMA AppendFacts ==
  ASSUME NEW S, NEW q \in Seq(S), NEW x \in S
  PROVE  /\ Append(q, x) \in Seq(S) /\ Len(q) \in Nat /\ Len(Append(q, x)) = Len(q) + 1
         /\ \A k \in 1..Len(q) : Append(q, x)[k] = q[k]
         /\ \A y : In(y, Append(q, x)) <=> In(y, q) \/ y = x
         /\ NoDup(q) /\ ~In(x, q) => NoDup(Append(q, x))
  <1>1. /\ Append(q, x) \in Seq(S) /\ Len(q) \in Nat /\ Len(Append(q, x)) = Len(q) + 1
        /\ \A k \in 1..Len(q) : Append(q, x)[k] = q[k] /\ k \in 1..Len(Append(q, x))
        /\ Append(q, x)[Len(q) + 1] = x
        /\ \A k \in 1..Len(Append(q, x)) : k = Len(q) + 1 \/ k \in 1..Len(q)
    OBVIOUS
  <1> DEFINE p == Append(q, x)
  <1> HIDE DEF p
  <1>2. ASSUME NEW y PROVE In(y, p) <=> In(y, q) \/ y = x
    BY <1>1 DEF In, p
  <1>3. NoDup(q) /\ ~In(x, q) => NoDup(p)
    BY <1>1 DEF In, NoDup, p
  <1>4. QED
    BY <1>1, <1>2, <1>3 DEF p

\* What taking the first element off a sequence does.
LEMMA TailFacts ==
  ASSUME NEW S, NEW q \in Seq(S), q # <<>>
  PROVE  /\ Tail(q) \in Seq(S) /\ Len(Tail(q)) = Len(q) - 1
         /\ Head(q) \in S /\ In(Head(q), q)
         /\ \A y : (In(y, Tail(q)) => In(y, q)) /\ (In(y, q) => y = Head(q) \/ In(y, Tail(q)))
         /\ NoDup(q) => NoDup(Tail(q)) /\ ~In(Head(q), Tail(q))
  <1>1. /\ Tail(q) \in Seq(S) /\ Len(q) \in Nat \ {0} /\ Len(Tail(q)) = Len(q) - 1
        /\ Head(q) = q[1] /\ Head(q) \in S /\ 1 \in 1..Len(q)
        /\ \A k \in 1..Len(Tail(q)) : Tail(q)[k] = q[k + 1] /\ k + 1 \in 1..Len(q)
        /\ \A k \in 1..Len(q) : k = 1 \/ (k - 1 \in 1..Len(Tail(q)) /\ Tail(q)[k - 1] = q[k])
    OBVIOUS
  <1> DEFINE p == Tail(q)
             h == Head(q)
  <1> HIDE DEF p, h
  <1>2. ASSUME NEW y PROVE (In(y, p) => In(y, q)) /\ (In(y, q) => y = h \/ In(y, p))
    BY <1>1 DEF In, p, h
  <1>3. In(h, q)
    BY <1>1 DEF In, h
  <1>4. ASSUME NoDup(q) PROVE NoDup(p) /\ ~In(h, p)
    <2>1. ASSUME NEW k \in 1..Len(p), NEW l \in 1..Len(p), p[k] = p[l]
          PROVE  k = l
      <3>1. p[k] = q[k + 1] /\ p[l] = q[l + 1] /\ k + 1 \in 1..Len(q) /\ l + 1 \in 1..Len(q)
        BY <1>1 DEF p
      <3>2. k + 1 = l + 1
        BY <1>4, <2>1, <3>1 DEF NoDup
      <3>3. QED
        BY <1>1, <3>2 DEF p
    <2>2. ASSUME NEW k \in 1..Len(p), p[k] = h PROVE FALSE
      <3>1. p[k] = q[k + 1] /\ k + 1 \in 1..Len(q) /\ h = q[1] /\ 1 \in 1..Len(q)
        BY <1>1 DEF p, h
      <3>2. k + 1 = 1
        BY <1>4, <2>2, <3>1 DEF NoDup
      <3>3. QED
        BY <1>1, <3>2 DEF p
    <2>3. QED
      BY <2>1, <2>2 DEF NoDup, In
  <1>5. QED
    BY <1>1, <1>2, <1>3, <1>4 DEF p, h

\* Nothing is in the empty sequence.
LEMMA EmptyFacts == NoDup(<<>>) /\ \A x : ~In(x, <<>>)
  BY DEF In, NoDup

\* ToSet is the set of what is in a sequence.
LEMMA ToSetFacts == ASSUME NEW S, NEW q \in Seq(S), NEW x PROVE x \in ToSet(q) <=> In(x, q)
  BY DEF ToSet, In

\* What Read takes is the part of the stream from m + 1 to n.
LEMMA SliceFacts ==
  ASSUME NEW S, NEW q \in Seq(S), NEW m \in Nat, NEW n \in 0..Len(q), m <= n
  PROVE  LET s == SubSeq(q, m + 1, n)
         IN  /\ s \in Seq(S) /\ Len(s) = n - m
             /\ \A x : In(x, s) <=> \E i \in (m + 1)..n : q[i] = x
             /\ NoDup(q) => NoDup(s)
  <1> DEFINE s == SubSeq(q, m + 1, n)
  <1>1. Len(q) \in Nat /\ n \in Nat
    BY LenProperties
  <1>2. s = [i \in 1..(n - m) |-> q[m + i]]
    <2>1. m + 1 \in 1..(Len(q) + 1) /\ n \in m..Len(q)
      BY <1>1
    <2>2. s = [i \in 1..(n - (m + 1) + 1) |-> q[(m + 1) + i - 1]]
      BY <1>1
    <2>3. QED
      BY <1>1, <2>2
  <1>3. \A i \in 1..(n - m) : m + i \in 1..Len(q) /\ q[m + i] \in S
    BY <1>1, ElementOfSeq
  <1>4. s \in Seq(S) /\ Len(s) = n - m
    BY <1>1, <1>2, <1>3, IsASeq
  <1> HIDE DEF s
  <1>5. ASSUME NEW x PROVE In(x, s) <=> \E i \in (m + 1)..n : q[i] = x
    <2>1. ASSUME NEW k \in 1..Len(s), s[k] = x PROVE \E i \in (m + 1)..n : q[i] = x
      <3>1. m + k \in (m + 1)..n /\ q[m + k] = x
        BY <1>1, <1>2, <1>4, <2>1
      <3>2. QED
        BY <3>1
    <2>2. ASSUME NEW i \in (m + 1)..n, q[i] = x PROVE \E k \in 1..Len(s) : s[k] = x
      <3>1. i - m \in 1..Len(s) /\ m + (i - m) = i
        BY <1>1, <1>4
      <3>2. s[i - m] = q[m + (i - m)]
        BY <1>2, <1>4, <3>1
      <3>3. QED
        BY <2>2, <3>1, <3>2
    <2>3. QED
      BY <2>1, <2>2 DEF In
  <1>6. ASSUME NoDup(q) PROVE NoDup(s)
    <2>1. ASSUME NEW k \in 1..Len(s), NEW l \in 1..Len(s), s[k] = s[l] PROVE k = l
      <3>1. q[m + k] = q[m + l] /\ m + k \in 1..Len(q) /\ m + l \in 1..Len(q)
        BY <1>2, <1>3, <1>4, <2>1
      <3>2. m + k = m + l
        BY <1>6, <3>1 DEF NoDup
      <3>3. QED
        BY <1>4, <3>2
    <2>2. QED
      BY <2>1 DEF NoDup
  <1>7. QED
    BY <1>4, <1>5, <1>6 DEF s

-----------------------------------------------------------------------------
(* Types *)

Worker == [at : {"get", "run", "ack"}, ev : Events \cup {None}]

\* What a worker's step does to the pools.
LEMMA BecomeFacts ==
  ASSUME TypeOK, NEW p \in Procs, NEW k \in DOMAIN pool[p], NEW at \in {"get", "run", "ack"},
         NEW e \in Events \cup {None}, Become(p, k, at, e)
  PROVE  /\ pool' \in [Procs -> Seq(Worker)]
         /\ \A q \in Procs : DOMAIN pool'[q] = DOMAIN pool[q] /\ Len(pool'[q]) = Len(pool[q])
         /\ pool'[p][k] = [at |-> at, ev |-> e]
         /\ \A q \in Procs : \A l \in DOMAIN pool[q] : q # p \/ l # k => pool'[q][l] = pool[q][l]
  <1> DEFINE r == [at |-> at, ev |-> e]
             w == [pool[p] EXCEPT ![k] = r]
  <1>1. r \in Worker /\ pool \in [Procs -> Seq(Worker)] /\ pool[p] \in Seq(Worker)
    BY DEF TypeOK, Worker
  <1>2. k \in 1..Len(pool[p]) /\ pool' = [pool EXCEPT ![p] = w]
    BY <1>1 DEF Become
  <1>3. w \in Seq(Worker) /\ Len(w) = Len(pool[p])
    BY <1>1, <1>2, ExceptSeq
  <1>4. DOMAIN w = DOMAIN pool[p] /\ w[k] = r /\ \A l \in DOMAIN pool[p] : l # k => w[l] = pool[p][l]
    BY <1>1, <1>2, ExceptSeq, LenProperties
  <1> HIDE DEF w
  <1>5. QED
    BY <1>1, <1>2, <1>3, <1>4


\* What the scaler does to the pools.
LEMMA GrowFacts ==
  ASSUME TypeOK, NEW p \in Procs, pool' = [pool EXCEPT ![p] = Append(@, IdleWorker)]
  PROVE  /\ pool' \in [Procs -> Seq(Worker)] /\ Len(pool'[p]) = Len(pool[p]) + 1
         /\ \A q \in Procs : q # p => pool'[q] = pool[q]
         /\ \A k \in DOMAIN pool'[p] :
              \/ k \in DOMAIN pool[p] /\ pool'[p][k] = pool[p][k]
              \/ pool'[p][k] = IdleWorker
  <1> DEFINE w == Append(pool[p], IdleWorker)
  <1>1. IdleWorker \in Worker /\ pool \in [Procs -> Seq(Worker)] /\ pool[p] \in Seq(Worker)
    BY DEF TypeOK, Worker, IdleWorker
  <1>2. /\ w \in Seq(Worker) /\ Len(w) = Len(pool[p]) + 1
        /\ \A k \in DOMAIN w :
             \/ k \in DOMAIN pool[p] /\ w[k] = pool[p][k]
             \/ w[k] = IdleWorker
    <2> HIDE DEF IdleWorker
    <2>1. w \in Seq(Worker) /\ Len(w) = Len(pool[p]) + 1 /\ Len(pool[p]) \in Nat
          /\ DOMAIN pool[p] = 1..Len(pool[p]) /\ DOMAIN w = 1..Len(w)
      BY <1>1, LenProperties, AppendProperties
    <2>2. /\ \A k \in 1..Len(pool[p]) : w[k] = pool[p][k]
          /\ w[Len(pool[p]) + 1] = IdleWorker
      BY <1>1, AppendProperties
    <2>3. \A k \in 1..Len(w) : k \in 1..Len(pool[p]) \/ k = Len(pool[p]) + 1
      BY <2>1
    <2>4. QED
      BY <2>1, <2>2, <2>3
  <1> HIDE DEF w, IdleWorker
  <1>3. pool' = [pool EXCEPT ![p] = w]
    BY DEF w
  <1>4. QED
    BY <1>1, <1>2, <1>3

\* What retiring the youngest worker does to the pools.
LEMMA ShrinkFacts ==
  ASSUME TypeOK, NEW p \in Procs, Len(pool[p]) > MinWorkers,
         pool' = [pool EXCEPT ![p] = Front(@)]
  PROVE  /\ pool' \in [Procs -> Seq(Worker)] /\ Len(pool'[p]) = Len(pool[p]) - 1
         /\ \A q \in Procs : q # p => pool'[q] = pool[q]
         /\ DOMAIN pool[p] = DOMAIN pool'[p] \cup {Len(pool[p])}
         /\ \A k \in DOMAIN pool'[p] : pool'[p][k] = pool[p][k] /\ k # Len(pool[p])
  <1> DEFINE n == Len(pool[p])
             w == SubSeq(pool[p], 1, n - 1)
  <1>1. pool \in [Procs -> Seq(Worker)] /\ pool[p] \in Seq(Worker)
    BY DEF TypeOK, Worker
  <1>2. n \in Nat \ {0} /\ n - 1 \in Nat /\ DOMAIN pool[p] = 1..n
    BY <1>1, LenProperties, ConstantsAssumption
  <1>3. w \in Seq(Worker) /\ Len(w) = n - 1 /\ DOMAIN w = 1..(n - 1)
        /\ \A k \in 1..(n - 1) : w[k] = pool[p][k]
    BY <1>1, <1>2
  <1>4. pool' = [pool EXCEPT ![p] = w]
    BY DEF Front
  <1>5. 1..n = 1..(n - 1) \cup {n} /\ \A k \in 1..(n - 1) : k # n
    BY <1>2
  <1> HIDE DEF w, n
  <1>6. pool'[p] = w /\ \A q \in Procs : q # p => pool'[q] = pool[q]
    BY <1>1, <1>4
  <1>7. pool' \in [Procs -> Seq(Worker)]
    BY <1>1, <1>3, <1>4
  <1>8. QED
    BY <1>2, <1>3, <1>5, <1>6, <1>7 DEF n

\* The pool a process starts with.
LEMMA FreshFacts ==
  /\ FreshPool \in Seq(Worker) /\ Len(FreshPool) = MinWorkers
  /\ \A k \in DOMAIN FreshPool : FreshPool[k] = IdleWorker
  <1>1. IdleWorker \in Worker
    BY DEF IdleWorker, Worker
  <1> HIDE DEF IdleWorker
  <1>2. MinWorkers \in Nat
    BY ConstantsAssumption
  <1>3. QED
    BY <1>1, <1>2, IsASeq DEF FreshPool

\* Who has a worker's event, by what the worker does.
LEMMA WorkerFacts ==
  ASSUME TypeOK, WorkersInv, NEW p \in Procs, NEW k \in DOMAIN pool[p]
  PROVE  /\ pool[p][k] \in Worker /\ pool[p][k].ev \in Events \cup {None}
         /\ pool[p][k].at \in {"get", "run", "ack"}
         /\ pool[p][k].at # "get" => pool[p][k].ev \in Events
  <1>1. pool[p] \in Seq(Worker)
    BY DEF TypeOK, Worker
  <1>2. pool[p][k] \in Worker
    BY <1>1, ElementOfSeq, LenProperties
  <1>3. QED
    BY <1>2 DEF Worker, WorkersInv

\* Every state has the types of TypeOK.
LEMMA TypeStep == ASSUME TypeOK, WorkersInv, [Next]_vars PROVE TypeOK'
  <1> USE DEF marks, sent, own, memory
  <1>1. ASSUME Toggle PROVE TypeOK'
    <2>1. toggles' \in 0..MaxToggles
      BY <1>1, ConstantsAssumption DEF Toggle, TypeOK
    <2>2. (auth' = ~auth \/ auth' = auth) /\ (go' = ~go \/ go' = go)
      BY <1>1, Zenon DEF Toggle
    <2>3. auth' \in BOOLEAN /\ go' \in BOOLEAN
      BY <2>2, Zenon DEF TypeOK
    <2>4. QED
      BY <1>1, <2>1, <2>3 DEF Toggle, TypeOK
  <1>2. ASSUME NEW p \in Procs, Refresh(p) \/ RefreshGo(p) PROVE TypeOK'
    <2>1. snap' \in [Procs -> BOOLEAN] /\ goSnap' \in [Procs -> BOOLEAN]
      BY <1>2 DEF Refresh, RefreshGo, TypeOK
    <2>2. QED
      BY <1>2, <2>1 DEF Refresh, RefreshGo, TypeOK
  <1>2a. ASSUME NEW p \in Procs, NEW e \in Events, LocalHandle(p, e) PROVE TypeOK'
    <2>1. runs' \in [Events -> Nat]
      BY <1>2a DEF LocalHandle, TypeOK
    <2>2. local' \in [Procs -> SUBSET Events]
      BY <1>2a DEF LocalHandle, TypeOK
    <2>3. QED
      BY <1>2a, <2>1, <2>2 DEF LocalHandle, TypeOK
  <1>2b. ASSUME NEW p \in Procs, NEW e \in Events, LocalDrop(p, e) PROVE TypeOK'
    <2>1. faults' \in 0..MaxFaults
      BY <1>2b, ConstantsAssumption DEF LocalDrop, TypeOK
    <2>2. local' \in [Procs -> SUBSET Events]
      BY <1>2b DEF LocalDrop, TypeOK
    <2>3. QED
      BY <1>2b, <2>1, <2>2 DEF LocalDrop, TypeOK
  <1>3. ASSUME NEW p \in Procs, Emit(p) PROVE TypeOK'
    <2>1. emitted' \in Events /\ emitted' \in 0..NEvents
      BY <1>3, ConstantsAssumption DEF Emit, TypeOK, Events
    <2> DEFINE Way(left) ==
                 /\ emittedAs' = [emittedAs EXCEPT ![emitted'] = left]
                 /\ local' = IF left THEN local ELSE [local EXCEPT ![p] = @ \cup {emitted'}]
    <2> HIDE DEF Way
    <2>1a. snap[p] \in BOOLEAN /\ goSnap[p] \in BOOLEAN
      BY DEF TypeOK
    <2>1b. \E left \in {snap[p], snap[p] \/ goSnap[p]} : Way(left)
      BY <1>3, Zenon DEF Emit, Way
    <2>1c. ASSUME snap[p] = TRUE PROVE \E left \in BOOLEAN : Way(left)
      <3>1. Way(TRUE)
        BY <2>1b, <2>1c
      <3>2. QED
        BY <3>1
    <2>1d. ASSUME snap[p] = FALSE PROVE \E left \in BOOLEAN : Way(left)
      <3>1. Way(FALSE) \/ Way(goSnap[p])
        BY <2>1b, <2>1d
      <3>2. QED
        BY <2>1a, <3>1
    <2>1e. \E left \in BOOLEAN : Way(left)
      BY <2>1a, <2>1c, <2>1d
    <2> USE DEF Way
    <2>2. PICK left \in BOOLEAN :
            /\ emittedAs' = [emittedAs EXCEPT ![emitted'] = left]
            /\ local' = IF left THEN local ELSE [local EXCEPT ![p] = @ \cup {emitted'}]
      BY <2>1e, Zenon
    <2>3. /\ sending' \in [Procs -> SUBSET Events]
          /\ emittedAs' \in [Events -> BOOLEAN]
      BY <1>3, <2>1, <2>2 DEF Emit, TypeOK
    <2>4. local' \in [Procs -> SUBSET Events]
      BY <2>1, <2>2 DEF TypeOK
    <2>5. QED
      BY <1>3, <2>1, <2>3, <2>4 DEF Emit, TypeOK
  <1>4. ASSUME NEW p \in Procs, NEW e \in Events, Xadd(p, e) PROVE TypeOK'
    <2>1. stream' \in Seq(Events) /\ Len(stream') = Len(stream) + 1 /\ Len(stream) \in Nat
      BY <1>4, AppendFacts DEF Xadd, TypeOK
    <2>2. cursor \in 0..Len(stream')
      BY <2>1 DEF TypeOK
    <2>3. QED
      BY <1>4, <2>1, <2>2 DEF Xadd, TypeOK
  <1>5. ASSUME NEW p \in Procs, NEW e \in Events, XaddFails(p, e) PROVE TypeOK'
    <2>1. faults' \in 0..MaxFaults
      BY <1>5, ConstantsAssumption DEF XaddFails, TypeOK
    <2>2. QED
      BY <1>5, <2>1 DEF XaddFails, TypeOK
  <1>6. ASSUME NEW p \in Procs, Read(p) PROVE TypeOK'
    <2> DEFINE n == IF cursor + Batch <= Len(stream) THEN cursor + Batch ELSE Len(stream)
               fresh == SubSeq(stream, cursor + 1, n)
    <2>1. /\ stream \in Seq(Events) /\ cursor \in Nat /\ Len(stream) \in Nat /\ cursor <= n
          /\ n \in 0..Len(stream)
      BY <1>6, ConstantsAssumption, LenProperties DEF Read, TypeOK
    <2> HIDE DEF n
    <2>2. fresh \in Seq(Events)
      BY <2>1, SliceFacts
    <2>3. ToSet(fresh) \subseteq Events
      BY <2>2, ElementOfSeq, LenProperties DEF ToSet
    <2>4. cursor' = n /\ batch' = [batch EXCEPT ![p] = fresh] /\ pending' = pending \cup ToSet(fresh)
      BY <1>6 DEF Read, n
    <2> HIDE DEF fresh
    <2>5. QED
      BY <1>6, <2>1, <2>2, <2>3, <2>4 DEF Read, TypeOK
  <1>7. ASSUME NEW p \in Procs, SkipEntry(p) PROVE TypeOK'
    <2>1. Tail(batch[p]) \in Seq(Events) /\ Head(batch[p]) \in Events
      BY <1>7, TailFacts DEF SkipEntry, TypeOK
    <2>2. faults' \in 0..MaxFaults /\ pending' \subseteq Events
      BY <1>7, ConstantsAssumption DEF SkipEntry, TypeOK
    <2>3. QED
      BY <1>7, <2>1, <2>2 DEF SkipEntry, TypeOK
  <1>8. ASSUME NEW p \in Procs, TakeEntry(p) PROVE TypeOK'
    <2>1. Tail(batch[p]) \in Seq(Events) /\ Head(batch[p]) \in Events
      BY <1>8, TailFacts DEF TakeEntry, TypeOK
    <2>2. QED
      BY <1>8, <2>1 DEF TakeEntry, TypeOK
  <1>9. ASSUME NEW p \in Procs, PutEntry(p) PROVE TypeOK'
    <2>1. /\ Append(queue[p], offered[p]) \in Seq(Events)
          /\ Len(Append(queue[p], offered[p])) <= QCap
      BY <1>9, AppendFacts, ConstantsAssumption DEF PutEntry, TypeOK
    <2>2. QED
      BY <1>9, <2>1 DEF PutEntry, TypeOK
  <1>10. ASSUME NEW p \in Procs, NEW k, StartHandlers(p, k) PROVE TypeOK'
    <2>1. /\ Tail(queue[p]) \in Seq(Events) /\ Head(queue[p]) \in Events
          /\ Len(Tail(queue[p])) <= QCap
      BY <1>10, TailFacts, LenProperties, ConstantsAssumption DEF StartHandlers, TypeOK
    <2>2. /\ pool' \in [Procs -> Seq(Worker)]
          /\ \A q \in Procs : Len(pool'[q]) = Len(pool[q])
      BY <1>10, <2>1, BecomeFacts DEF StartHandlers
    <2>3. QED
      BY <1>10, <2>1, <2>2 DEF StartHandlers, TypeOK, Worker
  <1>11. ASSUME NEW p \in Procs, NEW k, EndHandlers(p, k) PROVE TypeOK'
    <2>1. pool[p][k].ev \in Events /\ k \in DOMAIN pool[p]
      BY <1>11, WorkerFacts DEF EndHandlers, WorkersInv
    <2>2. /\ pool' \in [Procs -> Seq(Worker)]
          /\ \A q \in Procs : Len(pool'[q]) = Len(pool[q])
      BY <1>11, <2>1, BecomeFacts DEF EndHandlers
    <2>3. runs' \in [Events -> Nat]
      BY <1>11, <2>1 DEF EndHandlers, TypeOK
    <2>4. QED
      BY <1>11, <2>2, <2>3 DEF EndHandlers, TypeOK, Worker
  <1>12. ASSUME NEW p \in Procs, NEW k, Ack(p, k) \/ AckFails(p, k) PROVE TypeOK'
    <2>1. /\ pool' \in [Procs -> Seq(Worker)]
          /\ \A q \in Procs : Len(pool'[q]) = Len(pool[q])
      BY <1>12, BecomeFacts DEF Ack, AckFails
    <2>2. faults' \in 0..MaxFaults
      BY <1>12, ConstantsAssumption DEF Ack, AckFails, TypeOK
    <2>3. QED
      BY <1>12, <2>1, <2>2 DEF Ack, AckFails, TypeOK, Worker
  <1>13. ASSUME NEW p \in Procs, ScaleUp(p) PROVE TypeOK'
    <2>1. /\ pool' \in [Procs -> Seq(Worker)] /\ Len(pool'[p]) = Len(pool[p]) + 1
          /\ \A q \in Procs : q # p => pool'[q] = pool[q]
      BY <1>13, GrowFacts DEF ScaleUp
    <2>2. Len(pool'[p]) \in MinWorkers..MaxWorkers
      BY <1>13, <2>1, ConstantsAssumption DEF ScaleUp, TypeOK
    <2>3. QED
      BY <1>13, <2>1, <2>2 DEF ScaleUp, TypeOK, Worker
  <1>14. ASSUME NEW p \in Procs, Retire(p) PROVE TypeOK'
    <2>1. /\ pool' \in [Procs -> Seq(Worker)] /\ Len(pool'[p]) = Len(pool[p]) - 1
          /\ \A q \in Procs : q # p => pool'[q] = pool[q]
      BY <1>14, ShrinkFacts DEF Retire
    <2>2. Len(pool'[p]) \in MinWorkers..MaxWorkers
      BY <1>14, <2>1, ConstantsAssumption DEF Retire, TypeOK
    <2> DEFINE last == pool[p][Len(pool[p])]
    <2>3. last.ev \in Events \cup {None} /\ (last.at = "run" => last.ev \in Events)
      <3>1. Len(pool[p]) \in DOMAIN pool[p]
        BY <1>14, ShrinkFacts DEF Retire
      <3>2. QED
        BY <3>1, WorkerFacts
    <2>4. retires' \in 0..MaxRetires
      BY <1>14, ConstantsAssumption DEF Retire, TypeOK
    <2>5. dying' \in [Procs -> SUBSET Events] /\ cut' \subseteq Events
      BY <1>14, <2>3 DEF Retire, TypeOK
    <2>6. QED
      BY <1>14, <2>1, <2>2, <2>4, <2>5 DEF Retire, TypeOK, Worker
  <1>15. ASSUME NEW p \in Procs, NEW e \in Events, LastAck(p, e) PROVE TypeOK'
    BY <1>15 DEF LastAck, TypeOK
  <1>16. ASSUME NEW p \in Procs, Stop(p) \/ Crash(p) PROVE TypeOK'
    <2>1. InHandlers(p) \subseteq Events /\ Busy(p) \subseteq Events
      BY WorkerFacts DEF InHandlers, Busy, WorkersInv
    <2>2. faults' \in 0..MaxFaults
      BY <1>16, ConstantsAssumption DEF Stop, Crash, Forget, TypeOK
    <2>3. Len(<<>>) <= QCap /\ \A S : <<>> \in Seq(S)
      BY ConstantsAssumption
    <2>4. dying' \in [Procs -> SUBSET Events] /\ cut' \subseteq Events
      BY <1>16, <2>1 DEF Stop, Crash, TypeOK
    <2>5. /\ batch' \in [Procs -> Seq(Events)] /\ queue' \in [Procs -> Seq(Events)]
          /\ pool' \in [Procs -> Seq(Worker)] /\ \A q \in Procs : Len(queue'[q]) <= QCap
      <3>1. /\ batch' = [batch EXCEPT ![p] = <<>>] /\ queue' = [queue EXCEPT ![p] = <<>>]
            /\ pool' = [pool EXCEPT ![p] = <<>>]
        BY <1>16 DEF Stop, Crash, Forget
      <3>2. /\ batch' \in [Procs -> Seq(Events)] /\ queue' \in [Procs -> Seq(Events)]
            /\ pool' \in [Procs -> Seq(Worker)]
        BY <2>3, <3>1 DEF TypeOK, Worker
      <3>3. \A q \in Procs : Len(queue'[q]) <= QCap
        BY <2>3, <3>1 DEF TypeOK
      <3>4. QED
        BY <3>2, <3>3
    <2>6. ASSUME NEW q \in Procs, up'[q] PROVE Len(pool'[q]) \in MinWorkers..MaxWorkers
      <3>1. q # p /\ up[q]
        BY <1>16, <2>6 DEF Stop, Crash, Forget, TypeOK
      <3>2. pool'[q] = pool[q]
        BY <1>16, <3>1 DEF Stop, Crash, Forget, TypeOK
      <3>3. QED
        BY <3>1, <3>2 DEF TypeOK
    <2>7. /\ up' \in [Procs -> BOOLEAN] /\ offered' \in [Procs -> Events \cup {None}]
          /\ sending' \in [Procs -> SUBSET Events]
          /\ local' \in [Procs -> SUBSET Events] /\ lost' \subseteq Events
      BY <1>16 DEF Stop, Crash, Forget, TypeOK
    <2>8. QED
      BY <1>16, <2>2, <2>4, <2>5, <2>6, <2>7 DEF Stop, Crash, Forget, TypeOK, Worker
  <1>17. ASSUME NEW p \in Procs, Start(p) PROVE TypeOK'
    <2>1. /\ pool' \in [Procs -> Seq(Worker)]
          /\ pool'[p] = FreshPool /\ \A q \in Procs : q # p => pool'[q] = pool[q] /\ up'[q] = up[q]
      BY <1>17, FreshFacts DEF Start, TypeOK, Worker
    <2>2. /\ snap' \in [Procs -> BOOLEAN] /\ goSnap' \in [Procs -> BOOLEAN]
          /\ up' \in [Procs -> BOOLEAN]
      BY <1>17 DEF Start, TypeOK
    <2>3. ASSUME NEW q \in Procs, up'[q] PROVE Len(pool'[q]) \in MinWorkers..MaxWorkers
      <3>1. CASE q = p
        BY <2>1, <3>1, FreshFacts, ConstantsAssumption
      <3>2. CASE q # p
        BY <2>1, <2>3, <3>2 DEF TypeOK
      <3>3. QED
        BY <3>1, <3>2
    <2>4. QED
      BY <1>17, <2>1, <2>2, <2>3 DEF Start, TypeOK, Worker
  <1>18. CASE UNCHANGED vars
    BY <1>18 DEF vars, TypeOK
  <1>19. QED
    BY <1>1, <1>2, <1>2a, <1>2b, <1>3, <1>4, <1>5, <1>6, <1>7, <1>8, <1>9, <1>10, <1>11, <1>12, <1>13,
       <1>14, <1>15, <1>16, <1>17, <1>18 DEF Next, Loop, Work

-----------------------------------------------------------------------------
(* Workers *)

\* None is no event.
LEMMA NoneFact == None \notin Events
  BY ConstantsAssumption DEF None, Events

\* No run of handlers and no cancellation is taken back.
LEMMA GrowthStep ==
  ASSUME TypeOK, WorkersInv, [Next]_vars
  PROVE  (\A e \in Events : runs'[e] >= runs[e]) /\ cut \subseteq cut'
  <1> USE DEF marks, sent, own, memory
  <1> DEFINE Grown == (\A e \in Events : runs'[e] >= runs[e]) /\ cut \subseteq cut'
  <1>1. ASSUME runs' = runs, cut \subseteq cut' PROVE Grown
    BY <1>1 DEF TypeOK
  <1>2. ASSUME NEW x \in Events, runs' = runs \/ runs' = [runs EXCEPT ![x] = @ + 1], cut' = cut
        PROVE  Grown
    <2>1. runs \in [Events -> Nat]
      BY DEF TypeOK
    <2>2. \A e \in Events : runs'[e] >= runs[e]
      BY <1>2, <2>1
    <2>3. QED
      BY <1>2, <2>2
  <1>3. ASSUME NEW p \in Procs, NEW x \in Events, LocalHandle(p, x) \/ LocalDrop(p, x) PROVE Grown
    BY <1>2, <1>3 DEF LocalHandle, LocalDrop
  <1>4. ASSUME NEW p \in Procs, NEW k, EndHandlers(p, k) PROVE Grown
    <2>1. pool[p][k].ev \in Events
      BY <1>4, WorkerFacts DEF EndHandlers, WorkersInv
    <2>2. QED
      BY <1>2, <1>4, <2>1 DEF EndHandlers
  <1>5. ASSUME NEW p \in Procs, Retire(p) \/ Stop(p) PROVE Grown
    BY <1>1, <1>5 DEF Retire, Stop
  <1>6. ASSUME NEW p \in Procs, NEW e \in Events, Xadd(p, e) \/ XaddFails(p, e) \/ LastAck(p, e)
        PROVE  Grown
    BY <1>1, <1>6 DEF Xadd, XaddFails, LastAck
  <1>7. ASSUME NEW p \in Procs,
               Refresh(p) \/ RefreshGo(p) \/ Emit(p) \/ Loop(p) \/ ScaleUp(p) \/ Crash(p) \/ Start(p)
        PROVE  Grown
    BY <1>1, <1>7 DEF Refresh, RefreshGo, Emit, Loop, Read, SkipEntry, TakeEntry, PutEntry, ScaleUp, Crash, Start
  <1>8. ASSUME NEW p \in Procs, NEW k, StartHandlers(p, k) \/ Ack(p, k) \/ AckFails(p, k)
        PROVE  Grown
    BY <1>1, <1>8 DEF StartHandlers, Ack, AckFails
  <1>9. CASE UNCHANGED vars \/ Toggle
    BY <1>1, <1>9 DEF vars, Toggle
  <1>10. QED
    BY <1>3, <1>4, <1>5, <1>6, <1>7, <1>8, <1>9 DEF Next, Work

\* A worker has an event from the moment it takes it until it has acknowledged it.
LEMMA WorkersStep == ASSUME TypeOK, WorkersInv, [Next]_vars PROVE WorkersInv'
  <1> USE DEF marks, sent, own, memory
  <1> DEFINE Fine(w) == /\ w.at = "get" <=> w.ev = None
                        /\ w.at = "ack" => runs'[w.ev] >= 1
             Pools == \A p \in Procs : \A k \in DOMAIN pool'[p] : Fine(pool'[p][k])
             Dying == \A p \in Procs : dying'[p] \subseteq cut'
  <1>1. ASSUME Pools, Dying PROVE WorkersInv'
    BY <1>1 DEF WorkersInv
  <1>2. Fine(IdleWorker)
    BY DEF IdleWorker
  <1>3. \A p \in Procs : \A k \in DOMAIN pool[p] : Fine(pool[p][k])
    <2> SUFFICES ASSUME NEW p \in Procs, NEW k \in DOMAIN pool[p] PROVE Fine(pool[p][k])
      OBVIOUS
    <2>1. CASE pool[p][k].at = "ack"
      <3>1. pool[p][k].ev \in Events /\ runs[pool[p][k].ev] >= 1
        BY <2>1, WorkerFacts DEF WorkersInv
      <3>2. runs' \in [Events -> Nat] /\ runs \in [Events -> Nat]
        BY TypeStep DEF TypeOK
      <3>3. runs'[pool[p][k].ev] >= 1
        BY <3>1, <3>2, GrowthStep
      <3>4. QED
        BY <2>1, <3>1, <3>3 DEF WorkersInv
    <2>2. QED
      BY <2>1 DEF WorkersInv
  <1>4. ASSUME pool' = pool PROVE Pools
    BY <1>3, <1>4
  <1>5. ASSUME NEW p \in Procs, NEW k \in DOMAIN pool[p], NEW at \in {"get", "run", "ack"},
               NEW e \in Events \cup {None}, Become(p, k, at, e), Fine([at |-> at, ev |-> e])
        PROVE  Pools
    <2> SUFFICES ASSUME NEW q \in Procs, NEW l \in DOMAIN pool'[q] PROVE Fine(pool'[q][l])
      OBVIOUS
    <2> HIDE DEF Fine
    <2>1. l \in DOMAIN pool[q] /\ pool'[p][k] = [at |-> at, ev |-> e]
          /\ (q # p \/ l # k => pool'[q][l] = pool[q][l])
      BY <1>5, BecomeFacts
    <2>2. QED
      BY <1>3, <1>5, <2>1
  <1>6. ASSUME dying' = dying PROVE Dying
    BY <1>6, GrowthStep DEF WorkersInv
  <1>7. ASSUME NEW p \in Procs, NEW k, StartHandlers(p, k) PROVE Pools /\ Dying
    <2>1. k \in DOMAIN pool[p] /\ Head(queue[p]) \in Events /\ Head(queue[p]) # None
      BY <1>7, TailFacts, NoneFact DEF StartHandlers, TypeOK
    <2>2. Pools
      BY <1>5, <1>7, <2>1 DEF StartHandlers
    <2>3. QED
      BY <1>6, <1>7, <2>2 DEF StartHandlers
  <1>8. ASSUME NEW p \in Procs, NEW k, EndHandlers(p, k) PROVE Pools /\ Dying
    <2> DEFINE e == pool[p][k].ev
    <2>1. k \in DOMAIN pool[p] /\ e \in Events /\ e # None
      BY <1>8, WorkerFacts DEF EndHandlers, WorkersInv
    <2>2. runs'[e] >= 1
      BY <1>8, <2>1 DEF EndHandlers, TypeOK
    <2>3. Pools
      BY <1>5, <1>8, <2>1, <2>2 DEF EndHandlers
    <2>4. QED
      BY <1>6, <1>8, <2>3 DEF EndHandlers
  <1>9. ASSUME NEW p \in Procs, NEW k, Ack(p, k) \/ AckFails(p, k) PROVE Pools /\ Dying
    BY <1>5, <1>6, <1>9 DEF Ack, AckFails
  <1>10. ASSUME NEW p \in Procs, ScaleUp(p) PROVE Pools /\ Dying
    BY <1>2, <1>3, <1>6, <1>10, GrowFacts DEF ScaleUp
  <1>11. ASSUME NEW p \in Procs, Retire(p) PROVE Pools /\ Dying
    <2>1. Pools
      <3> HIDE DEF Fine
      <3>1. /\ \A q \in Procs : q # p => pool'[q] = pool[q]
            /\ \A k \in DOMAIN pool'[p] : pool'[p][k] = pool[p][k] /\ k \in DOMAIN pool[p]
        BY <1>11, ShrinkFacts DEF Retire
      <3>2. QED
        BY <1>3, <3>1
    <2>2. Len(pool[p]) \in DOMAIN pool[p]
      BY <1>11, ShrinkFacts DEF Retire
    <2> DEFINE last == pool[p][Len(pool[p])]
    <2>3. last.at = "run" => last.ev # None
      BY <2>2, WorkerFacts DEF WorkersInv
    <2>4. Dying
      BY <1>11, <2>3 DEF Retire, WorkersInv, TypeOK
    <2>5. QED
      BY <2>1, <2>4
  <1>12. ASSUME NEW p \in Procs, NEW e, LastAck(p, e) PROVE Pools /\ Dying
    BY <1>4, <1>12 DEF LastAck, WorkersInv, TypeOK
  <1>13. ASSUME NEW p \in Procs, Stop(p) \/ Crash(p) PROVE Pools /\ Dying
    <2>1. InHandlers(p) \subseteq Busy(p)
      BY DEF InHandlers, Busy, WorkersInv
    <2>2. Dying
      <3>1. \A q \in Procs : dying[q] \subseteq cut
        BY DEF WorkersInv
      <3>2. CASE Stop(p)
        BY <2>1, <3>1, <3>2 DEF Stop, TypeOK
      <3>3. CASE Crash(p)
        BY <3>1, <3>3 DEF Crash, TypeOK
      <3>4. QED
        BY <1>13, <3>2, <3>3
    <2>3. DOMAIN <<>> = {}
      OBVIOUS
    <2>4. Pools
      <3> HIDE DEF Fine
      <3>1. pool'[p] = <<>> /\ \A q \in Procs : q # p => pool'[q] = pool[q]
        BY <1>13 DEF Stop, Crash, Forget, TypeOK
      <3>2. QED
        BY <1>3, <2>3, <3>1
    <2>5. QED
      BY <2>2, <2>4
  <1>14. ASSUME NEW p \in Procs, Start(p) PROVE Pools /\ Dying
    BY <1>2, <1>3, <1>6, <1>14, FreshFacts DEF Start, TypeOK
  <1>15. ASSUME NEW p \in Procs, Refresh(p) \/ RefreshGo(p) \/ Emit(p) \/ Loop(p) PROVE Pools /\ Dying
    BY <1>4, <1>6, <1>15 DEF Refresh, RefreshGo, Emit, Loop, Read, SkipEntry, TakeEntry, PutEntry
  <1>16. ASSUME NEW p \in Procs, NEW e \in Events,
                LocalHandle(p, e) \/ LocalDrop(p, e) \/ Xadd(p, e) \/ XaddFails(p, e)
         PROVE  Pools /\ Dying
    BY <1>4, <1>6, <1>16 DEF LocalHandle, LocalDrop, Xadd, XaddFails
  <1>17. CASE UNCHANGED vars \/ Toggle
    BY <1>1, <1>4, <1>6, <1>17 DEF vars, Toggle
  <1>18. QED
    BY <1>1, <1>7, <1>8, <1>9, <1>10, <1>11, <1>12, <1>13, <1>14, <1>15, <1>16, <1>17
    DEF Next, Work

-----------------------------------------------------------------------------
(* The stream *)

\* No event is emitted twice or has two entries.
LEMMA StreamStep ==
  ASSUME TypeOK, WorkersInv, StreamInv, [Next]_vars
  PROVE  StreamInv'
  <1> USE DEF marks, sent, own, memory
  <1>1. ASSUME stream' = stream, emitted' = emitted, \A p \in Procs : sending'[p] \subseteq sending[p]
        PROVE  StreamInv'
    BY <1>1 DEF StreamInv
  <1>2. ASSUME NEW p \in Procs, Emit(p) PROVE StreamInv'
    <2>a. emitted \in Nat /\ Events \subseteq Nat
      BY ConstantsAssumption DEF TypeOK, Events
    <2>1. /\ emitted' = emitted + 1 /\ stream' = stream
          /\ \A q \in Procs : sending'[q] = IF q = p THEN sending[q] \cup {emitted'} ELSE sending[q]
      BY <1>2 DEF Emit, TypeOK
    <2>2. \A e \in Events : /\ e <= emitted => e <= emitted' /\ e # emitted'
                            /\ emitted' <= emitted'
      BY <2>a, <2>1
    <2>3. QED
      BY <2>1, <2>2 DEF StreamInv
  <1>3. ASSUME NEW p \in Procs, NEW x \in Events, Xadd(p, x) PROVE StreamInv'
    <2>1. /\ stream' = Append(stream, x) /\ emitted' = emitted
          /\ \A q \in Procs : sending'[q] = IF q = p THEN sending[q] \ {x} ELSE sending[q]
          /\ x \in sending[p] /\ x <= emitted /\ ~In(x, stream)
          /\ \A q \in Procs : x \in sending[q] => q = p
      BY <1>3 DEF Xadd, TypeOK, StreamInv
    <2>2. NoDup(stream') /\ \A y : In(y, stream') <=> In(y, stream) \/ y = x
      BY <2>1, AppendFacts DEF TypeOK, StreamInv
    <2>3. QED
      BY <2>1, <2>2 DEF StreamInv
  <1>4. ASSUME NEW p \in Procs, NEW e \in Events, XaddFails(p, e) PROVE StreamInv'
    BY <1>1, <1>4 DEF XaddFails, TypeOK
  <1>5. ASSUME NEW p \in Procs, Crash(p) PROVE StreamInv'
    BY <1>1, <1>5 DEF Crash, TypeOK
  <1>6. ASSUME NEW p \in Procs, Refresh(p) \/ RefreshGo(p) \/ Loop(p) \/ ScaleUp(p) \/ Retire(p) \/ Stop(p) \/ Start(p)
        PROVE  StreamInv'
    BY <1>1, <1>6 DEF Refresh, RefreshGo, Loop, Read, SkipEntry, TakeEntry, PutEntry, ScaleUp, Retire, Stop, Start
  <1>7. ASSUME NEW p \in Procs, NEW k, Work(p, k) \/ AckFails(p, k) PROVE StreamInv'
    BY <1>1, <1>7 DEF Work, StartHandlers, EndHandlers, Ack, AckFails
  <1>8. ASSUME NEW p \in Procs, NEW e, LastAck(p, e) \/ LocalHandle(p, e) \/ LocalDrop(p, e)
        PROVE  StreamInv'
    BY <1>1, <1>8 DEF LastAck, LocalHandle, LocalDrop
  <1>9. CASE UNCHANGED vars \/ Toggle
    BY <1>1, <1>9 DEF vars, Toggle
  <1>10. QED
    BY <1>2, <1>3, <1>4, <1>5, <1>6, <1>7, <1>8, <1>9 DEF Next

\* Handlers wait in the process that emitted their event, and leave it once.
LEMMA LocalStep ==
  ASSUME TypeOK, LocalInv, [Next]_vars
  PROVE  LocalInv'
  <1> USE DEF marks, sent, own, memory
  <1>1. ASSUME UNCHANGED <<emitted, emittedAs, local, lost>> PROVE LocalInv'
    BY <1>1 DEF LocalInv, Own
  <1>2. ASSUME NEW p \in Procs, Emit(p) PROVE LocalInv'
    <2>1. /\ emitted \in Nat /\ emitted' = emitted + 1 /\ emitted' \in Events /\ Events \subseteq Nat
          /\ lost' = lost
      BY <1>2, ConstantsAssumption DEF Emit, TypeOK, Events
    <2>2. PICK left \in BOOLEAN :
            /\ emittedAs' = [emittedAs EXCEPT ![emitted'] = left]
            /\ local' = IF left THEN local ELSE [local EXCEPT ![p] = @ \cup {emitted'}]
      BY <1>2 DEF Emit, TypeOK
    <2>3. ~Own(emitted')
      BY <2>1 DEF LocalInv
    <2>4. /\ emittedAs'[emitted'] = left
          /\ \A q \in Procs : emitted' \in local'[q] <=> ~left /\ q = p
          /\ emitted' \notin lost'
      BY <2>1, <2>2, <2>3 DEF TypeOK, Own
    <2>5. \A e \in Events : e # emitted' =>
            /\ emittedAs'[e] = emittedAs[e] /\ (e <= emitted => e <= emitted')
            /\ \A q \in Procs : e \in local'[q] <=> e \in local[q]
      BY <2>1, <2>2 DEF TypeOK
    <2>6. QED
      BY <2>1, <2>4, <2>5 DEF LocalInv, Own
  <1>3. ASSUME NEW p \in Procs, NEW x \in Events, LocalHandle(p, x) \/ LocalDrop(p, x) PROVE LocalInv'
    <2>1. /\ x \in local[p] /\ UNCHANGED <<emitted, emittedAs>>
          /\ \A q \in Procs : local'[q] = IF q = p THEN local[p] \ {x} ELSE local[q]
          /\ lost' = lost \/ lost' = lost \cup {x}
      BY <1>3 DEF LocalHandle, LocalDrop, TypeOK
    <2>2. QED
      BY <2>1 DEF LocalInv, Own
  <1>4. ASSUME NEW p \in Procs, Stop(p) \/ Crash(p) PROVE LocalInv'
    <2>1. /\ UNCHANGED <<emitted, emittedAs>> /\ lost' = lost \cup local[p]
          /\ \A q \in Procs : local'[q] = IF q = p THEN {} ELSE local[q]
      BY <1>4 DEF Stop, Crash, Forget, TypeOK
    <2>2. QED
      BY <2>1 DEF LocalInv, Own
  <1>5. ASSUME NEW p \in Procs,
               Refresh(p) \/ RefreshGo(p) \/ Loop(p) \/ ScaleUp(p) \/ Retire(p) \/ Start(p)
        PROVE  LocalInv'
    BY <1>1, <1>5 DEF Refresh, RefreshGo, Loop, Read, SkipEntry, TakeEntry, PutEntry, ScaleUp,
       Retire, Start
  <1>6. ASSUME NEW p \in Procs, NEW k, Work(p, k) \/ AckFails(p, k) PROVE LocalInv'
    BY <1>1, <1>6 DEF Work, StartHandlers, EndHandlers, Ack, AckFails
  <1>7. ASSUME NEW p \in Procs, NEW e, Xadd(p, e) \/ XaddFails(p, e) \/ LastAck(p, e) PROVE LocalInv'
    BY <1>1, <1>7 DEF Xadd, XaddFails, LastAck
  <1>8. CASE UNCHANGED vars \/ Toggle
    BY <1>1, <1>8 DEF vars, Toggle
  <1>9. QED
    BY <1>2, <1>3, <1>4, <1>5, <1>6, <1>7, <1>8 DEF Next

\* What the group has read: Read adds a stretch of the stream, nothing is taken back.
LEMMA ReadOutStep ==
  ASSUME TypeOK, StreamInv, [Next]_vars, NEW e \in Events
  PROVE  /\ ReadOut(e) => ReadOut(e)'
         /\ ReadOut(e)' <=> ReadOut(e) \/ \E p \in Procs : Read(p) /\ In(e, batch'[p])
         /\ \A p \in Procs : Read(p) /\ In(e, batch'[p]) => ~ReadOut(e)
         /\ \A p \in Procs : Read(p) => NoDup(batch'[p]) /\ (In(e, batch'[p]) => e \in pending')
         /\ ReadOut(e) => In(e, stream)
  <1> USE DEF marks, sent, own, memory
  <1>1. stream \in Seq(Events) /\ cursor \in Nat /\ Len(stream) \in Nat /\ cursor <= Len(stream)
    BY LenProperties DEF TypeOK
  <1>2. ReadOut(e) => In(e, stream)
    BY <1>1 DEF ReadOut, In
  <1>3. ASSUME stream' = stream, cursor' = cursor PROVE ReadOut(e)' <=> ReadOut(e)
    BY <1>3 DEF ReadOut
  <1>4. ASSUME NEW p \in Procs, Read(p)
        PROVE  /\ ReadOut(e)' <=> ReadOut(e) \/ In(e, batch'[p])
               /\ In(e, batch'[p]) => ~ReadOut(e) /\ e \in pending'
               /\ NoDup(batch'[p])
    <2> DEFINE n == IF cursor + Batch <= Len(stream) THEN cursor + Batch ELSE Len(stream)
               fresh == SubSeq(stream, cursor + 1, n)
    <2>1. cursor <= n /\ n \in 0..Len(stream)
      BY <1>1, ConstantsAssumption
    <2>2. /\ cursor' = n /\ batch'[p] = fresh /\ pending' = pending \cup ToSet(fresh)
          /\ stream' = stream
      BY <1>4 DEF Read, TypeOK
    <2> HIDE DEF n
    <2>3. /\ fresh \in Seq(Events) /\ NoDup(fresh)
          /\ In(e, fresh) <=> \E i \in (cursor + 1)..n : stream[i] = e
      <3>1. NoDup(stream)
        BY DEF StreamInv
      <3>2. LET s == SubSeq(stream, cursor + 1, n)
            IN  /\ s \in Seq(Events) /\ Len(s) = n - cursor
                /\ \A x : In(x, s) <=> \E i \in (cursor + 1)..n : stream[i] = x
                /\ NoDup(stream) => NoDup(s)
        BY ONLY <1>1, <2>1, SliceFacts
      <3>3. QED
        BY <3>1, <3>2
    <2> HIDE DEF fresh
    <2>4. ReadOut(e)' <=> \E i \in 1..n : stream[i] = e
      BY <2>2 DEF ReadOut
    <2>5. \A i : i \in 1..n <=> i \in 1..cursor \/ i \in (cursor + 1)..n
      BY <1>1, <2>1
    <2>6. ASSUME In(e, fresh) PROVE ~ReadOut(e)
      <3>1. PICK i \in (cursor + 1)..n : stream[i] = e
        BY <2>3, <2>6
      <3>2. ASSUME NEW j \in 1..cursor, stream[j] = e PROVE FALSE
        <4>1. i \in 1..Len(stream) /\ j \in 1..Len(stream) /\ i # j
          BY <1>1, <2>1
        <4>2. QED
          BY <3>1, <3>2, <4>1 DEF StreamInv, NoDup
      <3>3. QED
        BY <3>2 DEF ReadOut
    <2>7. In(e, fresh) => e \in pending'
      BY <2>2, <2>3, ToSetFacts
    <2>8. ReadOut(e)' <=> ReadOut(e) \/ In(e, fresh)
      BY <2>3, <2>4, <2>5 DEF ReadOut
    <2>9. QED
      BY <2>2, <2>3, <2>6, <2>7, <2>8
  <1>5. ASSUME NEW p \in Procs, NEW x \in Events, Xadd(p, x) PROVE ReadOut(e)' <=> ReadOut(e)
    <2>1. /\ cursor' = cursor
          /\ \A k \in 1..cursor : stream'[k] = stream[k]
      BY <1>1, <1>5, AppendFacts DEF Xadd
    <2>2. QED
      BY <2>1 DEF ReadOut
  <1>6. ASSUME ~(\E p \in Procs : Read(p)) PROVE ReadOut(e)' <=> ReadOut(e)
    <2>1. CASE UNCHANGED vars \/ Toggle
      BY <1>3, <2>1 DEF vars, Toggle
    <2>2. ASSUME NEW p \in Procs, Refresh(p) \/ RefreshGo(p) \/ Emit(p) \/ Loop(p) \/ ScaleUp(p) \/ Retire(p)
                 \/ Stop(p) \/ Crash(p) \/ Start(p)
          PROVE  ReadOut(e)' <=> ReadOut(e)
      BY <1>3, <1>6, <2>2 DEF Refresh, RefreshGo, Emit, Loop, SkipEntry, TakeEntry, PutEntry,
         ScaleUp, Retire, Stop, Crash, Start
    <2>3. ASSUME NEW p \in Procs, NEW k, Work(p, k) \/ AckFails(p, k)
          PROVE  ReadOut(e)' <=> ReadOut(e)
      BY <1>3, <2>3 DEF Work, StartHandlers, EndHandlers, Ack, AckFails
    <2>4. ASSUME NEW p \in Procs, NEW x \in Events,
                 XaddFails(p, x) \/ LastAck(p, x) \/ LocalHandle(p, x) \/ LocalDrop(p, x)
          PROVE  ReadOut(e)' <=> ReadOut(e)
      BY <1>3, <2>4 DEF XaddFails, LastAck, LocalHandle, LocalDrop
    <2>5. QED
      BY <1>5, <2>1, <2>2, <2>3, <2>4 DEF Next
  <1>7. QED
    BY <1>2, <1>4, <1>6

-----------------------------------------------------------------------------
(* Where the events are *)

Once == \A e \in Events, p, q \in Procs : \A u, v, k, l :
          Holds(p, u, k, e) /\ Holds(q, v, l, e) => p = q /\ u = v /\ k = l

\* No event comes to a place; or one event, x, moves from place u to place v of process p.
Keeps == \A e \in Events, q \in Procs : \A w, m : Holds(q, w, m, e)' => Holds(q, w, m, e)
Moves(p, u, k, v, l, x) ==
  /\ Holds(p, u, k, x)
  /\ \A e \in Events, q \in Procs : \A w, m : Holds(q, w, m, e)' =>
       \/ Holds(q, w, m, e) /\ ~(e = x /\ q = p /\ w = u /\ m = k)
       \/ e = x /\ q = p /\ w = v /\ m = l

\* A move leaves every event in one place.
LEMMA MoveFacts ==
  ASSUME HeldInv, NEW p \in Procs, NEW u, NEW k, NEW v, NEW l, NEW x \in Events,
         Moves(p, u, k, v, l, x)
  PROVE  /\ Once'
         /\ \A q \in Procs : \A w, m : Holds(q, w, m, x)' => q = p /\ w = v /\ m = l
         /\ \A e \in Events, q \in Procs : \A w, m : Holds(q, w, m, e)' =>
              (e = x \/ Holds(q, w, m, e)) /\ \E o \in Procs : \E w2, m2 : Holds(o, w2, m2, e)
  <1> DEFINE H(q, w, m, e) == Holds(q, w, m, e)
             G(q, w, m, e) == Holds(q, w, m, e)'
  <1>1. \A e \in Events, q, o \in Procs : \A w, n, m, h :
          H(q, w, m, e) /\ H(o, n, h, e) => q = o /\ w = n /\ m = h
    BY DEF HeldInv
  <1>2. /\ H(p, u, k, x)
        /\ \A e \in Events, q \in Procs : \A w, m : G(q, w, m, e) =>
             \/ H(q, w, m, e) /\ ~(e = x /\ q = p /\ w = u /\ m = k)
             \/ e = x /\ q = p /\ w = v /\ m = l
    BY DEF Moves
  <1> HIDE DEF H, G
  <1>3. \A q \in Procs : \A w, m : G(q, w, m, x) => q = p /\ w = v /\ m = l
    BY <1>1, <1>2
  <1>4. \A e \in Events, q, o \in Procs : \A w, n, m, h :
          G(q, w, m, e) /\ G(o, n, h, e) => q = o /\ w = n /\ m = h
    <2> SUFFICES ASSUME NEW e \in Events, NEW q \in Procs, NEW o \in Procs,
                        NEW w, NEW n, NEW m, NEW h, G(q, w, m, e), G(o, n, h, e)
                 PROVE  q = o /\ w = n /\ m = h
      OBVIOUS
    <2>1. CASE e = x
      BY <1>3, <2>1
    <2>2. CASE e # x
      BY <1>1, <1>2, <2>2
    <2>3. QED
      BY <2>1, <2>2
  <1>5. \A e \in Events, q \in Procs : \A w, m : G(q, w, m, e) =>
          (e = x \/ H(q, w, m, e)) /\ \E o \in Procs : \E w2, m2 : H(o, w2, m2, e)
    BY <1>2
  <1>6. QED
    BY <1>3, <1>4, <1>5 DEF H, G, Once

\* From the batch to the loop's hand.
LEMMA TakeFacts ==
  ASSUME TypeOK, HeldInv, NEW p \in Procs, TakeEntry(p)
  PROVE  /\ Head(batch[p]) \in Events
         /\ Moves(p, "batch", 0, "offered", 0, Head(batch[p]))
         /\ \A q \in Procs : NoDup(batch'[q]) /\ NoDup(queue'[q])
  <1> USE DEF memory
  <1> DEFINE x == Head(batch[p])
             b == Tail(batch[p])
  <1>1. /\ x \in Events /\ In(x, batch[p]) /\ ~In(x, b) /\ NoDup(b)
        /\ \A y : In(y, b) => In(y, batch[p])
    BY TailFacts DEF TakeEntry, TypeOK, HeldInv
  <1>2. /\ batch' = [batch EXCEPT ![p] = b] /\ offered' = [offered EXCEPT ![p] = x]
        /\ queue' = queue /\ pool' = pool
    BY DEF TakeEntry
  <1> HIDE DEF x, b
  <1>3. /\ batch'[p] = b /\ offered'[p] = x
        /\ \A q \in Procs : q # p => batch'[q] = batch[q] /\ offered'[q] = offered[q]
    BY <1>2 DEF TypeOK
  <1>4. ASSUME NEW e \in Events, NEW q \in Procs, NEW w, NEW m, Holds(q, w, m, e)'
        PROVE  \/ Holds(q, w, m, e) /\ ~(e = x /\ q = p /\ w = "batch" /\ m = 0)
               \/ e = x /\ q = p /\ w = "offered" /\ m = 0
    BY <1>1, <1>2, <1>3, <1>4 DEF Holds
  <1>5. Holds(p, "batch", 0, x)
    BY <1>1 DEF Holds
  <1>6. \A q \in Procs : NoDup(batch'[q]) /\ NoDup(queue'[q])
    BY <1>1, <1>2, <1>3 DEF HeldInv
  <1>7. QED
    BY <1>1, <1>4, <1>5, <1>6 DEF Moves, x

\* From the loop's hand to the queue.
LEMMA PutFacts ==
  ASSUME TypeOK, HeldInv, NEW p \in Procs, PutEntry(p)
  PROVE  /\ offered[p] \in Events
         /\ Moves(p, "offered", 0, "queue", 0, offered[p])
         /\ \A q \in Procs : NoDup(batch'[q]) /\ NoDup(queue'[q])
  <1> USE DEF memory
  <1> DEFINE x == offered[p]
             b == Append(queue[p], x)
  <1>1. x \in Events /\ x # None
    BY DEF PutEntry, TypeOK
  <1>2. /\ queue' = [queue EXCEPT ![p] = b] /\ offered' = [offered EXCEPT ![p] = None]
        /\ batch' = batch /\ pool' = pool
    BY DEF PutEntry
  <1>3. ~In(x, queue[p])
    BY <1>1 DEF HeldInv, Holds
  <1>4. NoDup(b) /\ \A y : In(y, b) <=> In(y, queue[p]) \/ y = x
    BY <1>1, <1>3, AppendFacts DEF TypeOK, HeldInv
  <1> HIDE DEF b
  <1>5. /\ queue'[p] = b /\ offered'[p] = None
        /\ \A q \in Procs : q # p => queue'[q] = queue[q] /\ offered'[q] = offered[q]
    BY <1>2 DEF TypeOK
  <1>6. ASSUME NEW e \in Events, NEW q \in Procs, NEW w, NEW m, Holds(q, w, m, e)'
        PROVE  \/ Holds(q, w, m, e) /\ ~(e = x /\ q = p /\ w = "offered" /\ m = 0)
               \/ e = x /\ q = p /\ w = "queue" /\ m = 0
    BY <1>1, <1>2, <1>4, <1>5, <1>6, NoneFact DEF Holds
  <1>7. Holds(p, "offered", 0, x)
    BY DEF Holds
  <1>8. \A q \in Procs : NoDup(batch'[q]) /\ NoDup(queue'[q])
    BY <1>2, <1>4, <1>5 DEF HeldInv
  <1>9. QED
    BY <1>1, <1>6, <1>7, <1>8 DEF Moves

\* From the queue to a worker.
LEMMA StartFacts ==
  ASSUME TypeOK, HeldInv, NEW p \in Procs, NEW k, StartHandlers(p, k)
  PROVE  /\ Head(queue[p]) \in Events
         /\ Moves(p, "queue", 0, "worker", k, Head(queue[p]))
         /\ \A q \in Procs : NoDup(batch'[q]) /\ NoDup(queue'[q])
  <1> USE DEF memory
  <1> DEFINE x == Head(queue[p])
             b == Tail(queue[p])
  <1>1. /\ x \in Events /\ In(x, queue[p]) /\ ~In(x, b) /\ NoDup(b)
        /\ \A y : In(y, b) => In(y, queue[p])
    BY TailFacts DEF StartHandlers, TypeOK, HeldInv
  <1>2. /\ queue' = [queue EXCEPT ![p] = b] /\ batch' = batch /\ offered' = offered
        /\ k \in DOMAIN pool[p] /\ Become(p, k, "run", x)
    BY DEF StartHandlers
  <1> HIDE DEF x, b
  <1>3. /\ queue'[p] = b /\ \A q \in Procs : q # p => queue'[q] = queue[q]
        /\ \A q \in Procs : DOMAIN pool'[q] = DOMAIN pool[q]
        /\ pool'[p][k] = [at |-> "run", ev |-> x]
        /\ \A q \in Procs : \A l \in DOMAIN pool[q] : q # p \/ l # k => pool'[q][l] = pool[q][l]
    <2>1. queue'[p] = b /\ \A q \in Procs : q # p => queue'[q] = queue[q]
      BY <1>2 DEF TypeOK
    <2>2. QED
      BY <1>1, <1>2, <2>1, BecomeFacts
  <1>4. ASSUME NEW e \in Events, NEW q \in Procs, NEW w, NEW m, Holds(q, w, m, e)'
        PROVE  \/ Holds(q, w, m, e) /\ ~(e = x /\ q = p /\ w = "queue" /\ m = 0)
               \/ e = x /\ q = p /\ w = "worker" /\ m = k
    BY <1>1, <1>2, <1>3, <1>4 DEF Holds
  <1>5. Holds(p, "queue", 0, x)
    BY <1>1 DEF Holds
  <1>6. \A q \in Procs : NoDup(batch'[q]) /\ NoDup(queue'[q])
    BY <1>1, <1>2, <1>3 DEF HeldInv
  <1>7. QED
    BY <1>1, <1>4, <1>5, <1>6 DEF Moves, x

\* Out of the batch, to nowhere.
LEMMA SkipFacts ==
  ASSUME TypeOK, HeldInv, NEW p \in Procs, SkipEntry(p)
  PROVE  /\ Head(batch[p]) \in Events /\ In(Head(batch[p]), batch[p])
         /\ Keeps
         /\ \A q \in Procs : NoDup(batch'[q]) /\ NoDup(queue'[q])
         /\ ~In(Head(batch[p]), batch'[p])
  <1> USE DEF memory
  <1> DEFINE x == Head(batch[p])
             b == Tail(batch[p])
  <1>1. /\ x \in Events /\ In(x, batch[p]) /\ ~In(x, b) /\ NoDup(b)
        /\ \A y : In(y, b) => In(y, batch[p])
    BY TailFacts DEF SkipEntry, TypeOK, HeldInv
  <1>2. batch' = [batch EXCEPT ![p] = b] /\ offered' = offered /\ queue' = queue /\ pool' = pool
    BY DEF SkipEntry
  <1> HIDE DEF x, b
  <1>3. batch'[p] = b /\ \A q \in Procs : q # p => batch'[q] = batch[q]
    BY <1>2 DEF TypeOK
  <1>4. ASSUME NEW e \in Events, NEW q \in Procs, NEW w, NEW m, Holds(q, w, m, e)'
        PROVE  Holds(q, w, m, e)
    BY <1>1, <1>2, <1>3, <1>4 DEF Holds
  <1>5. \A q \in Procs : NoDup(batch'[q]) /\ NoDup(queue'[q])
    BY <1>1, <1>2, <1>3 DEF HeldInv
  <1>6. QED
    BY <1>1, <1>3, <1>4, <1>5 DEF Keeps, x

\* A worker whose handlers end has no event to handle any more.
LEMMA EndFacts ==
  ASSUME TypeOK, WorkersInv, HeldInv, NEW p \in Procs, NEW k, EndHandlers(p, k)
  PROVE  /\ pool[p][k].ev \in Events /\ Holds(p, "worker", k, pool[p][k].ev)
         /\ Keeps
         /\ \A e \in Events, q \in Procs : \A w, m : Holds(q, w, m, e)' => e # pool[p][k].ev
         /\ \A q \in Procs : NoDup(batch'[q]) /\ NoDup(queue'[q])
  <1> USE DEF memory
  <1> DEFINE x == pool[p][k].ev
  <1>1. /\ k \in DOMAIN pool[p] /\ pool[p][k].at = "run" /\ x \in Events
        /\ Holds(p, "worker", k, x)
    BY WorkerFacts DEF EndHandlers, Holds
  <1>2. queue' = queue /\ batch' = batch /\ offered' = offered /\ Become(p, k, "ack", x)
    BY DEF EndHandlers
  <1> HIDE DEF x
  <1>3. /\ \A q \in Procs : DOMAIN pool'[q] = DOMAIN pool[q]
        /\ pool'[p][k] = [at |-> "ack", ev |-> x]
        /\ \A q \in Procs : \A l \in DOMAIN pool[q] : q # p \/ l # k => pool'[q][l] = pool[q][l]
    BY <1>1, <1>2, BecomeFacts
  <1>4. ASSUME NEW e \in Events, NEW q \in Procs, NEW w, NEW m, Holds(q, w, m, e)'
        PROVE  Holds(q, w, m, e) /\ ~(q = p /\ w = "worker" /\ m = k)
    BY <1>1, <1>2, <1>3, <1>4 DEF Holds
  <1>5. ASSUME NEW e \in Events, NEW q \in Procs, NEW w, NEW m, Holds(q, w, m, e)', e = x
        PROVE  FALSE
    <2>1. Holds(q, w, m, x) /\ ~(q = p /\ w = "worker" /\ m = k)
      BY <1>1, <1>4, <1>5
    <2>2. \A o \in Procs : \A n, h : Holds(o, n, h, x) => o = p /\ n = "worker" /\ h = k
      BY <1>1 DEF HeldInv
    <2>3. QED
      BY <2>1, <2>2
  <1>6. \A q \in Procs : NoDup(batch'[q]) /\ NoDup(queue'[q])
    BY <1>2 DEF HeldInv
  <1>7. QED
    BY <1>1, <1>4, <1>5, <1>6 DEF Keeps, x

\* An event that Read takes was in no place, and comes to one batch.
LEMMA ReadFacts ==
  ASSUME TypeOK, WorkersInv, StreamInv, HeldInv, NEW p \in Procs, Read(p), [Next]_vars
  PROVE  /\ Once'
         /\ \A e \in Events, q \in Procs : \A w, m : Holds(q, w, m, e)' =>
              Holds(q, w, m, e) \/ (w = "batch" /\ ~ReadOut(e) /\ In(e, batch'[p]))
         /\ \A q \in Procs : NoDup(batch'[q]) /\ NoDup(queue'[q])
  <1> USE DEF memory
  <1>1. /\ batch[p] = <<>> /\ offered' = offered /\ queue' = queue /\ pool' = pool
        /\ \A q \in Procs : q # p => batch'[q] = batch[q]
    BY DEF Read, TypeOK
  <1>2. \A e \in Events : In(e, batch'[p]) => ~ReadOut(e)
    BY ReadOutStep
  <1>3. NoDup(batch'[p])
    <2>1. \A e \in Events : NoDup(batch'[p])
      BY ReadOutStep
    <2>2. CASE Events = {}
      <3>1. batch'[p] \in Seq({})
        BY <2>2, TypeStep DEF TypeOK
      <3>2. QED
        BY <3>1, ElementOfSeq DEF NoDup
    <2>3. QED
      BY <2>1, <2>2
  <1>4. ASSUME NEW e \in Events, NEW q \in Procs, NEW w, NEW m, Holds(q, w, m, e)'
        PROVE  \/ Holds(q, w, m, e)
               \/ w = "batch" /\ m = 0 /\ q = p /\ ~ReadOut(e) /\ In(e, batch'[p])
    BY <1>1, <1>2, <1>4 DEF Holds
  <1>5. \A e \in Events, q \in Procs : \A w, m : Holds(q, w, m, e) => ReadOut(e)
    BY DEF HeldInv
  <1>6. Once'
    <2> SUFFICES ASSUME NEW e \in Events, NEW q \in Procs, NEW o \in Procs,
                        NEW w, NEW n, NEW m, NEW h, Holds(q, w, m, e)', Holds(o, n, h, e)'
                 PROVE  q = o /\ w = n /\ m = h
      BY DEF Once
    <2>1. CASE ReadOut(e)
      <3>1. Holds(q, w, m, e) /\ Holds(o, n, h, e)
        BY <1>4, <2>1
      <3>2. QED
        BY <3>1 DEF HeldInv
    <2>2. CASE ~ReadOut(e)
      <3>1. ~Holds(q, w, m, e) /\ ~Holds(o, n, h, e)
        BY <1>5, <2>2
      <3>2. QED
        BY <1>4, <3>1
    <2>3. QED
      BY <2>1, <2>2
  <1>7. \A q \in Procs : NoDup(batch'[q]) /\ NoDup(queue'[q])
    BY <1>1, <1>3 DEF HeldInv
  <1>8. QED
    BY <1>4, <1>6, <1>7

\* No other step brings an event to a place.
LEMMA OtherFacts ==
  ASSUME TypeOK, WorkersInv, HeldInv, [Next]_vars,
         \A p \in Procs : ~Read(p) /\ ~SkipEntry(p) /\ ~TakeEntry(p) /\ ~PutEntry(p),
         \A p \in Procs, k \in WorkerIds : ~StartHandlers(p, k) /\ ~EndHandlers(p, k)
  PROVE  Keeps /\ \A q \in Procs : NoDup(batch'[q]) /\ NoDup(queue'[q])
  <1> USE DEF memory
  <1> DEFINE Good == Keeps /\ \A q \in Procs : NoDup(batch'[q]) /\ NoDup(queue'[q])
  <1>1. ASSUME \A q \in Procs : \/ batch'[q] = batch[q] /\ offered'[q] = offered[q] /\ queue'[q] = queue[q]
                                \/ batch'[q] = <<>> /\ offered'[q] = None /\ queue'[q] = <<>>,
               \A q \in Procs : \A k \in DOMAIN pool'[q] :
                 \/ k \in DOMAIN pool[q] /\ pool'[q][k] = pool[q][k]
                 \/ pool'[q][k].at # "run"
        PROVE  Good
    <2>1. ASSUME NEW e \in Events, NEW q \in Procs, NEW w, NEW m, Holds(q, w, m, e)'
          PROVE  Holds(q, w, m, e)
      BY <1>1, <2>1, EmptyFacts, NoneFact DEF Holds
    <2>2. \A q \in Procs : NoDup(batch'[q]) /\ NoDup(queue'[q])
      BY <1>1, EmptyFacts DEF HeldInv
    <2>3. QED
      BY <2>1, <2>2 DEF Keeps
  <1>2. IdleWorker.at # "run"
    BY DEF IdleWorker
  <1>3. ASSUME NEW p \in Procs, NEW k \in WorkerIds, Ack(p, k) \/ AckFails(p, k) PROVE Good
    <2>1. /\ batch' = batch /\ offered' = offered /\ queue' = queue
          /\ k \in DOMAIN pool[p] /\ Become(p, k, "get", None)
      BY <1>3 DEF Ack, AckFails
    <2>2. /\ \A q \in Procs : DOMAIN pool'[q] = DOMAIN pool[q]
          /\ pool'[p][k] = [at |-> "get", ev |-> None]
          /\ \A q \in Procs : \A l \in DOMAIN pool[q] : q # p \/ l # k => pool'[q][l] = pool[q][l]
      BY <2>1, BecomeFacts
    <2>3. QED
      BY <1>1, <2>1, <2>2
  <1>4. ASSUME NEW p \in Procs, ScaleUp(p) PROVE Good
    BY <1>1, <1>2, <1>4, GrowFacts DEF ScaleUp
  <1>5. ASSUME NEW p \in Procs, Retire(p) PROVE Good
    <2>1. /\ \A q \in Procs : q # p => pool'[q] = pool[q]
          /\ \A k \in DOMAIN pool'[p] : pool'[p][k] = pool[p][k] /\ k \in DOMAIN pool[p]
      BY <1>5, ShrinkFacts DEF Retire
    <2>2. batch' = batch /\ offered' = offered /\ queue' = queue
      BY <1>5 DEF Retire
    <2>3. QED
      BY <1>1, <2>1, <2>2
  <1>6. ASSUME NEW p \in Procs, Stop(p) \/ Crash(p) PROVE Good
    <2>1. /\ batch'[p] = <<>> /\ offered'[p] = None /\ queue'[p] = <<>> /\ pool'[p] = <<>>
          /\ \A q \in Procs : q # p => /\ batch'[q] = batch[q] /\ offered'[q] = offered[q]
                                       /\ queue'[q] = queue[q] /\ pool'[q] = pool[q]
      BY <1>6 DEF Stop, Crash, Forget, TypeOK
    <2>2. DOMAIN <<>> = {}
      OBVIOUS
    <2>3. QED
      BY <1>1, <2>1, <2>2
  <1>7. ASSUME NEW p \in Procs, Start(p) PROVE Good
    <2>1. /\ pool'[p] = FreshPool /\ \A q \in Procs : q # p => pool'[q] = pool[q]
          /\ batch' = batch /\ offered' = offered /\ queue' = queue
      BY <1>7 DEF Start, TypeOK
    <2>2. QED
      BY <1>1, <1>2, <2>1, FreshFacts
  <1>8. ASSUME UNCHANGED memory PROVE Good
    BY <1>1, <1>8
  <1>9. ASSUME NEW p \in Procs, Refresh(p) \/ RefreshGo(p) \/ Emit(p) PROVE Good
    BY <1>8, <1>9 DEF Refresh, RefreshGo, Emit
  <1>10. ASSUME NEW p \in Procs, NEW e \in Events, \/ Xadd(p, e) \/ XaddFails(p, e) \/ LastAck(p, e)
                                                  \/ LocalHandle(p, e) \/ LocalDrop(p, e)
         PROVE  Good
    <2>1. UNCHANGED <<batch, offered, queue, pool>>
      BY <1>10 DEF Xadd, XaddFails, LastAck, LocalHandle, LocalDrop
    <2>2. QED
      BY <1>1, <2>1
  <1>11. CASE UNCHANGED vars \/ Toggle
    BY <1>8, <1>11 DEF vars, Toggle
  <1>12. QED
    BY <1>3, <1>4, <1>5, <1>6, <1>7, <1>9, <1>10, <1>11 DEF Next, Loop, Work

\* An event that has yet to be handled stays in one place of one process.
LEMMA HeldStep ==
  ASSUME TypeOK, WorkersInv, StreamInv, HeldInv, [Next]_vars
  PROVE  HeldInv'
  <1> DEFINE Apart == \A q \in Procs : NoDup(batch'[q]) /\ NoDup(queue'[q])
             From == \A e \in Events, q \in Procs : \A w, m : Holds(q, w, m, e)' =>
                       \/ \E o \in Procs : \E n, h : Holds(o, n, h, e)
                       \/ \E o \in Procs : Read(o) /\ In(e, batch'[o])
  <1>1. ASSUME Apart, Once', From PROVE HeldInv'
    <2>1. \A e \in Events : ReadOut(e) => ReadOut(e)'
      BY ReadOutStep
    <2>2. \A e \in Events, o \in Procs : Read(o) /\ In(e, batch'[o]) => ReadOut(e)'
      BY ReadOutStep
    <2>3. \A e \in Events, o \in Procs : \A n, h : Holds(o, n, h, e) => ReadOut(e)
      BY DEF HeldInv
    <2>4. \A e \in Events, q \in Procs : \A w, m : Holds(q, w, m, e)' => ReadOut(e)'
      BY <1>1, <2>1, <2>2, <2>3
    <2>5. QED
      BY <1>1, <2>4 DEF HeldInv, Once
  <1>2. ASSUME Apart, Keeps PROVE HeldInv'
    <2>1. Once
      BY DEF HeldInv, Once
    <2>2. Once' /\ From
      BY <1>2, <2>1 DEF Once, Keeps
    <2>3. QED
      BY <1>1, <1>2, <2>2
  <1>3. ASSUME Apart, NEW p \in Procs, NEW u, NEW k, NEW v, NEW l, NEW x \in Events,
               Moves(p, u, k, v, l, x)
        PROVE  HeldInv'
    <2>1. Once' /\ From
      BY <1>3, MoveFacts
    <2>2. QED
      BY <1>1, <1>3, <2>1
  <1>4. ASSUME NEW p \in Procs, Read(p) PROVE HeldInv'
    <2>1. Apart /\ Once' /\ From
      <3>1. /\ Apart /\ Once'
            /\ \A e \in Events, q \in Procs : \A w, m : Holds(q, w, m, e)' =>
                 Holds(q, w, m, e) \/ In(e, batch'[p])
        BY <1>4, ReadFacts
      <3>2. QED
        BY <1>4, <3>1
    <2>2. QED
      BY <1>1, <2>1
  <1>5. ASSUME NEW p \in Procs, SkipEntry(p) PROVE HeldInv'
    BY <1>2, <1>5, SkipFacts
  <1>6. ASSUME NEW p \in Procs, TakeEntry(p) PROVE HeldInv'
    BY <1>3, <1>6, TakeFacts
  <1>7. ASSUME NEW p \in Procs, PutEntry(p) PROVE HeldInv'
    BY <1>3, <1>7, PutFacts
  <1>8. ASSUME NEW p \in Procs, NEW k \in WorkerIds, StartHandlers(p, k) PROVE HeldInv'
    BY <1>3, <1>8, StartFacts
  <1>9. ASSUME NEW p \in Procs, NEW k \in WorkerIds, EndHandlers(p, k) PROVE HeldInv'
    BY <1>2, <1>9, EndFacts
  <1>10. QED
    BY <1>2, <1>4, <1>5, <1>6, <1>7, <1>8, <1>9, OtherFacts

-----------------------------------------------------------------------------
(* How often the handlers ran *)

\* The routes of an event by what is known of it.
LEMMA RouteFacts ==
  ASSUME TypeOK, NEW e \in Events
  PROVE  /\ Base(e) \in {0, 1} /\ Second(e) \in {0, 1} /\ runs[e] \in Nat
         /\ readAs[e] \in BOOLEAN /\ emittedAs[e] \in BOOLEAN
         /\ Second(e) = 1 <=> readAs[e]
         /\ e > emitted => Base(e) = 0
         /\ e \in Nat /\ emitted \in Nat
  <1>1. runs[e] \in Nat /\ readAs[e] \in BOOLEAN /\ emittedAs[e] \in BOOLEAN
    BY DEF TypeOK
  <1>2. e \in Nat /\ emitted \in Nat
    BY ConstantsAssumption DEF TypeOK, Events
  <1>3. /\ Base(e) \in {0, 1} /\ Second(e) \in {0, 1}
        /\ Second(e) = 1 <=> readAs[e]
    BY <1>1 DEF Base, Second
  <1>4. e > emitted => Base(e) = 0
    BY <1>2 DEF Base
  <1>5. QED
    BY <1>1, <1>2, <1>3, <1>4

\* What Emit does to the routes: those of the new event are set by the snapshot.
LEMMA EmitFacts ==
  ASSUME TypeOK, StreamInv, LocalInv, RunsInv, NEW p \in Procs, Emit(p)
  PROVE  \A e \in Events :
           IF e = emitted' THEN Base(e)' = runs'[e] /\ ~readAs[e] /\ ~ReadOut(e)
                           ELSE Base(e)' = Base(e) /\ runs'[e] = runs[e]
  <1>1. /\ emitted \in Nat /\ emitted' = emitted + 1 /\ emitted' \in Events /\ Events \subseteq Nat
        /\ runs' = runs /\ stream' = stream /\ cursor' = cursor
    BY ConstantsAssumption DEF Emit, TypeOK, Events
  <1>2. emitted' > emitted /\ emitted' <= emitted' /\ ~(emitted' <= emitted)
    BY <1>1
  <1>3. PICK left \in BOOLEAN :
          /\ emittedAs' = [emittedAs EXCEPT ![emitted'] = left]
          /\ local' = IF left THEN local ELSE [local EXCEPT ![p] = @ \cup {emitted'}]
          /\ lost' = lost
    BY DEF Emit, TypeOK
  <1>4. ASSUME NEW x \in Events, x = emitted'
        PROVE  Base(x)' = runs'[x] /\ ~readAs[x] /\ ~ReadOut(x)
    <2>1. ~In(x, stream)
      BY <1>2, <1>4 DEF StreamInv
    <2>2. ~ReadOut(x)
      <3>1. /\ stream \in Seq(Events) /\ cursor \in Nat /\ Len(stream) \in Nat
            /\ cursor <= Len(stream)
        BY LenProperties DEF TypeOK
      <3>2. QED
        BY <2>1, <3>1 DEF ReadOut, In
    <2>3. ~readAs[x] /\ runs[x] = 0
      BY <1>2, <1>4, <2>2, RouteFacts DEF RunsInv
    <2>4. runs'[x] = 0 /\ (emittedAs'[x] \/ x \in local'[p])
      BY <1>1, <1>3, <1>4, <2>3 DEF TypeOK
    <2>5. Base(x)' = 0
      BY <2>4 DEF Base, Own
    <2>6. QED
      BY <2>2, <2>3, <2>4, <2>5
  <1>5. ASSUME NEW e \in Events, e # emitted' PROVE Base(e)' = Base(e) /\ runs'[e] = runs[e]
    <2>1. e \in Nat /\ (e <= emitted' <=> e <= emitted)
      BY <1>1, <1>5
    <2>2. /\ emittedAs'[e] = emittedAs[e] /\ runs'[e] = runs[e]
          /\ \A q \in Procs : e \in local'[q] <=> e \in local[q]
      BY <1>1, <1>3, <1>5 DEF TypeOK
    <2>3. QED
      BY <1>3, <2>1, <2>2 DEF Base, Own
  <1>6. QED
    BY <1>4, <1>5

\* No step runs an event's handlers more often than the routes it has gone allow.
LEMMA RunsStep ==
  ASSUME TypeOK, WorkersInv, StreamInv, LocalInv, HeldInv, RunsInv, [Next]_vars
  PROVE  RunsInv'
  <1> DEFINE Sound(e) == /\ Base(e)' <= runs'[e] /\ runs'[e] <= Base(e)' + Second(e)'
                         /\ ~ReadOut(e)' => ~readAs'[e]
             Placed(e) == \A q \in Procs : \A w, m : Holds(q, w, m, e)' =>
                            IF w = "batch" THEN ~readAs'[e] ELSE readAs'[e] /\ runs'[e] = Base(e)'
             Same == /\ emitted' = emitted /\ emittedAs' = emittedAs
                     /\ \A e \in Events : Own(e)' <=> Own(e)
  <1>1. ASSUME \A e \in Events : Sound(e) /\ Placed(e) PROVE RunsInv'
    BY <1>1 DEF RunsInv
  <1>2. ASSUME Same PROVE \A e \in Events : Base(e)' = Base(e)
    BY <1>2 DEF Base
  <1>3. \A e \in Events : Base(e) <= runs[e] /\ runs[e] <= Base(e) + Second(e)
    BY DEF RunsInv
  <1>3a. \A e \in Events : ~ReadOut(e)' => ~readAs[e]
    BY ReadOutStep DEF RunsInv
  <1>4. ASSUME Same, NEW e \in Events, runs'[e] = runs[e], readAs'[e] = readAs[e] PROVE Sound(e)
    <2>1. Base(e)' = Base(e) /\ Second(e)' = Second(e)
      BY <1>2, <1>4 DEF Second
    <2>2. Base(e)' <= runs'[e] /\ runs'[e] <= Base(e)' + Second(e)'
      BY <1>3, <1>4, <2>1
    <2>3. ~ReadOut(e)' => ~readAs'[e]
      BY <1>3a, <1>4
    <2>4. QED
      BY <2>2, <2>3
  <1>5. ASSUME Same, NEW e \in Events, runs'[e] = runs[e], readAs'[e] = readAs[e],
               \A q \in Procs : \A w, m : Holds(q, w, m, e)' => Holds(q, w, m, e)
        PROVE  Placed(e)
    BY <1>2, <1>5 DEF RunsInv
  <1>6. ASSUME Same, runs' = runs, readAs' = readAs, Keeps PROVE RunsInv'
    BY <1>1, <1>4, <1>5, <1>6 DEF Keeps
  <1> HIDE DEF Sound, Placed
  <1>7. ASSUME NEW p \in Procs, Emit(p) PROVE RunsInv'
    <2>1. readAs' = readAs /\ UNCHANGED memory
      BY <1>7 DEF Emit
    <2>2. \A e \in Events, q \in Procs : \A w, m : Holds(q, w, m, e)' => Holds(q, w, m, e)
      BY <2>1 DEF memory, Holds
    <2>3. \A e \in Events : IF e = emitted'
                            THEN Base(e)' = runs'[e] /\ ~readAs[e] /\ ~ReadOut(e)
                            ELSE Base(e)' = Base(e) /\ runs'[e] = runs[e]
      BY <1>7, EmitFacts
    <2>4. ASSUME NEW e \in Events PROVE Sound(e)
      <3>1. Second(e)' = Second(e) /\ Second(e) \in {0, 1} /\ runs'[e] \in Nat
        BY <2>1, RouteFacts, TypeStep DEF Second, TypeOK
      <3>2. CASE e = emitted'
        BY <1>3a, <2>1, <2>3, <3>1, <3>2 DEF Sound
      <3>3. CASE e # emitted'
        <4>1. Base(e)' <= runs'[e] /\ runs'[e] <= Base(e)' + Second(e)'
          BY <1>3, <2>3, <3>1, <3>3
        <4>2. QED
          BY <1>3a, <2>1, <4>1 DEF Sound
      <3>4. QED
        BY <3>2, <3>3
    <2>5. ASSUME NEW e \in Events PROVE Placed(e)
      <3>1. ASSUME NEW q \in Procs, NEW w, NEW m, Holds(q, w, m, e)'
            PROVE  IF w = "batch" THEN ~readAs'[e] ELSE readAs'[e] /\ runs'[e] = Base(e)'
        <4>1. Holds(q, w, m, e) /\ ReadOut(e)
          BY <2>2, <3>1 DEF HeldInv
        <4>2. Base(e)' = Base(e) /\ runs'[e] = runs[e]
          BY <2>3, <4>1
        <4>3. QED
          BY <2>1, <4>1, <4>2 DEF RunsInv
      <3>2. QED
        BY <3>1 DEF Placed
    <2>6. QED
      BY <1>1, <2>4, <2>5
  <1>8. ASSUME NEW p \in Procs, Read(p) PROVE RunsInv'
    <2>1. Same /\ runs' = runs /\ readAs' = readAs
      BY <1>8 DEF Read, sent, own, Own
    <2>2. ASSUME NEW e \in Events, NEW q \in Procs, NEW w, NEW m, Holds(q, w, m, e)'
          PROVE  IF w = "batch" THEN ~readAs'[e] ELSE readAs'[e] /\ runs'[e] = Base(e)'
      <3>1. Holds(q, w, m, e) \/ (w = "batch" /\ ~ReadOut(e))
        <4>1. \A f \in Events, o \in Procs : \A n, h : Holds(o, n, h, f)' =>
                Holds(o, n, h, f) \/ (n = "batch" /\ ~ReadOut(f) /\ In(f, batch'[p]))
          BY <1>8, ReadFacts
        <4>2. QED
          BY <2>2, <4>1
      <3>2. QED
        BY <1>2, <2>1, <3>1 DEF RunsInv
    <2>3. QED
      BY <1>1, <1>4, <2>1, <2>2 DEF Placed
  <1>9. ASSUME NEW p \in Procs, SkipEntry(p) PROVE RunsInv'
    <2> DEFINE x == Head(batch[p])
    <2>1. x \in Events /\ Holds(p, "batch", 0, x) /\ Keeps
      BY <1>9, SkipFacts DEF Holds
    <2>2. ~readAs[x]
      BY <2>1 DEF RunsInv
    <2>3. Same /\ runs' = runs /\ readAs' = [readAs EXCEPT ![x] = FALSE]
      BY <1>9 DEF SkipEntry, sent, own, Own
    <2> HIDE DEF x
    <2>4. readAs' = readAs
      BY <2>1, <2>2, <2>3 DEF TypeOK
    <2>5. QED
      BY <1>6, <2>1, <2>3, <2>4
  <1>10. ASSUME NEW p \in Procs, TakeEntry(p) PROVE RunsInv'
    <2> DEFINE x == Head(batch[p])
    <2>1. x \in Events /\ Moves(p, "batch", 0, "offered", 0, x)
      BY <1>10, TakeFacts
    <2>2. Same /\ runs' = runs /\ readAs' = [readAs EXCEPT ![x] = TRUE]
      BY <1>10 DEF TakeEntry, sent, own, Own
    <2>3. readAs \in [Events -> BOOLEAN]
      BY DEF TypeOK
    <2> HIDE DEF x
    <2>4. ASSUME NEW e \in Events, e # x PROVE Sound(e) /\ Placed(e)
      <3>1. runs'[e] = runs[e] /\ readAs'[e] = readAs[e]
        BY <2>2, <2>3, <2>4
      <3>2. \A q \in Procs : \A w, m : Holds(q, w, m, e)' => Holds(q, w, m, e)
        BY <2>1, <2>4 DEF Moves
      <3>3. QED
        BY <1>4, <1>5, <2>2, <3>1, <3>2
    <2>5. Holds(p, "batch", 0, x) /\ ~readAs[x] /\ Second(x) = 0 /\ ReadOut(x)
      BY <2>1 DEF Moves, RunsInv, HeldInv, Second
    <2>6. runs[x] = Base(x)
      <3>1. Base(x) <= runs[x] /\ runs[x] <= Base(x) + 0
        BY <1>3, <2>1, <2>5
      <3>2. Base(x) \in Nat /\ runs[x] \in Nat
        BY <2>1, RouteFacts
      <3>3. QED
        BY <3>1, <3>2
    <2>7. ASSUME NEW e \in Events, e = x PROVE Sound(e) /\ Placed(e)
      <3>1. readAs'[e] /\ Second(e)' = 1 /\ Base(e)' = Base(e) /\ runs'[e] = Base(e)
        BY <1>2, <2>2, <2>3, <2>6, <2>7 DEF Second
      <3>2. ReadOut(e)'
        BY <2>5, <2>7, ReadOutStep
      <3>3. Sound(e)
        BY <3>1, <3>2, RouteFacts DEF Sound
      <3>4. \A q \in Procs : \A w, m : Holds(q, w, m, e)' => w = "offered"
        BY <2>1, <2>7, MoveFacts
      <3>5. Placed(e)
        BY <3>1, <3>4 DEF Placed
      <3>6. QED
        BY <3>3, <3>5
    <2>8. QED
      BY <1>1, <2>4, <2>7
  <1>11. ASSUME Same, runs' = runs, readAs' = readAs, NEW p \in Procs, NEW u, NEW k, NEW v, NEW l,
                NEW x \in Events, Moves(p, u, k, v, l, x), u # "batch", v # "batch"
         PROVE  RunsInv'
    <2>1. ASSUME NEW e \in Events, NEW q \in Procs, NEW w, NEW m, Holds(q, w, m, e)'
          PROVE  IF w = "batch" THEN ~readAs'[e] ELSE readAs'[e] /\ runs'[e] = Base(e)'
      <3>1. Base(e)' = Base(e) /\ runs'[e] = runs[e] /\ readAs'[e] = readAs[e]
        BY <1>2, <1>11
      <3>2. CASE Holds(q, w, m, e)
        BY <3>1, <3>2 DEF RunsInv
      <3>3. CASE e = x /\ w = v
        <4>1. readAs[e] /\ runs[e] = Base(e)
          BY <1>11, <3>3 DEF Moves, RunsInv
        <4>2. QED
          BY <1>11, <3>1, <3>3, <4>1
      <3>4. QED
        BY <1>11, <2>1, <3>2, <3>3 DEF Moves
    <2>2. QED
      BY <1>1, <1>4, <1>11, <2>1 DEF Placed
  <1>12. ASSUME NEW p \in Procs, PutEntry(p) PROVE RunsInv'
    <2>1. Same /\ runs' = runs /\ readAs' = readAs
      BY <1>12 DEF PutEntry, sent, own, Own
    <2>2. offered[p] \in Events /\ Moves(p, "offered", 0, "queue", 0, offered[p])
      BY <1>12, PutFacts
    <2>3. QED
      BY <1>11, <2>1, <2>2
  <1>13. ASSUME NEW p \in Procs, NEW k \in WorkerIds, StartHandlers(p, k) PROVE RunsInv'
    <2>1. Same /\ runs' = runs /\ readAs' = readAs
      BY <1>13 DEF StartHandlers, sent, own, Own
    <2>2. Head(queue[p]) \in Events /\ Moves(p, "queue", 0, "worker", k, Head(queue[p]))
      BY <1>13, StartFacts
    <2>3. QED
      BY <1>11, <2>1, <2>2
  <1>14. ASSUME NEW p \in Procs, NEW k \in WorkerIds, EndHandlers(p, k) PROVE RunsInv'
    <2> DEFINE x == pool[p][k].ev
    <2>1. /\ x \in Events /\ Holds(p, "worker", k, x) /\ Keeps
          /\ \A e \in Events, q \in Procs : \A w, m : Holds(q, w, m, e)' => e # x
      BY <1>14, EndFacts
    <2>2. Same /\ runs' = [runs EXCEPT ![x] = @ + 1] /\ readAs' = readAs
      BY <1>14 DEF EndHandlers, sent, own, Own
    <2>3. runs \in [Events -> Nat]
      BY DEF TypeOK
    <2> HIDE DEF x
    <2>4. ASSUME NEW e \in Events, e # x PROVE Sound(e) /\ Placed(e)
      <3>1. runs'[e] = runs[e] /\ readAs'[e] = readAs[e]
        BY <2>2, <2>3, <2>4
      <3>2. QED
        BY <1>4, <1>5, <2>1, <2>2, <3>1 DEF Keeps
    <2>5. ASSUME NEW e \in Events, e = x PROVE Sound(e) /\ Placed(e)
      <3>1. readAs[e] /\ runs[e] = Base(e) /\ ReadOut(e)
        BY <2>1, <2>5 DEF RunsInv, HeldInv
      <3>2. Base(e)' = Base(e) /\ Second(e)' = 1 /\ runs'[e] = Base(e) + 1
        BY <1>2, <2>2, <2>3, <2>5, <3>1 DEF Second
      <3>3. ReadOut(e)'
        BY <3>1, ReadOutStep
      <3>4. Sound(e)
        BY <3>2, <3>3, RouteFacts DEF Sound
      <3>5. Placed(e)
        BY <2>1, <2>5 DEF Placed
      <3>6. QED
        BY <3>4, <3>5
    <2>6. QED
      BY <1>1, <2>4, <2>5
  <1>15. ASSUME NEW p \in Procs, NEW x \in Events, LocalHandle(p, x) PROVE RunsInv'
    <2>1. /\ x \in local[p] /\ UNCHANGED <<emitted, emittedAs, lost, readAs, stream, cursor>>
          /\ \A q \in Procs : local'[q] = IF q = p THEN local[p] \ {x} ELSE local[q]
          /\ UNCHANGED memory
      BY <1>15 DEF LocalHandle, sent, TypeOK
    <2>2. \A e \in Events : runs'[e] = IF e = x THEN runs[x] + 1 ELSE runs[e]
      BY <1>15 DEF LocalHandle, TypeOK
    <2>3. Base(x) = 0 /\ Base(x)' = 1 /\ \A e \in Events : e # x => Base(e)' = Base(e)
      <3>1. x <= emitted /\ ~emittedAs[x] /\ x \notin lost /\ \A q \in Procs : x \in local[q] => q = p
        BY <2>1 DEF LocalInv, Own
      <3>2. Own(x) /\ ~Own(x)' /\ \A e \in Events : e # x => (Own(e)' <=> Own(e))
        BY <2>1, <3>1 DEF Own
      <3>3. QED
        BY <2>1, <3>1, <3>2 DEF Base
    <2>4. ASSUME NEW e \in Events
          PROVE  /\ Second(e)' = Second(e) /\ readAs'[e] = readAs[e]
                 /\ \A q \in Procs : \A w, m : Holds(q, w, m, e)' => Holds(q, w, m, e)
      BY <2>1 DEF Second, Holds, memory
    <2>5. ASSUME NEW e \in Events PROVE Sound(e)
      <3>1. Base(e) \in Nat /\ Second(e) \in Nat /\ runs[e] \in Nat
        BY RouteFacts
      <3>2. Base(e)' <= runs'[e] /\ runs'[e] <= Base(e)' + Second(e)'
        BY <1>3, <2>2, <2>3, <2>4, <3>1
      <3>3. QED
        BY <1>3a, <2>4, <3>2 DEF Sound
    <2>6. ASSUME NEW e \in Events PROVE Placed(e)
      <3>1. runs[e] = Base(e) => runs'[e] = Base(e)'
        BY <2>2, <2>3
      <3>2. QED
        BY <2>4, <3>1 DEF Placed, RunsInv
    <2>7. QED
      BY <1>1, <2>5, <2>6
  <1>16. ASSUME ~(\E p \in Procs : Emit(p) \/ Read(p) \/ SkipEntry(p) \/ TakeEntry(p) \/ PutEntry(p)),
                ~(\E p \in Procs, k \in WorkerIds : StartHandlers(p, k) \/ EndHandlers(p, k)),
                ~(\E p \in Procs, e \in Events : LocalHandle(p, e))
         PROVE  RunsInv'
    <2>1. Keeps
      BY <1>16, OtherFacts
    <2>2. Same /\ runs' = runs /\ readAs' = readAs
      <3>1. CASE UNCHANGED vars \/ Toggle
        BY <3>1 DEF vars, Toggle, sent, own, Own
      <3>2. ASSUME NEW p \in Procs, Refresh(p) \/ RefreshGo(p) \/ ScaleUp(p) \/ Retire(p) \/ Start(p)
            PROVE  Same /\ runs' = runs /\ readAs' = readAs
        BY <3>2 DEF Refresh, RefreshGo, ScaleUp, Retire, Start, sent, own, Own
      <3>3. ASSUME NEW p \in Procs, Stop(p) \/ Crash(p) PROVE Same /\ runs' = runs /\ readAs' = readAs
        <4>1. /\ UNCHANGED <<emitted, emittedAs, runs, readAs>> /\ lost' = lost \cup local[p]
              /\ \A q \in Procs : local'[q] = IF q = p THEN {} ELSE local[q]
          BY <3>3 DEF Stop, Crash, Forget, TypeOK, sent
        <4>2. QED
          BY <4>1 DEF Own
      <3>4. ASSUME NEW p \in Procs, NEW e \in Events, Xadd(p, e) \/ XaddFails(p, e) \/ LastAck(p, e)
            PROVE  Same /\ runs' = runs /\ readAs' = readAs
        BY <3>4 DEF Xadd, XaddFails, LastAck, sent, own, Own
      <3>5. ASSUME NEW p \in Procs, NEW e \in Events, LocalDrop(p, e)
            PROVE  Same /\ runs' = runs /\ readAs' = readAs
        <4>1. /\ UNCHANGED <<emitted, emittedAs, runs, readAs>>
              /\ e \in local[p] /\ lost' = lost \cup {e}
              /\ \A q \in Procs : local'[q] = IF q = p THEN local[p] \ {e} ELSE local[q]
          BY <3>5 DEF LocalDrop, TypeOK, sent
        <4>2. QED
          BY <4>1 DEF Own
      <3>6. ASSUME NEW p \in Procs, NEW k \in WorkerIds, Ack(p, k) \/ AckFails(p, k)
            PROVE  Same /\ runs' = runs /\ readAs' = readAs
        BY <3>6 DEF Ack, AckFails, sent, own, Own
      <3>7. QED
        BY <1>16, <3>1, <3>2, <3>3, <3>4, <3>5, <3>6 DEF Next, Loop, Work
    <2>3. QED
      BY <1>6, <2>1, <2>2
  <1>17. QED
    BY <1>7, <1>8, <1>9, <1>10, <1>12, <1>13, <1>14, <1>15, <1>16

-----------------------------------------------------------------------------
(* Acknowledged events *)

Done(e) == runs[e] >= 1 \/ e \in cut

\* No step acknowledges an event that was not handled, cut off or on another route.
LEMMA AckStep ==
  ASSUME TypeOK, WorkersInv, StreamInv, LocalInv, HeldInv, RunsInv, AckInv, [Next]_vars
  PROVE  AckInv'
  <1> DEFINE Good(e) == emittedAs'[e] =>
                          /\ ReadOut(e)' => e \in pending' \/ Done(e)' \/ Skipped(e)'
                          /\ \A q \in Procs : In(e, batch'[q]) => e \in pending' \/ Done(e)'
             Same(e) == emittedAs'[e] = emittedAs[e] /\ readAs'[e] = readAs[e]
             Shrink(e) == \A q \in Procs : In(e, batch'[q]) => In(e, batch[q])
  <1>1. ASSUME \A e \in Events : Good(e) PROVE AckInv'
    BY <1>1 DEF AckInv, Done
  <1>2. \A e \in Events : emittedAs[e] =>
          /\ ReadOut(e) => e \in pending \/ Done(e) \/ Skipped(e)
          /\ \A q \in Procs : In(e, batch[q]) => e \in pending \/ Done(e)
    BY DEF AckInv, Done
  <1>3. \A e \in Events : Done(e) => Done(e)'
    <2>1. \A e \in Events : runs[e] \in Nat /\ runs'[e] \in Nat
      BY TypeStep DEF TypeOK
    <2>2. QED
      BY <2>1, GrowthStep DEF Done
  <1> HIDE DEF Good
  <1>4. ASSUME NEW e \in Events, Done(e)' PROVE Good(e)
    BY <1>4 DEF Good
  <1>5. ASSUME NEW e \in Events, ReadOut(e)' => ReadOut(e), e \in pending => e \in pending',
               Same(e), Shrink(e)
        PROVE  Good(e)
    <2>1. Skipped(e)' <=> Skipped(e)
      BY <1>5 DEF Skipped
    <2>2. QED
      BY <1>2, <1>3, <1>5, <2>1 DEF Good
  <1>6. ASSUME NEW p \in Procs, Read(p) PROVE AckInv'
    <2> SUFFICES ASSUME NEW e \in Events PROVE Good(e)
      BY <1>1
    <2>1. /\ pending \subseteq pending' /\ Same(e)
          /\ \A q \in Procs : q # p => batch'[q] = batch[q]
      BY <1>6 DEF Read, TypeOK, sent
    <2>2. CASE In(e, batch'[p])
      <3>1. e \in pending'
        BY <1>6, <2>2, ReadOutStep
      <3>2. QED
        BY <3>1 DEF Good
    <2>3. CASE ~In(e, batch'[p])
      <3>1. ReadOut(e)' => ReadOut(e)
        <4>1. \A q \in Procs : Read(q) => q = p \/ batch'[q] = batch[q]
          BY <2>1
        <4>2. ASSUME NEW q \in Procs, Read(q), In(e, batch'[q]) PROVE FALSE
          <5>1. q # p /\ batch[q] = <<>> /\ batch'[q] = batch[q]
            BY <2>1, <2>3, <4>2 DEF Read
          <5>2. QED
            BY <4>2, <5>1, EmptyFacts
        <4>3. QED
          BY <4>2, ReadOutStep
      <3>2. Shrink(e)
        BY <2>1, <2>3
      <3>3. QED
        BY <1>5, <2>1, <3>1, <3>2
    <2>4. QED
      BY <2>2, <2>3
  <1>7. ASSUME ~(\E p \in Procs : Read(p)) PROVE \A e \in Events : ReadOut(e)' <=> ReadOut(e)
    BY <1>7, ReadOutStep
  <1>8. ASSUME NEW p \in Procs, SkipEntry(p), ~(\E q \in Procs : Read(q)) PROVE AckInv'
    <2> DEFINE x == Head(batch[p])
    <2>1. x \in Events /\ Holds(p, "batch", 0, x) /\ ~In(x, batch'[p])
      BY <1>8, SkipFacts DEF Holds
    <2>2. /\ pending \ {x} \subseteq pending' /\ readAs' = [readAs EXCEPT ![x] = FALSE]
          /\ emittedAs' = emittedAs /\ runs' = runs
          /\ \A q \in Procs : q # p => batch'[q] = batch[q]
      BY <1>8 DEF SkipEntry, sent, TypeOK
    <2>3. \A e \in Events : Shrink(e)
      <3>1. \A e \in Events, q \in Procs : Holds(q, "batch", 0, e)' => Holds(q, "batch", 0, e)
        BY <1>8, SkipFacts DEF Keeps
      <3>2. QED
        BY <3>1 DEF Holds
    <2> HIDE DEF x
    <2>4. readAs \in [Events -> BOOLEAN]
      BY DEF TypeOK
    <2>5. ASSUME NEW e \in Events, e # x PROVE Good(e)
      BY <1>5, <1>7, <1>8, <2>2, <2>3, <2>4, <2>5
    <2>6. ASSUME NEW e \in Events, e = x PROVE Good(e)
      <3>1. \A q \in Procs : ~In(e, batch'[q])
        <4>1. \A q \in Procs : Holds(q, "batch", 0, x) => q = p
          BY <2>1 DEF HeldInv
        <4>2. \A q \in Procs : In(x, batch[q]) => q = p
          BY <4>1 DEF Holds
        <4>3. QED
          BY <2>1, <2>2, <2>6, <4>2
      <3>2. emittedAs'[e] => Skipped(e)'
        BY <2>2, <2>4, <2>6 DEF Skipped
      <3>3. QED
        BY <3>1, <3>2 DEF Good
    <2>7. QED
      BY <1>1, <2>5, <2>6
  <1>9. ASSUME NEW p \in Procs, TakeEntry(p), ~(\E q \in Procs : Read(q)) PROVE AckInv'
    <2> DEFINE x == Head(batch[p])
    <2>1. x \in Events /\ In(x, batch[p])
      BY <1>9, TailFacts DEF TakeEntry, TypeOK
    <2>2. /\ pending' = pending /\ readAs' = [readAs EXCEPT ![x] = TRUE]
          /\ emittedAs' = emittedAs
      BY <1>9 DEF TakeEntry, sent
    <2>3. \A e \in Events : Shrink(e)
      <3>1. \A q \in Procs : batch'[q] = IF q = p THEN Tail(batch[p]) ELSE batch[q]
        BY <1>9 DEF TakeEntry, TypeOK
      <3>2. \A e \in Events : In(e, Tail(batch[p])) => In(e, batch[p])
        BY <1>9, TailFacts DEF TakeEntry, TypeOK
      <3>3. QED
        BY <3>1, <3>2
    <2> HIDE DEF x
    <2>4. readAs \in [Events -> BOOLEAN]
      BY DEF TypeOK
    <2>5. ASSUME NEW e \in Events, e # x PROVE Good(e)
      BY <1>5, <1>7, <1>9, <2>2, <2>3, <2>4, <2>5
    <2>6. ASSUME NEW e \in Events, e = x PROVE Good(e)
      BY <1>2, <1>3, <2>1, <2>2, <2>6 DEF Good
    <2>7. QED
      BY <1>1, <2>5, <2>6
  <1>10. ASSUME NEW p \in Procs, NEW k \in WorkerIds, Ack(p, k), ~(\E q \in Procs : Read(q))
         PROVE  AckInv'
    <2>1. /\ pending' = pending \ {pool[p][k].ev} /\ UNCHANGED <<emittedAs, readAs, batch>>
          /\ runs[pool[p][k].ev] >= 1
      BY <1>10 DEF Ack, sent, WorkersInv
    <2>2. ASSUME NEW e \in Events PROVE Good(e)
      <3>1. CASE e = pool[p][k].ev
        BY <1>3, <1>4, <2>1, <3>1 DEF Done
      <3>2. CASE e # pool[p][k].ev
        BY <1>5, <1>7, <1>10, <2>1, <3>2
      <3>3. QED
        BY <3>1, <3>2
    <2>3. QED
      BY <1>1, <2>2
  <1>11. ASSUME NEW p \in Procs, NEW x \in Events, LastAck(p, x), ~(\E q \in Procs : Read(q))
         PROVE  AckInv'
    <2>1. /\ pending' = pending \ {x} /\ UNCHANGED <<emittedAs, readAs, batch>>
          /\ x \in cut
      BY <1>11 DEF LastAck, sent, WorkersInv
    <2>2. ASSUME NEW e \in Events PROVE Good(e)
      <3>1. CASE e = x
        BY <1>3, <1>4, <2>1, <3>1 DEF Done
      <3>2. CASE e # x
        BY <1>5, <1>7, <1>11, <2>1, <3>2
      <3>3. QED
        BY <3>1, <3>2
    <2>3. QED
      BY <1>1, <2>2
  <1>12. ASSUME NEW p \in Procs, Emit(p), ~(\E q \in Procs : Read(q)) PROVE AckInv'
    <2>1. /\ UNCHANGED <<pending, readAs, batch>>
          /\ \A e \in Events : e # emitted' => emittedAs'[e] = emittedAs[e]
          /\ \A e \in Events : e = emitted' => ~ReadOut(e)
      <3>1. /\ UNCHANGED <<pending, readAs, batch>>
            /\ \A e \in Events : e # emitted' => emittedAs'[e] = emittedAs[e]
        BY <1>12 DEF Emit, memory, TypeOK
      <3>2. \A e \in Events : e = emitted' => ~ReadOut(e)
        BY <1>12, EmitFacts
      <3>3. QED
        BY <3>1, <3>2
    <2>2. ASSUME NEW e \in Events PROVE Good(e)
      <3>1. CASE e = emitted'
        <4>1. ~ReadOut(e)'
          BY <1>7, <1>12, <2>1, <3>1
        <4>2. \A q \in Procs : ~In(e, batch[q])
          BY <2>1, <3>1 DEF HeldInv, Holds
        <4>3. QED
          BY <2>1, <4>1, <4>2 DEF Good
      <3>2. CASE e # emitted'
        BY <1>5, <1>7, <1>12, <2>1, <3>2
      <3>3. QED
        BY <3>1, <3>2
    <2>3. QED
      BY <1>1, <2>2
  <1>13. ASSUME pending' = pending, UNCHANGED <<emittedAs, readAs>>, \A e \in Events : Shrink(e),
                ~(\E q \in Procs : Read(q))
         PROVE  AckInv'
    BY <1>1, <1>5, <1>7, <1>13
  <1>14. ASSUME NEW p \in Procs, Stop(p) \/ Crash(p), ~(\E q \in Procs : Read(q)) PROVE AckInv'
    <2>1. \A q \in Procs : batch'[q] = IF q = p THEN <<>> ELSE batch[q]
      BY <1>14 DEF Stop, Crash, Forget, TypeOK
    <2>2. \A e \in Events : Shrink(e)
      BY <2>1, EmptyFacts
    <2>3. QED
      BY <1>13, <1>14, <2>2 DEF Stop, Crash, sent
  <1>15. ASSUME UNCHANGED <<pending, emittedAs, readAs, batch>>, ~(\E q \in Procs : Read(q))
         PROVE AckInv'
    BY <1>13, <1>15
  <1>16. ASSUME NEW p \in Procs, Refresh(p) \/ RefreshGo(p) \/ PutEntry(p) \/ ScaleUp(p) \/ Retire(p) \/ Start(p),
                ~(\E q \in Procs : Read(q))
         PROVE  AckInv'
    BY <1>15, <1>16 DEF Refresh, RefreshGo, PutEntry, ScaleUp, Retire, Start, sent, memory
  <1>17. ASSUME NEW p \in Procs, NEW e \in Events,
                Xadd(p, e) \/ XaddFails(p, e) \/ LocalHandle(p, e) \/ LocalDrop(p, e),
                ~(\E q \in Procs : Read(q))
         PROVE  AckInv'
    BY <1>15, <1>17 DEF Xadd, XaddFails, LocalHandle, LocalDrop, sent, memory
  <1>18. ASSUME NEW p \in Procs, NEW k \in WorkerIds,
                StartHandlers(p, k) \/ EndHandlers(p, k) \/ AckFails(p, k),
                ~(\E q \in Procs : Read(q))
         PROVE  AckInv'
    BY <1>15, <1>18 DEF StartHandlers, EndHandlers, AckFails, sent
  <1>19. ASSUME UNCHANGED vars \/ Toggle, ~(\E q \in Procs : Read(q)) PROVE AckInv'
    BY <1>15, <1>19 DEF vars, Toggle, sent, memory
  <1>20. QED
    BY <1>6, <1>8, <1>9, <1>10, <1>11, <1>12, <1>14, <1>16, <1>17, <1>18, <1>19
    DEF Next, Loop, Work

-----------------------------------------------------------------------------
(* Pending events *)

\* Process p has event e somewhere, to be handled or acknowledged.
Has(p, e) == \/ In(e, batch[p]) \/ offered[p] = e \/ In(e, queue[p])
             \/ \E k \in DOMAIN pool[p] : pool[p][k].ev = e
             \/ e \in dying[p]

\* Absent faults, every process is up, and no pending event is out of all their hands.
PendingInv == faults = 0 => /\ \A p \in Procs : up[p]
                            /\ \A e \in pending : e \in cut \/ \E p \in Procs : Has(p, e)

\* PendingIsHeld is what PendingInv says of events.
LEMMA PendingFacts == ASSUME TypeOK, PendingInv PROVE PendingIsHeld
  <1>1. ASSUME NEW e \in Events, NEW p \in Procs
        PROVE  e \in ToSet(batch[p]) \cup {offered[p]} \cup ToSet(queue[p]) \cup Busy(p) \cup dying[p]
               <=> Has(p, e)
    <2>1. batch[p] \in Seq(Events) /\ queue[p] \in Seq(Events)
      BY DEF TypeOK
    <2>2. (e \in ToSet(batch[p]) <=> In(e, batch[p])) /\ (e \in ToSet(queue[p]) <=> In(e, queue[p]))
      BY <2>1, ToSetFacts
    <2>3. e \in Busy(p) <=> \E k \in DOMAIN pool[p] : pool[p][k].ev = e
      BY NoneFact DEF Busy
    <2>4. QED
      BY <2>2, <2>3 DEF Has
  <1>2. pending \subseteq Events
    BY DEF TypeOK
  <1>3. QED
    BY <1>1, <1>2 DEF PendingIsHeld, PendingInv

\* An event goes from hand to hand within a process until it is acknowledged.
LEMMA PendingStep ==
  ASSUME TypeOK, WorkersInv, StreamInv, PendingInv, [Next]_vars
  PROVE  PendingInv'
  <1> SUFFICES ASSUME faults' = 0
               PROVE  /\ \A p \in Procs : up'[p]
                      /\ \A e \in pending' : e \in cut' \/ \E p \in Procs : Has(p, e)'
    BY DEF PendingInv
  <1> DEFINE Kept == \A e \in Events, q \in Procs :
                       Has(q, e) => Has(q, e)' \/ e \in cut' \/ e \notin pending'
             Held == \A e \in pending' : e \in cut' \/ \E p \in Procs : Has(p, e)'
  <1>1. faults \in Nat /\ pending' \subseteq Events /\ cut \subseteq cut'
    <2>1. faults \in Nat
      BY ConstantsAssumption DEF TypeOK
    <2>2. pending' \subseteq Events
      BY TypeStep DEF TypeOK
    <2>3. QED
      BY <2>1, <2>2, GrowthStep
  <1>2. ASSUME faults = 0, Kept, pending' \subseteq pending PROVE Held
    BY <1>1, <1>2 DEF PendingInv
  <1>3. ASSUME NEW p \in Procs, Read(p)
        PROVE  Held
    <2>1. /\ UNCHANGED <<faults, cut, offered, queue, pool, dying>> /\ batch[p] = <<>>
          /\ \A q \in Procs : q # p => batch'[q] = batch[q]
          /\ pending' = pending \cup ToSet(batch'[p])
      BY <1>3 DEF Read, TypeOK
    <2>2. \A e \in Events, q \in Procs : Has(q, e) => Has(q, e)'
      BY <2>1, EmptyFacts DEF Has
    <2>3. ASSUME NEW e \in Events, e \in ToSet(batch'[p]) PROVE Has(p, e)'
      <3>1. batch'[p] \in Seq(Events)
        BY TypeStep DEF TypeOK
      <3>2. In(e, batch'[p])
        BY <2>3, <3>1, ToSetFacts
      <3>3. QED
        BY <3>2 DEF Has
    <2>4. QED
      BY <1>1, <2>1, <2>2, <2>3 DEF PendingInv
  <1>4. ASSUME NEW p \in Procs, SkipEntry(p) PROVE Kept
    <2>1. /\ UNCHANGED <<offered, queue, pool, dying>> /\ faults' = faults
          /\ pending' = pending \ {Head(batch[p])}
          /\ \A q \in Procs : batch'[q] = IF q = p THEN Tail(batch[p]) ELSE batch[q]
          /\ \A e : In(e, batch[p]) => e = Head(batch[p]) \/ In(e, Tail(batch[p]))
      BY <1>1, <1>4, TailFacts DEF SkipEntry, TypeOK
    <2>2. QED
      BY <2>1 DEF Has
  <1>5. ASSUME NEW p \in Procs, TakeEntry(p) PROVE Kept
    <2>1. /\ UNCHANGED <<queue, pool, dying>> /\ offered[p] = None
          /\ \A q \in Procs : batch'[q] = IF q = p THEN Tail(batch[p]) ELSE batch[q]
          /\ \A q \in Procs : offered'[q] = IF q = p THEN Head(batch[p]) ELSE offered[q]
          /\ \A e : In(e, batch[p]) => e = Head(batch[p]) \/ In(e, Tail(batch[p]))
      BY <1>5, TailFacts DEF TakeEntry, TypeOK
    <2>2. QED
      BY <2>1, NoneFact DEF Has
  <1>6. ASSUME NEW p \in Procs, PutEntry(p) PROVE Kept
    <2>1. offered[p] \in Events
      BY <1>6 DEF PutEntry, TypeOK
    <2>2. \A e : In(e, Append(queue[p], offered[p])) <=> In(e, queue[p]) \/ e = offered[p]
      BY <2>1, AppendFacts DEF TypeOK
    <2>3. /\ UNCHANGED <<batch, pool, dying>>
          /\ \A q \in Procs : queue'[q] = IF q = p THEN Append(queue[p], offered[p]) ELSE queue[q]
          /\ \A q \in Procs : q # p => offered'[q] = offered[q]
      BY <1>6 DEF PutEntry, TypeOK
    <2>4. QED
      BY <2>2, <2>3 DEF Has
  <1>7. ASSUME NEW p \in Procs, NEW k \in DOMAIN pool[p], NEW at \in {"get", "run", "ack"},
               NEW e \in Events \cup {None}, Become(p, k, at, e), UNCHANGED <<batch, offered, dying>>,
               \A f \in Events : pool[p][k].ev = f => e = f \/ f \notin pending',
               \A q \in Procs : q # p => queue'[q] = queue[q],
               \A f \in Events : In(f, queue[p]) => In(f, queue'[p]) \/ e = f
        PROVE  Kept
    <2>1. /\ \A q \in Procs : DOMAIN pool'[q] = DOMAIN pool[q]
          /\ pool'[p][k] = [at |-> at, ev |-> e]
          /\ \A q \in Procs : \A l \in DOMAIN pool[q] : q # p \/ l # k => pool'[q][l] = pool[q][l]
      BY <1>7, BecomeFacts
    <2>2. pool'[p][k].ev = e
      BY <2>1
    <2>3. ASSUME NEW f \in Events, NEW q \in Procs, Has(q, f), f \in pending' PROVE Has(q, f)'
      <3>1. CASE \E l \in DOMAIN pool[q] : pool[q][l].ev = f
        BY <1>7, <2>1, <2>2, <2>3, <3>1 DEF Has
      <3>2. CASE In(f, queue[q])
        BY <1>7, <2>1, <2>2, <3>2 DEF Has
      <3>3. QED
        BY <1>7, <2>3, <3>1, <3>2 DEF Has
    <2>4. QED
      BY <2>3
  <1>8. ASSUME NEW p \in Procs, NEW k, StartHandlers(p, k) PROVE Kept
    <2>1. /\ Head(queue[p]) \in Events
          /\ \A f : In(f, queue[p]) => f = Head(queue[p]) \/ In(f, Tail(queue[p]))
      BY <1>8, TailFacts DEF StartHandlers, TypeOK
    <2>2. \A q \in Procs : queue'[q] = IF q = p THEN Tail(queue[p]) ELSE queue[q]
      BY <1>8 DEF StartHandlers, TypeOK
    <2>3. k \in DOMAIN pool[p] /\ pool[p][k].ev = None
      BY <1>8 DEF StartHandlers, WorkersInv
    <2>4. Become(p, k, "run", Head(queue[p])) /\ UNCHANGED <<batch, offered, dying>>
      BY <1>8 DEF StartHandlers
    <2> DEFINE x == Head(queue[p])
    <2> HIDE DEF x
    <2>5. /\ \A f \in Events : pool[p][k].ev = f => x = f \/ f \notin pending'
          /\ \A q \in Procs : q # p => queue'[q] = queue[q]
          /\ \A f \in Events : In(f, queue[p]) => In(f, queue'[p]) \/ x = f
      BY <2>1, <2>2, <2>3, NoneFact DEF x
    <2>6. QED
      BY <1>7, <2>1, <2>3, <2>4, <2>5 DEF x
  <1>9. ASSUME NEW p \in Procs, NEW k, EndHandlers(p, k) PROVE Kept
    <2>1. /\ k \in DOMAIN pool[p] /\ pool[p][k].ev \in Events \cup {None}
          /\ Become(p, k, "ack", pool[p][k].ev) /\ UNCHANGED <<batch, offered, dying, queue>>
      BY <1>9, WorkerFacts DEF EndHandlers
    <2>2. QED
      BY <1>7, <2>1
  <1>10. ASSUME NEW p \in Procs, NEW k, Ack(p, k) PROVE Kept
    <2>1. /\ k \in DOMAIN pool[p] /\ pending' = pending \ {pool[p][k].ev}
          /\ Become(p, k, "get", None) /\ UNCHANGED <<batch, offered, dying, queue>>
      BY <1>10 DEF Ack
    <2>2. QED
      BY <1>7, <2>1
  <1>11. ASSUME NEW p \in Procs, ScaleUp(p) PROVE Kept
    <2>1. UNCHANGED <<batch, offered, queue, dying>>
      BY <1>11 DEF ScaleUp
    <2>2. ASSUME NEW q \in Procs, NEW k \in DOMAIN pool[q]
          PROVE  k \in DOMAIN pool'[q] /\ pool'[q][k] = pool[q][k]
      <3>1. pool[p] \in Seq(Worker) /\ IdleWorker \in Worker
        BY DEF TypeOK, Worker, IdleWorker
      <3>2. pool' = [pool EXCEPT ![p] = Append(pool[p], IdleWorker)]
        BY <1>11 DEF ScaleUp
      <3>3. q # p => pool'[q] = pool[q]
        BY <3>2
      <3>4. pool'[p] = Append(pool[p], IdleWorker)
        BY <3>2 DEF TypeOK
      <3>5. q = p => k \in DOMAIN Append(pool[p], IdleWorker) /\ Append(pool[p], IdleWorker)[k] = pool[p][k]
        BY <3>1, AppendProperties, LenProperties
      <3>6. QED
        BY <3>3, <3>4, <3>5
    <2>3. QED
      BY <2>1, <2>2 DEF Has
  <1>12. ASSUME NEW p \in Procs, Retire(p) PROVE Kept
    <2>1. UNCHANGED <<batch, offered, queue>> /\ \A q \in Procs : dying[q] \subseteq dying'[q]
      BY <1>12 DEF Retire, TypeOK
    <2>2. /\ \A q \in Procs : q # p => pool'[q] = pool[q]
          /\ DOMAIN pool[p] = DOMAIN pool'[p] \cup {Len(pool[p])}
          /\ \A k \in DOMAIN pool'[p] : pool'[p][k] = pool[p][k]
      BY <1>12, ShrinkFacts DEF Retire
    <2>3. \A e \in Events : pool[p][Len(pool[p])].ev = e => e \in cut'
      BY <1>12, NoneFact DEF Retire
    <2>4. QED
      BY <2>1, <2>2, <2>3 DEF Has
  <1>13. ASSUME NEW p \in Procs, NEW x \in Events, LastAck(p, x) PROVE Kept
    <2>1. /\ UNCHANGED <<batch, offered, queue, pool>> /\ pending' = pending \ {x}
          /\ \A q \in Procs : dying'[q] = IF q = p THEN dying[p] \ {x} ELSE dying[q]
      BY <1>13 DEF LastAck, TypeOK
    <2>2. QED
      BY <2>1 DEF Has
  <1>14. ASSUME UNCHANGED memory PROVE Kept
    BY <1>14 DEF memory, Has
  <1>15. ASSUME NEW p \in Procs,
                \/ Stop(p) \/ Crash(p) \/ Start(p)
                \/ \E e : XaddFails(p, e) \/ AckFails(p, e) \/ LocalDrop(p, e)
         PROVE  FALSE
    <2>1. CASE Start(p)
      <3>1. ~up[p] /\ faults = 0
        BY <2>1 DEF Start
      <3>2. QED
        BY <3>1 DEF PendingInv
    <2>2. CASE \/ Stop(p) \/ Crash(p)
               \/ \E e : XaddFails(p, e) \/ AckFails(p, e) \/ LocalDrop(p, e)
      <3>1. faults' = faults + 1
        BY <2>2 DEF Stop, Crash, Forget, XaddFails, AckFails, LocalDrop
      <3>2. QED
        BY <1>1, <3>1
    <2>3. QED
      BY <1>15, <2>1, <2>2
  <1> HIDE DEF Kept, Held
  <1> DEFINE Goal == (\A p \in Procs : up'[p]) /\ Held
  <1>16. ASSUME UNCHANGED <<up, faults>>, Kept, pending' \subseteq pending PROVE Goal
    BY <1>2, <1>16 DEF PendingInv
  <1>17. ASSUME NEW p \in Procs, Read(p) PROVE Goal
    BY <1>3, <1>17 DEF Read, PendingInv
  <1>18. ASSUME NEW p \in Procs, SkipEntry(p) \/ TakeEntry(p) \/ PutEntry(p) PROVE Goal
    <2>1. UNCHANGED <<up, faults>> /\ pending' \subseteq pending
      BY <1>1, <1>18 DEF SkipEntry, TakeEntry, PutEntry
    <2>2. QED
      BY <1>4, <1>5, <1>6, <1>16, <1>18, <2>1
  <1>19. ASSUME NEW p \in Procs, NEW k, Work(p, k) PROVE Goal
    <2>1. UNCHANGED <<up, faults>> /\ pending' \subseteq pending
      BY <1>19 DEF Work, StartHandlers, EndHandlers, Ack
    <2>2. QED
      BY <1>8, <1>9, <1>10, <1>16, <1>19, <2>1 DEF Work
  <1>20. ASSUME NEW p \in Procs, ScaleUp(p) \/ Retire(p) PROVE Goal
    <2>1. UNCHANGED <<up, faults>> /\ pending' \subseteq pending
      BY <1>20 DEF ScaleUp, Retire
    <2>2. QED
      BY <1>11, <1>12, <1>16, <1>20, <2>1
  <1>21. ASSUME NEW p \in Procs, NEW x \in Events, LastAck(p, x) PROVE Goal
    <2>1. UNCHANGED <<up, faults>> /\ pending' \subseteq pending
      BY <1>21 DEF LastAck
    <2>2. QED
      BY <1>13, <1>16, <1>21, <2>1
  <1>22. ASSUME UNCHANGED <<up, faults, batch, offered, queue, pool, dying>>, pending' \subseteq pending PROVE Goal
    BY <1>14, <1>16, <1>22 DEF memory
  <1>23. ASSUME NEW p \in Procs, NEW x \in Events, Xadd(p, x) \/ LocalHandle(p, x) PROVE Goal
    BY <1>22, <1>23 DEF Xadd, LocalHandle, memory
  <1>24. ASSUME UNCHANGED vars PROVE Goal
    <2>1. UNCHANGED <<up, faults, batch, offered, queue, pool, dying>> /\ pending' \subseteq pending
      BY <1>24 DEF vars, memory
    <2>2. QED
      BY <1>22, <2>1
  <1>25. ASSUME Toggle PROVE Goal
    <2>1. UNCHANGED <<up, faults, batch, offered, queue, pool, dying>> /\ pending' \subseteq pending
      BY <1>25 DEF Toggle, memory
    <2>2. QED
      BY <1>22, <2>1
  <1>26. ASSUME NEW p \in Procs, Loop(p) PROVE Goal
    BY <1>17, <1>18, <1>26 DEF Loop
  <1> HIDE DEF Goal
  <1>27. Goal
    <2>1. ASSUME NEW p \in Procs, NEW e \in Events,
                 \/ LocalHandle(p, e) \/ LocalDrop(p, e)
                 \/ Xadd(p, e) \/ XaddFails(p, e) \/ LastAck(p, e)
          PROVE  Goal
      BY <1>15, <1>21, <1>23, <2>1
    <2>2. ASSUME NEW p \in Procs, NEW k \in WorkerIds, Work(p, k) \/ AckFails(p, k) PROVE Goal
      BY <1>15, <1>19, <2>2
    <2>3. ASSUME NEW p \in Procs, \/ Refresh(p) \/ RefreshGo(p) \/ Emit(p) \/ Loop(p) \/ ScaleUp(p) \/ Retire(p)
                                  \/ Stop(p) \/ Crash(p) \/ Start(p)
          PROVE  Goal
      <3>1. CASE Stop(p) \/ Crash(p) \/ Start(p)
        BY <1>15, <3>1
      <3>2. CASE Refresh(p) \/ RefreshGo(p) \/ Emit(p)
        <4>1. UNCHANGED <<up, faults, batch, offered, queue, pool, dying>> /\ pending' \subseteq pending
          BY <3>2 DEF Refresh, RefreshGo, Emit, memory
        <4>2. QED
          BY <1>22, <4>1
      <3>3. QED
        BY <1>20, <1>26, <2>3, <3>1, <3>2
    <2>4. QED
      BY <1>24, <1>25, <2>1, <2>2, <2>3 DEF Next
  <1>28. QED
    BY <1>27 DEF Goal, Held

-----------------------------------------------------------------------------
(* Theorems *)

\* The initial states satisfy the invariant.
LEMMA InitInv == Init => BInv /\ PendingInv
  <1> SUFFICES ASSUME Init PROVE BInv /\ PendingInv
    OBVIOUS
  <1>1. TypeOK
    <2>1. \A S : <<>> \in Seq(S)
      OBVIOUS
    <2>2. pool \in [Procs -> Seq(Worker)] /\ \A p \in Procs : pool[p] = FreshPool
      BY FreshFacts DEF Init
    <2>3. Len(<<>>) = 0 /\ 0 <= QCap /\ MinWorkers \in MinWorkers..MaxWorkers /\ 0 \in 0..NEvents
          /\ 0 \in 0..Len(<<>>) /\ 0 \in 0..MaxToggles /\ 0 \in 0..MaxRetires /\ 0 \in 0..MaxFaults
      BY ConstantsAssumption
    <2>4. \A p \in Procs : Len(queue[p]) <= QCap /\ Len(pool[p]) \in MinWorkers..MaxWorkers
      BY <2>2, <2>3, FreshFacts DEF Init
    <2>5. QED
      BY <2>1, <2>2, <2>3, <2>4 DEF Init, TypeOK, Worker
  <1>2. WorkersInv
    <2>1. \A p \in Procs : \A k \in DOMAIN pool[p] : pool[p][k] = IdleWorker
      BY FreshFacts DEF Init
    <2>2. QED
      BY <2>1 DEF Init, WorkersInv, IdleWorker
  <1>3. /\ \A p \in Procs : NoDup(batch[p]) /\ NoDup(queue[p])
        /\ \A p \in Procs, e \in Events : \A u, k : ~Holds(p, u, k, e)
        /\ \A e \in Events : ~ReadOut(e)
    <2>1. \A p \in Procs : batch[p] = <<>> /\ queue[p] = <<>> /\ offered[p] = None
      BY DEF Init
    <2>2. \A p \in Procs : \A k \in DOMAIN pool[p] : pool[p][k].at = "get"
      BY FreshFacts DEF Init, IdleWorker
    <2>3. \A e \in Events : ~ReadOut(e)
      BY DEF Init, ReadOut
    <2>4. QED
      BY <2>1, <2>2, <2>3, EmptyFacts, NoneFact DEF Holds
  <1>4. HeldInv
    BY <1>3 DEF HeldInv
  <1>5. StreamInv
    BY EmptyFacts DEF Init, StreamInv
  <1>5a. LocalInv
    BY DEF Init, LocalInv, Own
  <1>6. RunsInv
    <2>1. \A e \in Events : e > 0 /\ ~(e <= 0)
      BY ConstantsAssumption DEF Events
    <2>2. \A e \in Events : Base(e) = 0 /\ Second(e) = 0 /\ runs[e] = 0 /\ ~readAs[e]
      BY <2>1 DEF Init, Base, Second
    <2>3. QED
      BY <1>3, <2>2 DEF RunsInv
  <1>7. AckInv
    BY <1>3, EmptyFacts DEF Init, AckInv
  <1>8. PendingInv
    BY DEF Init, PendingInv
  <1>9. QED
    BY <1>1, <1>2, <1>4, <1>5, <1>5a, <1>6, <1>7, <1>8 DEF BInv

\* The invariant the others follow from.
LEMMA Invariance == Spec => [](BInv /\ PendingInv)
  <1>1. BInv /\ PendingInv /\ [Next]_vars => BInv' /\ PendingInv'
    BY TypeStep, WorkersStep, StreamStep, LocalStep, HeldStep, RunsStep, AckStep, PendingStep DEF BInv
  <1>2. QED
    BY InitInv, <1>1, PTL DEF Spec

\* Queues, pools and indices keep their bounds.
THEOREM TypeTheorem == Spec => []TypeOK
  <1>1. BInv => TypeOK
    BY DEF BInv
  <1>2. QED
    BY Invariance, <1>1, PTL

\* The handlers of an event run at most once on each route it has gone (the in-process
\* call of aemit, and a worker of eventbus_elastic), however often processes crash, stop and
\* start again.
THEOREM AtMostOnceTheorem == Spec => []AtMostOncePerRoute
  <1>1. BInv => AtMostOncePerRoute
    <2> SUFFICES ASSUME BInv, NEW e \in Events
                 PROVE  runs[e] <= 1 + (IF ~emittedAs[e] /\ readAs[e] THEN 1 ELSE 0)
      BY DEF AtMostOncePerRoute
    <2>1. runs[e] <= Base(e) + Second(e) /\ runs[e] \in Nat
      BY RouteFacts DEF BInv, RunsInv
    <2>2. /\ Base(e) \in {0, 1} /\ (emittedAs[e] => Base(e) = 0)
          /\ Second(e) = IF readAs[e] THEN 1 ELSE 0
      BY RouteFacts DEF BInv, Base, Second
    <2>3. CASE emittedAs[e]
      BY <2>1, <2>2, <2>3
    <2>4. CASE ~emittedAs[e]
      BY <2>1, <2>2, <2>4
    <2>5. QED
      BY <2>3, <2>4
  <1>2. QED
    BY Invariance, <1>1, PTL

\* No event left to the readers is acknowledged unhandled, but for one that was skipped or
\* whose worker was cancelled (_handle_entry and _safe_xack), through any crashes and failures;
\* and one that was not left to them is handled, or waits in its emitter or was discarded there.
THEOREM AckedTheorem == Spec => []AckedIsHandled
  <1>1. BInv => AckedIsHandled
    <2> SUFFICES ASSUME BInv, NEW e \in Acked
                 PROVE  \/ runs[e] >= 1
                        \/ emittedAs[e] /\ (e \in cut \/ Skipped(e))
                        \/ ~emittedAs[e] /\ (e \in lost \/ \E p \in Procs : e \in local[p])
      BY DEF AckedIsHandled
    <2>1. stream \in Seq(Events) /\ cursor \in 0..Len(stream) /\ Len(stream) \in Nat
      BY LenProperties DEF BInv, TypeOK
    <2> DEFINE s == SubSeq(stream, 1, cursor)
    <2>2. s \in Seq(Events) /\ (In(e, s) => \E i \in 1..cursor : stream[i] = e)
      <3>1. LET q == SubSeq(stream, 0 + 1, cursor)
            IN  /\ q \in Seq(Events) /\ Len(q) = cursor - 0
                /\ \A x : In(x, q) <=> \E i \in (0 + 1)..cursor : stream[i] = x
                /\ NoDup(stream) => NoDup(q)
        BY ONLY <2>1, SliceFacts
      <3>2. 0 + 1 = 1
        OBVIOUS
      <3>3. QED
        BY <3>1, <3>2
    <2>3. e \in ToSet(s) /\ e \notin pending
      BY DEF Acked
    <2>4. In(e, s)
      BY <2>2, <2>3, ToSetFacts
    <2>5. ReadOut(e) /\ e \in Events
      BY <2>1, <2>2, <2>4, ElementOfSeq DEF ReadOut
    <2>6. CASE emittedAs[e]
      BY <2>3, <2>5, <2>6 DEF BInv, AckInv
    <2>7. CASE ~emittedAs[e]
      <3>1. In(e, stream)
        BY <2>1, <2>5 DEF ReadOut, In
      <3>2. e <= emitted
        BY <2>5, <3>1 DEF BInv, StreamInv
      <3>3. CASE ~Own(e)
        <4>1. Base(e) = 1
          BY <2>7, <3>2, <3>3 DEF Base
        <4>2. runs[e] >= 1
          BY <2>5, <4>1, RouteFacts DEF BInv, RunsInv
        <4>3. QED
          BY <4>2
      <3>4. QED
        BY <2>7, <3>3 DEF Own
    <2>8. QED
      BY <2>5, <2>6, <2>7 DEF BInv, TypeOK
  <1>2. QED
    BY Invariance, <1>1, PTL

\* Absent faults, what the group has read and not acknowledged is in the memory of some
\* process: it is not lost to the ">" of XREADGROUP.
THEOREM PendingTheorem == Spec => []PendingIsHeld
  <1>1. BInv /\ PendingInv => PendingIsHeld
    BY PendingFacts DEF BInv
  <1>2. QED
    BY Invariance, <1>1, PTL

=============================================================================
