---------------------------- MODULE PipelineProofs ----------------------------
(***************************************************************************)
(* Proofs about PipelinePreparation, for any pipelines that the editor can *)
(* store and any accepted mitigations: what the operators on graphs        *)
(* compute, that no rewrite and no expansion closes a loop or leaves an    *)
(* edge at a node that is gone, and what follows for the pipeline that is  *)
(* executed. Three ideas carry them. A graph without loops stays so when   *)
(* one of its nodes is unfolded into several, in whose edges there is none *)
(* (Unfolding). The ids that an expansion makes are free, because the      *)
(* parts it appends tell them apart (Ids). And a rewrite finds its ids     *)
(* free, because it is applied to nodes of the canvas only (Rewriting).    *)
(***************************************************************************)
EXTENDS PipelinePreparation, TLAPS, FiniteSetTheorems, NaturalsInduction, SequenceTheorems

\* A set of numbers that is not empty has a least one.
LEMMA LeastNumber ==
  ASSUME NEW S \in SUBSET Nat, S # {}
  PROVE  \E n \in S : \A m \in S : n <= m
  <1>1. PICK n \in S : \A m \in S : ~(<<m, n>> \in OpToRel(<, Nat))
    BY WFMin, NatLessThanWellFounded
  <1>2. \A m \in S : ~(m < n)
    BY <1>1 DEF OpToRel
  <1>3. QED
    BY <1>2

\* Induction, for a set of numbers.
LEMMA SetInduction ==
  ASSUME NEW N \in Nat, NEW T, 0 \in T, \A k \in 0..N : k \in T /\ k < N => k + 1 \in T
  PROVE  0..N \subseteq T
  <1> SUFFICES ASSUME ~(0..N \subseteq T) PROVE FALSE
    OBVIOUS
  <1> DEFINE Out == {k \in 0..N : k \notin T}
  <1>1. Out \in SUBSET Nat /\ Out # {}
    OBVIOUS
  <1> HIDE DEF Out
  <1>5. PICK n \in Out : \A m \in Out : n <= m
    BY <1>1, LeastNumber
  <1> USE DEF Out
  <1>2. n \in Nat /\ n # 0 /\ n - 1 \in 0..N
    OBVIOUS
  <1>3. n - 1 \in T
    BY <1>5, <1>2
  <1>4. QED
    BY <1>2, <1>3

\* Two things are finitely many.
LEMMA PairIsFinite ==
  ASSUME NEW a, NEW b
  PROVE  IsFiniteSet({a, b})
  <1>1. IsFiniteSet({a}) /\ IsFiniteSet({b})
    BY FS_Singleton
  <1>2. IsFiniteSet({a} \cup {b})
    BY <1>1, FS_Union, Zenon
  <1>3. {a, b} = {a} \cup {b}
    OBVIOUS
  <1>4. QED
    BY <1>2, <1>3

Image(f, S, N, it) == it = [k \in 0..N |-> IF k = 0 THEN S ELSE f[it[k - 1]]]

\* The sequence of images exists, whatever f is.
LEMMA ImagesExist ==
  ASSUME NEW f, NEW S, NEW N \in Nat
  PROVE  \E it : Image(f, S, N, it)
  <1> DEFINE T == {n \in 0..N : \E it : Image(f, S, n, it)}
  <1>1. 0 \in T
    <2>1. Image(f, S, 0, [k \in 0..0 |-> S])
      BY DEF Image
    <2>2. QED
      BY <2>1
  <1>2. ASSUME NEW k \in 0..N, k \in T, k < N PROVE k + 1 \in T
    <2>1. PICK it : Image(f, S, k, it)
      BY <1>2
    <2> DEFINE nx == [j \in 0..(k + 1) |-> IF j = k + 1 THEN f[it[k]] ELSE it[j]]
    <2>2. \A j \in 0..(k + 1) : nx[j] = IF j = 0 THEN S ELSE f[nx[j - 1]]
      BY <2>1 DEF Image
    <2>3. Image(f, S, k + 1, nx)
      BY <2>2 DEF Image
    <2>4. QED
      BY <1>2, <2>3
  <1> HIDE DEF T
  <1>3. 0..N \subseteq T
    BY <1>1, <1>2, SetInduction
  <1>4. N \in T
    BY <1>3
  <1>5. QED
    BY <1>4 DEF T

\* Repeated gives the last of the images.
LEMMA RepeatedIs ==
  ASSUME NEW g, NEW f, NEW S, Cardinality(Nodes(g)) \in Nat
  PROVE  \E it : /\ it[0] = S
                 /\ \A k \in 1..Cardinality(Nodes(g)) : it[k] = f[it[k - 1]]
                 /\ Repeated(g, f, S) = it[Cardinality(Nodes(g))]
  <1> DEFINE N == Cardinality(Nodes(g))
             it == CHOOSE x : Image(f, S, N, x)
  <1>1. Image(f, S, N, it)
    BY ImagesExist
  <1>2. Repeated(g, f, S) = it[N]
    BY DEF Repeated, Image
  <1> HIDE DEF it
  <1>3. it[0] = S /\ \A k \in 1..N : it[k] = f[it[k - 1]]
    BY <1>1 DEF Image
  <1>4. QED
    BY <1>2, <1>3

(***************************************************************************)
(* A graph without loops.                                                  *)
(***************************************************************************)
Closed(g) == \A e \in g.edges : e.src \in Nodes(g) /\ e.dst \in Nodes(g)

\* Every set of nodes has one that nothing of the set precedes.
First(g, S, n) == \A e \in g.edges : ~(e.src \in S /\ e.dst = n)
NoLoop(g) == \A S \in SUBSET Nodes(g) : S # {} => \E n \in S : First(g, S, n)

\* The test for a cycle of _validate_pipeline, in the model's form (peel off what nothing
\* precedes, as often as there are nodes), fails exactly for the graphs with a loop.
THEOREM AcyclicIsNoLoop ==
  ASSUME NEW g, IsFiniteSet(Nodes(g))
  PROVE  Acyclic(g) <=> NoLoop(g)
  <1> DEFINE V == Nodes(g)
             N == Cardinality(V)
             preceded == [S \in SUBSET V |-> {n \in S : \E e \in Into(g, n) : e.src \in S}]
  <1>1. N \in Nat
    BY FS_CardinalityType
  <1>2. PICK it : /\ it[0] = V
                  /\ \A k \in 1..N : it[k] = preceded[it[k - 1]]
                  /\ Repeated(g, preceded, V) = it[N]
    <2> HIDE DEF preceded
    <2>1. QED
      BY <1>1, RepeatedIs
  <1>3. Acyclic(g) <=> it[N] = {}
    BY <1>2 DEF Acyclic
  <1>4. \A S \in SUBSET V : /\ preceded[S] \in SUBSET S
                            /\ \A n \in S : n \in preceded[S] <=> ~First(g, S, n)
    BY DEF Into, First
  <1> HIDE DEF preceded
  <1>5. ASSUME NoLoop(g) PROVE it[N] = {}
    <2> DEFINE T == {k \in 0..N : it[k] \in SUBSET V /\ Cardinality(it[k]) <= N - k}
    <2>1. 0 \in T
      BY <1>1, <1>2
    <2>2. ASSUME NEW k \in 0..N, k \in T, k < N PROVE k + 1 \in T
      <3>1. it[k] \in SUBSET V /\ Cardinality(it[k]) <= N - k
        BY <2>2
      <3>2. k + 1 \in 1..N /\ it[k + 1] = preceded[it[k]]
        BY <1>1, <1>2, <2>2
      <3>3. it[k + 1] \in SUBSET it[k]
        BY <1>4, <3>1, <3>2
      <3>4. IsFiniteSet(it[k]) /\ Cardinality(it[k]) \in Nat
        BY <3>1, FS_Subset, FS_CardinalityType
      <3>5. CASE it[k] = {}
        <4>1. it[k + 1] = {} /\ Cardinality(it[k + 1]) = 0
          BY <3>3, <3>5, FS_EmptySet
        <4>2. QED
          BY <1>1, <2>2, <3>2, <4>1
      <3>6. CASE it[k] # {}
        <4>1. PICK n \in it[k] : First(g, it[k], n)
          BY <1>5, <3>1, <3>6 DEF NoLoop
        <4>2. n \notin it[k + 1]
          BY <1>4, <3>1, <3>2, <4>1
        <4>3. /\ Cardinality(it[k + 1]) \in Nat
              /\ Cardinality(it[k + 1]) < Cardinality(it[k])
          BY <3>3, <3>4, <4>2, FS_Subset, FS_CardinalityType
        <4>4. QED
          BY <1>1, <2>2, <3>1, <3>2, <3>3, <3>4, <4>3
      <3>7. QED
        BY <3>5, <3>6
    <2>3. N \in T
      <3> HIDE DEF T, N
      <3>1. QED
        BY <1>1, <2>1, <2>2, SetInduction
    <2>4. it[N] \in SUBSET V /\ Cardinality(it[N]) <= 0
      BY <1>1, <2>3
    <2>5. IsFiniteSet(it[N]) /\ Cardinality(it[N]) \in Nat
      BY <2>4, FS_Subset, FS_CardinalityType
    <2>6. QED
      BY <2>4, <2>5, FS_EmptySet
  <1>6. ASSUME it[N] = {}, NEW S \in SUBSET V, S # {} PROVE \E n \in S : First(g, S, n)
    <2> SUFFICES ASSUME \A n \in S : ~First(g, S, n) PROVE FALSE
      OBVIOUS
    <2> DEFINE T == {k \in 0..N : it[k] \in SUBSET V /\ S \subseteq it[k]}
    <2>1. 0 \in T
      BY <1>1, <1>2
    <2>2. ASSUME NEW k \in 0..N, k \in T, k < N PROVE k + 1 \in T
      <3>1. it[k] \in SUBSET V /\ S \subseteq it[k]
        BY <2>2
      <3>2. k + 1 \in 1..N /\ k + 1 \in 0..N /\ it[k + 1] = preceded[it[k]]
        BY <1>1, <1>2, <2>2
      <3>3. \A n \in S : ~First(g, it[k], n)
        BY <3>1 DEF First
      <3>4. it[k + 1] \in SUBSET V /\ S \subseteq it[k + 1]
        BY <1>4, <3>1, <3>2, <3>3
      <3>5. QED
        BY <3>2, <3>4
    <2>3. N \in T
      <3> HIDE DEF T, N
      <3>1. QED
        BY <1>1, <2>1, <2>2, SetInduction
    <2>4. QED
      BY <1>6, <2>3
  <1>7. QED
    BY <1>3, <1>5, <1>6 DEF NoLoop

\* A sound graph has no dangling edge and no loop.
LEMMA SoundMeans ==
  ASSUME NEW g, IsFiniteSet(Nodes(g))
  PROVE  Sound(g) <=> Closed(g) /\ NoLoop(g)
  BY AcyclicIsNoLoop DEF Sound, Dangling, Closed

\* What After finds contains S and whatever it leads to.
LEMMA AfterIsClosed ==
  ASSUME NEW g, IsFiniteSet(Nodes(g)), Closed(g), NEW S \in SUBSET Nodes(g)
  PROVE  /\ S \subseteq After(g, S) /\ After(g, S) \subseteq Nodes(g)
         /\ \A e \in g.edges : e.src \in After(g, S) => e.dst \in After(g, S)
  <1> DEFINE V == Nodes(g)
             N == Cardinality(V)
             step == [T \in SUBSET V |-> T \cup {e.dst : e \in {x \in g.edges : x.src \in T}}]
             Done(T) == \A e \in g.edges : e.src \in T => e.dst \in T
  <1>1. N \in Nat
    BY FS_CardinalityType
  <1>2. PICK it : /\ it[0] = S
                  /\ \A k \in 1..N : it[k] = step[it[k - 1]]
                  /\ Repeated(g, step, S) = it[N]
    <2> HIDE DEF step
    <2>1. QED
      BY <1>1, RepeatedIs
  <1>3. After(g, S) = it[N]
    BY <1>2 DEF After
  <1>4. \A T \in SUBSET V : /\ step[T] \in SUBSET V /\ T \subseteq step[T]
                            /\ Done(T) => step[T] = T
                            /\ ~Done(T) => step[T] # T
    BY DEF Closed
  <1> HIDE DEF step
  <1> DEFINE K == {k \in 0..N : /\ it[k] \in SUBSET V /\ S \subseteq it[k]
                                /\ Done(it[k]) \/ Cardinality(it[k]) >= k}
  <1>5. 0 \in K
    <2>1. IsFiniteSet(S) /\ Cardinality(S) \in Nat
      BY FS_Subset, FS_CardinalityType
    <2> HIDE DEF Done
    <2>2. QED
      BY <1>1, <1>2, <2>1
  <1>6. ASSUME NEW k \in 0..N, k \in K, k < N PROVE k + 1 \in K
    <2>1. /\ it[k] \in SUBSET V /\ S \subseteq it[k]
          /\ Done(it[k]) \/ Cardinality(it[k]) >= k
      BY <1>6
    <2>2. k + 1 \in 0..N /\ it[k + 1] = step[it[k]]
      BY <1>1, <1>2, <1>6
    <2>3. it[k + 1] \in SUBSET V /\ it[k] \subseteq it[k + 1] /\ S \subseteq it[k + 1]
      BY <1>4, <2>1, <2>2
    <2>4. CASE Done(it[k])
      <3>1. Done(it[k + 1])
        BY <1>4, <2>1, <2>2, <2>4
      <3>2. QED
        BY <2>2, <2>3, <3>1
    <2>5. CASE ~Done(it[k])
      <3>1. it[k + 1] # it[k]
        BY <1>4, <2>1, <2>2, <2>5
      <3>2. IsFiniteSet(it[k + 1]) /\ IsFiniteSet(it[k])
        BY <2>1, <2>3, FS_Subset
      <3>3. Cardinality(it[k + 1]) \in Nat /\ Cardinality(it[k]) \in Nat
        BY <3>2, FS_CardinalityType
      <3>4. Cardinality(it[k]) < Cardinality(it[k + 1])
        BY <2>3, <3>1, <3>2, <3>3, FS_Subset
      <3>5. Cardinality(it[k]) >= k
        BY <2>1, <2>5
      <3>6. Cardinality(it[k + 1]) >= k + 1
        BY <3>3, <3>4, <3>5
      <3>7. k + 1 \in K
        <4> HIDE DEF N, Done
        <4>1. QED
          BY <2>2, <2>3, <3>6
      <3>8. QED
        BY <3>7
    <2>6. QED
      BY <2>4, <2>5
  <1>7. N \in K
    <2> HIDE DEF K, N
    <2>1. QED
      BY <1>1, <1>5, <1>6, SetInduction
  <1>8. CASE Done(it[N])
    BY <1>3, <1>7, <1>8
  <1>9. CASE ~Done(it[N])
    <2>1. it[N] \in SUBSET V /\ Cardinality(it[N]) >= N
      BY <1>7, <1>9
    <2>2. it[N] = V
      <3>1. IsFiniteSet(it[N]) /\ Cardinality(it[N]) \in Nat
        BY <2>1, FS_Subset, FS_CardinalityType
      <3>2. it[N] # V => Cardinality(it[N]) < N
        BY <1>1, <2>1, <3>1, FS_Subset
      <3> HIDE DEF N
      <3>3. QED
        BY <1>1, <2>1, <3>1, <3>2
    <2>3. QED
      BY <1>9, <2>2 DEF Closed
  <1>10. QED
    BY <1>8, <1>9

\* ... and nothing else.
LEMMA AfterIsLeast ==
  ASSUME NEW g, IsFiniteSet(Nodes(g)), Closed(g), NEW S \in SUBSET Nodes(g),
         NEW T \in SUBSET Nodes(g), S \subseteq T, \A e \in g.edges : e.src \in T => e.dst \in T
  PROVE  After(g, S) \subseteq T
  <1> DEFINE V == Nodes(g)
             N == Cardinality(V)
             step == [U \in SUBSET V |-> U \cup {e.dst : e \in {x \in g.edges : x.src \in U}}]
  <1>1. N \in Nat
    BY FS_CardinalityType
  <1>2. PICK it : /\ it[0] = S
                  /\ \A k \in 1..N : it[k] = step[it[k - 1]]
                  /\ Repeated(g, step, S) = it[N]
    <2> HIDE DEF step
    <2>1. QED
      BY <1>1, RepeatedIs
  <1>3. After(g, S) = it[N]
    BY <1>2 DEF After
  <1>4. \A U \in SUBSET T : step[U] \in SUBSET T
    OBVIOUS
  <1> HIDE DEF step
  <1> DEFINE K == {k \in 0..N : it[k] \in SUBSET T}
  <1>5. 0 \in K
    BY <1>1, <1>2
  <1>6. ASSUME NEW k \in 0..N, k \in K, k < N PROVE k + 1 \in K
    <2>1. k + 1 \in 0..N /\ k + 1 \in 1..N /\ it[k + 1] = step[it[k]]
      BY <1>1, <1>2, <1>6
    <2>2. QED
      BY <1>4, <1>6, <2>1
  <1>7. N \in K
    <2> HIDE DEF K, N
    <2>1. QED
      BY <1>1, <1>5, <1>6, SetInduction
  <1>8. QED
    BY <1>3, <1>7

\* What a set of nodes leads to (insert_x_preprocessor's guard asks for it).
THEOREM AfterIsReach ==
  ASSUME NEW g, IsFiniteSet(Nodes(g)), Closed(g), NEW S \in SUBSET Nodes(g)
  PROVE  After(g, S) = {n \in Nodes(g) :
           \A T \in SUBSET Nodes(g) :
             S \subseteq T /\ (\A e \in g.edges : e.src \in T => e.dst \in T) => n \in T}
  BY AfterIsClosed, AfterIsLeast

\* Something leads from u straight to v.
Wire(g, u, v) == \E d \in g.edges : d.src = u /\ d.dst = v

\* Nothing leads from a node straight to itself.
LEMMA NoSelfLoop ==
  ASSUME NEW g, NoLoop(g), Closed(g), NEW u
  PROVE  ~Wire(g, u, u)
  <1> SUFFICES ASSUME NEW d \in g.edges, d.src = u, d.dst = u PROVE FALSE
    BY DEF Wire
  <1>1. {u} \in SUBSET Nodes(g)
    BY DEF Closed
  <1>2. PICK n \in {u} : First(g, {u}, n)
    BY <1>1 DEF NoLoop
  <1>3. QED
    BY <1>2 DEF First

\* A graph has no loop when it maps to one that has none, and what maps to one node has none.
LEMMA Projection ==
  ASSUME NEW g, NEW h, NEW f \in [Nodes(h) -> Nodes(g)], NoLoop(g),
         \A T \in SUBSET Nodes(h) : T # {} /\ (\A x, y \in T : f[x] = f[y])
                                      => \E t \in T : First(h, T, t),
         \A e \in h.edges : /\ e.src \in Nodes(h) /\ e.dst \in Nodes(h)
                            /\ f[e.src] = f[e.dst] \/ Wire(g, f[e.src], f[e.dst])
  PROVE  Closed(h) /\ NoLoop(h)
  <1>1. Closed(h)
    BY DEF Closed
  <1>2. ASSUME NEW S \in SUBSET Nodes(h), S # {} PROVE \E t \in S : First(h, S, t)
    <2> DEFINE F == {f[x] : x \in S}
    <2>1. F \in SUBSET Nodes(g) /\ F # {}
      BY <1>2
    <2>2. PICK m \in F : First(g, F, m)
      BY <2>1 DEF NoLoop
    <2> DEFINE T == {x \in S : f[x] = m}
    <2>3. T \in SUBSET Nodes(h) /\ T # {} /\ \A x, y \in T : f[x] = f[y]
      OBVIOUS
    <2>4. PICK t \in T : First(h, T, t)
      BY <2>3
    <2>5. ASSUME NEW e \in h.edges, e.src \in S, e.dst = t PROVE FALSE
      <3>1. f[e.src] \in F /\ f[e.dst] = m
        BY <2>5
      <3>2. ~Wire(g, f[e.src], m)
        BY <2>2, <3>1 DEF First, Wire
      <3>3. e.src \in T
        BY <2>5, <3>1, <3>2
      <3>4. QED
        BY <2>4, <2>5, <3>3 DEF First
    <2>6. QED
      BY <2>5 DEF First
  <1>3. QED
    BY <1>1, <1>2 DEF NoLoop

\* h has New beside or instead of the node n of g: the edges of g end at some of them where
\* they ended at n, and the edges among New and n go upwards in r.
Unfolds(g, h, n, New, r) ==
  \A e \in h.edges :
    /\ e.src \in Nodes(h) /\ e.dst \in Nodes(h)
    /\ \/ Wire(g, e.src, e.dst)
       \/ e.dst \in New /\ Wire(g, e.src, n)
       \/ e.src \in New /\ Wire(g, n, e.dst)
       \/ e.src \in New \cup {n} /\ e.dst \in New \cup {n} /\ r[e.src] < r[e.dst]

\* A graph without loops unfolds into one without loops.
LEMMA Unfolding ==
  ASSUME NEW g, NEW h, NEW n \in Nodes(g), NEW New, NEW r \in [New \cup {n} -> Nat],
         Closed(g), NoLoop(g), New \cap Nodes(g) = {}, Nodes(h) \subseteq Nodes(g) \cup New,
         Unfolds(g, h, n, New, r)
  PROVE  Closed(h) /\ NoLoop(h)
  <1> DEFINE f == [x \in Nodes(h) |-> IF x \in New THEN n ELSE x]
  <1>1. f \in [Nodes(h) -> Nodes(g)]
    OBVIOUS
  <1>2. \A u, v : Wire(g, u, v) => u \in Nodes(g) /\ v \in Nodes(g) /\ u # v
    BY NoSelfLoop DEF Wire, Closed
  <1>3. \A e \in h.edges : /\ e.src \in Nodes(h) /\ e.dst \in Nodes(h)
                           /\ f[e.src] = f[e.dst] \/ Wire(g, f[e.src], f[e.dst])
    BY <1>2 DEF Unfolds
  <1>4. ASSUME NEW T \in SUBSET Nodes(h), T # {}, \A x, y \in T : f[x] = f[y]
        PROVE  \E t \in T : First(h, T, t)
    <2>1. CASE T \subseteq New \cup {n}
      <3> DEFINE R == {r[x] : x \in T}
      <3>1. R \in SUBSET Nat /\ R # {}
        BY <1>4, <2>1
      <3> HIDE DEF R
      <3>2. PICK k \in R : \A m \in R : k <= m
        BY <3>1, LeastNumber
      <3>3. PICK t \in T : r[t] = k
        BY <3>2 DEF R
      <3>4. \A x \in T : r[x] \in Nat /\ ~(r[x] < r[t])
        BY <2>1, <3>2, <3>3 DEF R
      <3>5. ASSUME NEW e \in h.edges, e.src \in T, e.dst = t PROVE FALSE
        <4>1. ~(r[e.src] < r[e.dst])
          BY <3>4, <3>5
        <4>2. Wire(g, e.src, e.dst) \/ Wire(g, e.src, n) \/ Wire(g, n, e.dst)
          BY <4>1 DEF Unfolds
        <4>3. \/ e.src = n /\ Wire(g, e.src, e.dst)
              \/ e.src = n /\ Wire(g, e.src, n)
              \/ e.dst = n /\ Wire(g, n, e.dst)
          BY <1>2, <2>1, <3>5, <4>2
        <4>4. e.dst \in New \cup {n}
          BY <2>1, <3>5
        <4>5. QED
          BY <1>2, <4>3, <4>4
      <3>6. QED
        BY <3>5 DEF First
    <2>2. CASE ~(T \subseteq New \cup {n})
      <3>1. PICK t \in T : t \notin New \cup {n}
        BY <2>2
      <3>2. T = {t}
        BY <1>4, <3>1
      <3>3. ASSUME NEW e \in h.edges, e.src \in T, e.dst = t PROVE FALSE
        BY <1>2, <3>1, <3>2, <3>3 DEF Unfolds
      <3>4. QED
        BY <3>3 DEF First
    <2>3. QED
      BY <2>1, <2>2
  <1> HIDE DEF f
  <1>5. QED
    BY <1>1, <1>3, <1>4, Projection

(***************************************************************************)
(* The shape of a graph, and what the operators on graphs do to it.        *)
(***************************************************************************)
IsEdge(e) == e = Edge(e.src, e.dst, e.pos, e.out)

Shape(g) ==
  /\ DOMAIN g = {"nodes", "edges"} /\ IsFiniteSet(Nodes(g))
  /\ \A n \in Nodes(g) : "kind" \in DOMAIN g.nodes[n]
  /\ \A e \in g.edges : IsEdge(e)

\* The parts of an edge, also of one that was turned to another node.
LEMMA EdgeIs ==
  /\ \A s, d, p, o : /\ IsEdge(Edge(s, d, p, o))
                     /\ Edge(s, d, p, o).src = s /\ Edge(s, d, p, o).dst = d
                     /\ Edge(s, d, p, o).pos = p /\ Edge(s, d, p, o).out = o
  /\ \A e, x : IsEdge(e) => /\ [e EXCEPT !.src = x] = Edge(x, e.dst, e.pos, e.out)
                            /\ [e EXCEPT !.dst = x] = Edge(e.src, x, e.pos, e.out)
                            /\ [e EXCEPT !.pos = x] = Edge(e.src, e.dst, x, e.out)
  BY DEF IsEdge, Edge

\* The kinds of the three constructors of nodes.
LEMMA NodeIs ==
  /\ \A a : "kind" \in DOMAIN Operator(a) /\ Operator(a).kind = "operator" /\ Operator(a).name = a
  /\ \A a : "kind" \in DOMAIN Snippet(a) /\ Snippet(a).kind = "snippet"
  /\ \A a, b, c : "kind" \in DOMAIN Parameter(a, b, c) /\ Parameter(a, b, c).kind = "parameter"
  BY DEF Operator, Snippet, Parameter

\* One node under its id.
LEMMA AtIs ==
  ASSUME NEW n, NEW node
  PROVE  DOMAIN At(n, node) = {n} /\ At(n, node)[n] = node /\ IsFiniteSet(DOMAIN At(n, node))
  BY FS_Singleton DEF At

\* The nodes and the edges of Plus.
LEMMA PlusIs ==
  ASSUME NEW g, NEW new, NEW E
  PROVE  /\ Nodes(Plus(g, new, E)) = DOMAIN new \cup Nodes(g)
         /\ Plus(g, new, E).edges = g.edges \cup E
         /\ \A n \in DOMAIN new : Plus(g, new, E).nodes[n] = new[n]
         /\ \A n \in Nodes(g) \ DOMAIN new : Plus(g, new, E).nodes[n] = g.nodes[n]
  BY DEF Plus, Nodes

\* Plus keeps the shape of a graph.
LEMMA PlusShape ==
  ASSUME NEW g, NEW new, NEW E, Shape(g), IsFiniteSet(DOMAIN new),
         \A n \in DOMAIN new : "kind" \in DOMAIN new[n], \A e \in E : IsEdge(e)
  PROVE  Shape(Plus(g, new, E))
  <1>1. DOMAIN Plus(g, new, E) = {"nodes", "edges"}
    BY DEF Plus
  <1>2. IsFiniteSet(Nodes(Plus(g, new, E)))
    <2>1. IsFiniteSet(DOMAIN new \cup Nodes(g))
      BY FS_Union DEF Shape
    <2>2. QED
      BY <2>1, PlusIs
  <1> DEFINE h == Plus(g, new, E)
  <1>3. \A n \in Nodes(h) : "kind" \in DOMAIN h.nodes[n]
    <2> SUFFICES ASSUME NEW n \in Nodes(h) PROVE "kind" \in DOMAIN h.nodes[n]
      OBVIOUS
    <2> HIDE DEF h
    <2>1. CASE n \in DOMAIN new
      BY <2>1, PlusIs DEF h
    <2>2. CASE n \in Nodes(g) \ DOMAIN new
      BY <2>2, PlusIs DEF h, Shape
    <2>3. QED
      BY <2>1, <2>2, PlusIs DEF h
  <1>4. \A e \in h.edges : IsEdge(e)
    BY PlusIs DEF Shape
  <1>5. QED
    BY <1>1, <1>2, <1>3, <1>4 DEF Shape

\* The nodes and the edges of Minus, which keeps the shape, too.
LEMMA MinusIs ==
  ASSUME NEW g, NEW gone
  PROVE  /\ Nodes(Minus(g, gone)) = Nodes(g) \ gone
         /\ Minus(g, gone).edges = {e \in g.edges : e.src \notin gone /\ e.dst \notin gone}
         /\ \A n \in Nodes(g) \ gone : Minus(g, gone).nodes[n] = g.nodes[n]
         /\ Shape(g) => Shape(Minus(g, gone))
  <1>1. /\ Nodes(Minus(g, gone)) = Nodes(g) \ gone
        /\ Minus(g, gone).edges = {e \in g.edges : e.src \notin gone /\ e.dst \notin gone}
        /\ \A n \in Nodes(g) \ gone : Minus(g, gone).nodes[n] = g.nodes[n]
    BY DEF Minus, Nodes
  <1>2. DOMAIN Minus(g, gone) = {"nodes", "edges"}
    BY DEF Minus
  <1>3. Shape(g) => IsFiniteSet(Nodes(g) \ gone)
    BY FS_Subset DEF Shape
  <1>4. QED
    BY <1>1, <1>2, <1>3 DEF Shape

\* WithEdges changes the edges only.
LEMMA WithEdgesIs ==
  ASSUME NEW g, NEW E, Shape(g)
  PROVE  /\ WithEdges(g, E).nodes = g.nodes /\ Nodes(WithEdges(g, E)) = Nodes(g)
         /\ WithEdges(g, E).edges = E
         /\ (\A e \in E : IsEdge(e)) => Shape(WithEdges(g, E))
  <1>1. WithEdges(g, E).nodes = g.nodes /\ WithEdges(g, E).edges = E
    BY DEF WithEdges, Shape
  <1>2. DOMAIN WithEdges(g, E) = {"nodes", "edges"}
    BY DEF WithEdges, Shape
  <1>3. QED
    BY <1>1, <1>2 DEF Shape, Nodes

(***************************************************************************)
(* The ids.                                                                *)
(***************************************************************************)
\* The strings of which ids consist.
Appended == {"cx", "loader", "fpath", "split_xy", "features", "target", "state", "printout",
             "__init__", "fit", "transform", "predict", "chat.send", "validate", "passthrough",
             "X", "y", "X_test", "messages", "data", "penalty", "class_weight"}
Parts == STRING \cup Tags \cup Appended

EncoderTags == {"encoder", "handle_unknown", "unknown_value"}
SideTags == EncoderTags \cup {"dense", "label_encoder"}

\* x is the first part of y.
Extends(y, x) == Len(x) < Len(y) /\ \A i \in 1..Len(x) : y[i] = x[i]

\* An id extends another one only when its node was put beside the other's.
Ids(g) ==
  /\ \A x \in Nodes(g) : x \in Seq(Parts) /\ Len(x) > 0
  /\ \A x, y \in Nodes(g) : Extends(y, x) => y[Len(x) + 1] \in SideTags

NoEncoderIds(g) == \A y \in Nodes(g) : \A i \in 2..Len(y) : y[i] \notin EncoderTags

\* An id of one part.
LEMMA SingletonIs ==
  ASSUME NEW t \in Parts
  PROVE  <<t>> \in Seq(Parts) /\ Len(<<t>>) = 1 /\ <<t>>[1] = t
  OBVIOUS

\* An id of two parts.
LEMMA PairIs ==
  ASSUME NEW t \in Parts, NEW u \in Parts
  PROVE  <<t, u>> \in Seq(Parts) /\ Len(<<t, u>>) = 2 /\ <<t, u>>[1] = t /\ <<t, u>>[2] = u
  OBVIOUS

\* One part and two parts are three.
LEMMA OneAndTwo ==
  ASSUME NEW S, NEW u \in Seq(S), NEW v \in Seq(S), Len(u) = 1, Len(v) = 2
  PROVE  /\ u \o v \in Seq(S) /\ Len(u \o v) = 3
         /\ (u \o v)[1] = u[1] /\ (u \o v)[2] = v[1] /\ (u \o v)[3] = v[2]
  <1>1. /\ u \o v \in Seq(S) /\ Len(u \o v) = Len(u) + Len(v)
        /\ \A i \in 1..Len(u) + Len(v) : (u \o v)[i] = IF i <= Len(u) THEN u[i] ELSE v[i - Len(u)]
    BY ConcatProperties
  <1>2. /\ Len(u \o v) = 3
        /\ \A i \in 1..3 : (u \o v)[i] = IF i <= 1 THEN u[i] ELSE v[i - 1]
    BY <1>1
  <1>3. (u \o v)[1] = u[1]
    BY <1>2
  <1>4. (u \o v)[2] = v[1]
    BY <1>2
  <1>5. (u \o v)[3] = v[2]
    BY <1>2
  <1>6. QED
    BY <1>1, <1>2, <1>3, <1>4, <1>5

\* The concatenations that the rewrites make, as tuples.
LEMMA TuplesJoined ==
  /\ \A t, s : <<t>> \o <<s>> = <<t, s>>
  /\ \A t, q, s : <<t>> \o <<q, s>> = <<t, q, s>>
  <1>1. ASSUME NEW t, NEW s PROVE <<t>> \o <<s>> = <<t, s>>
    <2> DEFINE S == {s, t}
               u == <<t>>
               v == <<s>>
               w == <<t, s>>
    <2>1. /\ u \in Seq(S) /\ v \in Seq(S) /\ w \in Seq(S)
          /\ Len(u) = 1 /\ Len(v) = 1 /\ Len(w) = 2
      OBVIOUS
    <2>2. u[1] = t /\ v[1] = s /\ w[1] = t /\ w[2] = s
      OBVIOUS
    <2> HIDE DEF u, v, w, S
    <2>3. u \o v \in Seq(S) /\ Len(u \o v) = 2 /\ (u \o v)[1] = t /\ (u \o v)[2] = s
      BY <2>1, <2>2, ConcatProperties
    <2>4. \A i \in 1..2 : (u \o v)[i] = w[i]
      BY <2>2, <2>3
    <2>5. u \o v = w
      BY <2>1, <2>3, <2>4, SeqEqual
    <2>6. QED
      BY <2>5 DEF u, v, w
  <1>2. ASSUME NEW t, NEW q, NEW s PROVE <<t>> \o <<q, s>> = <<t, q, s>>
    <2> DEFINE S == {s, t, q}
               u == <<t>>
               v == <<q, s>>
               w == <<t, q, s>>
    <2>1. /\ u \in Seq(S) /\ v \in Seq(S) /\ w \in Seq(S)
          /\ Len(u) = 1 /\ Len(v) = 2 /\ Len(w) = 3
      OBVIOUS
    <2>2. u[1] = t /\ v[1] = q /\ v[2] = s /\ w[1] = t /\ w[2] = q /\ w[3] = s
      OBVIOUS
    <2> HIDE DEF u, v, w, S
    <2>3. /\ u \o v \in Seq(S) /\ Len(u \o v) = 3
          /\ (u \o v)[1] = t /\ (u \o v)[2] = q /\ (u \o v)[3] = s
      BY <2>1, <2>2, OneAndTwo
    <2>4. \A i \in 1..3 : i = 1 \/ i = 2 \/ i = 3
      OBVIOUS
    <2>5. \A i \in 1..3 : (u \o v)[i] = w[i]
      BY <2>2, <2>3, <2>4
    <2>6. u \o v = w
      BY <2>1, <2>3, <2>5, SeqEqual
    <2>7. QED
      BY <2>6 DEF u, v, w
  <1>3. QED
    BY <1>1, <1>2

\* An id and what is appended to it.
LEMMA Concatenated ==
  ASSUME NEW n \in Seq(Parts), NEW w \in Seq(Parts)
  PROVE  /\ n \o w \in Seq(Parts) /\ Len(n \o w) = Len(n) + Len(w)
         /\ \A i \in 1..Len(n) : (n \o w)[i] = n[i]
         /\ \A i \in Len(n) + 1..Len(n) + Len(w) : (n \o w)[i] = w[i - Len(n)]
         /\ Len(w) > 0 => Extends(n \o w, n) /\ (n \o w)[Len(n) + 1] = w[1]
  <1>1. /\ n \o w \in Seq(Parts) /\ Len(n \o w) = Len(n) + Len(w)
        /\ \A i \in 1..Len(n) + Len(w) : (n \o w)[i] = IF i <= Len(n) THEN n[i] ELSE w[i - Len(n)]
    BY ConcatProperties
  <1>2. Len(n) \in Nat /\ Len(w) \in Nat
    BY LenProperties
  <1>3. \A i \in 1..Len(n) : (n \o w)[i] = n[i]
    BY <1>1, <1>2
  <1>4. \A i \in Len(n) + 1..Len(n) + Len(w) : (n \o w)[i] = w[i - Len(n)]
    BY <1>1, <1>2
  <1>5. ASSUME Len(w) > 0 PROVE Extends(n \o w, n) /\ (n \o w)[Len(n) + 1] = w[1]
    BY <1>1, <1>2, <1>3, <1>4, <1>5 DEF Extends
  <1>6. QED
    BY <1>1, <1>3, <1>4, <1>5

\* The words that an expansion appends to the id of a node: as long as each other, and none
\* begins as what is put beside a node.
Words(W, L) ==
  /\ W \subseteq Seq(Parts) /\ L \in Nat \ {0}
  /\ \A w \in W : Len(w) = L /\ w[1] \notin SideTags

\* The ids that an expansion makes are free.
LEMMA FreshIds ==
  ASSUME NEW g, NEW n \in Nodes(g), Ids(g), NEW W, NEW L, Words(W, L)
  PROVE  \A w \in W : n \o w \notin Nodes(g) /\ n \o w # n
  <1> SUFFICES ASSUME NEW w \in W PROVE n \o w \notin Nodes(g)
    OBVIOUS
  <1>1. n \in Seq(Parts) /\ w \in Seq(Parts) /\ Len(w) > 0 /\ w[1] \notin SideTags
    BY DEF Ids, Words
  <1>2. Extends(n \o w, n) /\ (n \o w)[Len(n) + 1] = w[1]
    BY <1>1, Concatenated
  <1>3. QED
    BY <1>1, <1>2 DEF Ids

\* An expansion keeps the rule of the ids.
LEMMA ReplacedIds ==
  ASSUME NEW g, NEW n \in Nodes(g), Ids(g), NEW W, NEW L, Words(W, L), NEW h,
         Nodes(h) \subseteq (Nodes(g) \ {n}) \cup {n \o w : w \in W}
  PROVE  /\ Ids(h)
         /\ NoEncoderIds(g) /\ (\A w \in W : \A i \in 1..L : w[i] \notin EncoderTags)
              => NoEncoderIds(h)
  <1>1. n \in Seq(Parts) /\ Len(n) \in Nat
    BY LenProperties DEF Ids
  <1>2. \A w \in W : w \in Seq(Parts) /\ Len(w) = L /\ L \in Nat /\ L > 0 /\ w[1] \notin SideTags
    BY DEF Words
  <1>3. \A w \in W : /\ n \o w \in Seq(Parts) /\ Len(n \o w) = Len(n) + L
                     /\ \A i \in 1..Len(n) : (n \o w)[i] = n[i]
                     /\ \A i \in Len(n) + 1..Len(n) + L : (n \o w)[i] = w[i - Len(n)]
                     /\ (n \o w)[Len(n) + 1] = w[1]
    <2> SUFFICES ASSUME NEW w \in W
                 PROVE  /\ n \o w \in Seq(Parts) /\ Len(n \o w) = Len(n) + L
                        /\ \A i \in 1..Len(n) : (n \o w)[i] = n[i]
                        /\ \A i \in Len(n) + 1..Len(n) + L : (n \o w)[i] = w[i - Len(n)]
                        /\ (n \o w)[Len(n) + 1] = w[1]
      OBVIOUS
    <2>1. w \in Seq(Parts) /\ Len(w) = L /\ Len(w) > 0
      BY <1>2
    <2>2. QED
      BY <1>1, <2>1, Concatenated
  <1>4. \A x \in Nodes(g) : x \in Seq(Parts) /\ Len(x) \in Nat
    BY LenProperties DEF Ids
  <1>5. ASSUME NEW x \in Nodes(h) PROVE x \in Seq(Parts) /\ Len(x) > 0
    <2>1. CASE x \in Nodes(g)
      BY <2>1 DEF Ids
    <2>2. ASSUME NEW w \in W, x = n \o w PROVE x \in Seq(Parts) /\ Len(x) > 0
      BY <1>1, <1>2, <1>3, <2>2
    <2>3. QED
      BY <2>1, <2>2
  <1>6. ASSUME NEW x \in Nodes(h), NEW y \in Nodes(h), Extends(y, x)
        PROVE  y[Len(x) + 1] \in SideTags
    <2>1. CASE x \in Nodes(g) \ {n} /\ y \in Nodes(g)
      BY <1>6, <2>1 DEF Ids
    <2>2. ASSUME x \in Nodes(g) \ {n}, NEW w \in W, y = n \o w PROVE y[Len(x) + 1] \in SideTags
      <3>1. Len(x) \in Nat /\ Len(y) = Len(n) + L /\ Len(n) \in Nat /\ L \in Nat /\ L > 0
        BY <1>1, <1>2, <1>3, <1>4, <2>2
      <3>2. CASE Len(x) < Len(n)
        <4>1. Len(x) + 1 \in 1..Len(n) /\ \A i \in 1..Len(x) : i \in 1..Len(n)
          BY <3>1, <3>2
        <4>2. \A i \in 1..Len(x) : n[i] = x[i]
          BY <1>3, <1>6, <2>2, <4>1 DEF Extends
        <4>3. Extends(n, x)
          BY <3>2, <4>2 DEF Extends
        <4>4. y[Len(x) + 1] = n[Len(x) + 1]
          BY <1>3, <2>2, <4>1
        <4>5. QED
          BY <2>2, <4>3, <4>4 DEF Ids
      <3>3. CASE Len(x) > Len(n)
        <4>1. Len(n) + 1 \in 1..Len(x)
          BY <3>1, <3>3
        <4>2. \A i \in 1..Len(n) : x[i] = n[i]
          <5>1. \A i \in 1..Len(n) : i \in 1..Len(x)
            BY <3>1, <3>3
          <5>2. QED
            BY <1>3, <1>6, <2>2, <5>1 DEF Extends
        <4>3. x[Len(n) + 1] = w[1]
          BY <1>3, <1>6, <2>2, <4>1 DEF Extends
        <4>4. Extends(x, n)
          BY <3>3, <4>2 DEF Extends
        <4>5. QED
          BY <1>2, <2>2, <4>3, <4>4 DEF Ids
      <3>4. CASE Len(x) = Len(n)
        <4>1. \A i \in 1..Len(n) : x[i] = n[i]
          BY <1>3, <1>6, <2>2, <3>4 DEF Extends
        <4>2. x = n
          BY <1>1, <1>4, <2>2, <3>4, <4>1, SeqEqual
        <4>3. QED
          BY <2>2, <4>2
      <3>5. QED
        BY <3>1, <3>2, <3>3, <3>4
    <2>3. ASSUME NEW v \in W, x = n \o v, y \in Nodes(g) PROVE y[Len(x) + 1] \in SideTags
      <3>1. Len(y) \in Nat /\ Len(x) = Len(n) + L /\ Len(n) \in Nat /\ L \in Nat /\ L > 0
        BY <1>1, <1>2, <1>3, <1>4, <2>3
      <3>2. Extends(y, n)
        BY <1>3, <1>6, <2>3, <3>1 DEF Extends
      <3>3. y[Len(n) + 1] = v[1]
        BY <1>3, <1>6, <2>3, <3>1 DEF Extends
      <3>4. QED
        BY <1>2, <2>3, <3>2, <3>3 DEF Ids
    <2>4. ASSUME NEW v \in W, NEW w \in W, x = n \o v, y = n \o w PROVE FALSE
      <3>1. Len(x) = Len(n) + L /\ Len(y) = Len(n) + L /\ Len(n) + L \in Nat
        BY <1>1, <1>2, <1>3, <2>4
      <3>2. QED
        BY <1>6, <3>1 DEF Extends
    <2>5. QED
      BY <2>1, <2>2, <2>3, <2>4
  <1>7. ASSUME NoEncoderIds(g), \A w \in W : \A i \in 1..L : w[i] \notin EncoderTags
        PROVE  NoEncoderIds(h)
    <2> SUFFICES ASSUME NEW y \in Nodes(h), NEW i \in 2..Len(y) PROVE y[i] \notin EncoderTags
      BY DEF NoEncoderIds
    <2>1. CASE y \in Nodes(g)
      BY <1>7, <2>1 DEF NoEncoderIds
    <2>2. ASSUME NEW w \in W, y = n \o w PROVE y[i] \notin EncoderTags
      <3>1. Len(y) = Len(n) + L /\ Len(n) \in Nat /\ L \in Nat
        BY <1>1, <1>2, <1>3, <2>2
      <3>2. CASE i <= Len(n)
        <4>1. i \in 2..Len(n) /\ i \in 1..Len(n)
          BY <3>1, <3>2
        <4>2. y[i] = n[i]
          BY <1>3, <2>2, <4>1
        <4>3. QED
          BY <1>7, <4>1, <4>2 DEF NoEncoderIds
      <3>3. CASE i > Len(n)
        <4>1. i \in Len(n) + 1..Len(n) + L /\ i - Len(n) \in 1..L
          BY <3>1, <3>3
        <4>2. y[i] = w[i - Len(n)]
          BY <1>3, <2>2, <4>1
        <4>3. QED
          BY <1>7, <4>1, <4>2
      <3>4. QED
        BY <3>1, <3>2, <3>3
    <2>3. QED
      BY <2>1, <2>2
  <1>8. QED
    BY <1>5, <1>6, <1>7 DEF Ids

\* An encoder is put beside a node once.
LEMMA EncoderIds ==
  ASSUME NEW g, NEW n \in Nodes(g), Ids(g), NoEncoderIds(g), NEW h,
         Nodes(h) \subseteq Nodes(g) \cup {n \o <<t>> : t \in EncoderTags}
  PROVE  /\ \A t \in EncoderTags : n \o <<t>> \notin Nodes(g)
         /\ Ids(h)
  <1>1. n \in Seq(Parts) /\ Len(n) \in Nat /\ Len(n) > 0
    BY LenProperties DEF Ids
  <1>2. \A t \in EncoderTags : <<t>> \in Seq(Parts) /\ Len(<<t>>) = 1 /\ <<t>>[1] = t
    <2>1. \A t \in EncoderTags : t \in Parts
      BY DEF EncoderTags, Parts, Tags
    <2>2. QED
      BY <2>1, SingletonIs
  <1>3. \A t \in EncoderTags : /\ n \o <<t>> \in Seq(Parts) /\ Len(n \o <<t>>) = Len(n) + 1
                               /\ \A i \in 1..Len(n) : (n \o <<t>>)[i] = n[i]
                               /\ (n \o <<t>>)[Len(n) + 1] = t
    <2> SUFFICES ASSUME NEW t \in EncoderTags
                 PROVE  /\ n \o <<t>> \in Seq(Parts) /\ Len(n \o <<t>>) = Len(n) + 1
                        /\ \A i \in 1..Len(n) : (n \o <<t>>)[i] = n[i]
                        /\ (n \o <<t>>)[Len(n) + 1] = t
      OBVIOUS
    <2> DEFINE w == <<t>>
    <2>1. w \in Seq(Parts) /\ Len(w) = 1 /\ Len(w) > 0 /\ w[1] = t
      BY <1>2
    <2> HIDE DEF w
    <2>2. /\ n \o w \in Seq(Parts) /\ Len(n \o w) = Len(n) + Len(w)
          /\ \A i \in 1..Len(n) : (n \o w)[i] = n[i]
          /\ Len(w) > 0 => (n \o w)[Len(n) + 1] = w[1]
      BY <1>1, <2>1, Concatenated
    <2>3. QED
      BY <2>1, <2>2 DEF w
  <1>4. \A x \in Nodes(g) : x \in Seq(Parts) /\ Len(x) \in Nat /\ Len(x) > 0
    BY LenProperties DEF Ids
  <1>5. \A y \in Nodes(g), t \in EncoderTags : ~(Len(n) < Len(y) /\ y[Len(n) + 1] = t)
    BY <1>1, <1>4 DEF NoEncoderIds
  <1>6. ASSUME NEW t \in EncoderTags PROVE n \o <<t>> \notin Nodes(g)
    <2>1. Len(n) < Len(n \o <<t>>) /\ (n \o <<t>>)[Len(n) + 1] = t
      BY <1>1, <1>3
    <2>2. QED
      BY <1>5, <2>1
  <1>7. ASSUME NEW x \in Nodes(h) PROVE x \in Seq(Parts) /\ Len(x) > 0
    <2>1. CASE x \in Nodes(g)
      BY <1>4, <2>1
    <2>2. ASSUME NEW t \in EncoderTags, x = n \o <<t>> PROVE x \in Seq(Parts) /\ Len(x) > 0
      BY <1>1, <1>3, <2>2
    <2>3. QED
      BY <2>1, <2>2
  <1>8. ASSUME NEW x \in Nodes(h), NEW y \in Nodes(h), Extends(y, x)
        PROVE  y[Len(x) + 1] \in SideTags
    <2>1. CASE x \in Nodes(g) /\ y \in Nodes(g)
      BY <1>8, <2>1 DEF Ids
    <2>2. ASSUME x \in Nodes(g), NEW t \in EncoderTags, y = n \o <<t>>
          PROVE  y[Len(x) + 1] \in SideTags
      <3>1. Len(x) \in Nat /\ Len(y) = Len(n) + 1
        BY <1>3, <1>4, <2>2
      <3>2. CASE Len(x) < Len(n)
        <4>1. Len(x) + 1 \in 1..Len(n) /\ \A i \in 1..Len(x) : i \in 1..Len(n)
          BY <1>1, <3>1, <3>2
        <4>2. \A i \in 1..Len(x) : n[i] = x[i]
          BY <1>3, <1>8, <2>2, <4>1 DEF Extends
        <4>3. Extends(n, x)
          BY <3>2, <4>2 DEF Extends
        <4>4. y[Len(x) + 1] = n[Len(x) + 1]
          BY <1>3, <2>2, <4>1
        <4>5. QED
          BY <2>2, <4>3, <4>4 DEF Ids
      <3>3. CASE Len(x) = Len(n)
        BY <1>3, <2>2, <3>3 DEF SideTags
      <3>4. QED
        BY <1>1, <1>8, <3>1, <3>2, <3>3 DEF Extends
    <2>3. ASSUME NEW t \in EncoderTags, x = n \o <<t>>, y \in Nodes(g) PROVE FALSE
      <3>1. Len(x) = Len(n) + 1 /\ Len(x) < Len(y) /\ Len(y) \in Nat
        BY <1>3, <1>4, <1>8, <2>3 DEF Extends
      <3>2. y[Len(n) + 1] = t
        BY <1>1, <1>3, <1>8, <2>3, <3>1 DEF Extends
      <3>3. QED
        BY <1>1, <1>5, <2>3, <3>1, <3>2
    <2>4. ASSUME NEW t \in EncoderTags, NEW u \in EncoderTags, x = n \o <<t>>, y = n \o <<u>>
          PROVE  FALSE
      BY <1>1, <1>3, <1>8, <2>4 DEF Extends
    <2>5. QED
      BY <2>1, <2>2, <2>3, <2>4
  <1>9. QED
    BY <1>6, <1>7, <1>8 DEF Ids

(***************************************************************************)
(* What a rewrite or an expansion makes of a graph: at most the nodes New  *)
(* come in, none of them a group; an operator that was not there before    *)
(* has one of some names; and a sound graph stays sound.                   *)
(***************************************************************************)
Outcome(g, h, New, names) ==
  /\ Shape(h) /\ Nodes(h) \subseteq Nodes(g) \cup New
  /\ Nodes(g) # {} => Nodes(h) # {}
  /\ Sound(g) => Sound(h)
  /\ \A x \in Nodes(h) : Is(h, x, "group") => x \in Nodes(g) /\ h.nodes[x] = g.nodes[x]
  /\ \A x \in Nodes(h) : Is(h, x, "operator")
                           => h.nodes[x].name \in names \/ (x \in Nodes(g) /\ h.nodes[x] = g.nodes[x])

\* The rest of it, for the operators that add nodes.
LEMMA OutcomeIs ==
  ASSUME NEW g, Shape(g), NEW h, NEW n \in Nodes(g), NEW New, NEW names, Shape(h),
         New \cap Nodes(g) = {}, Nodes(h) \subseteq Nodes(g) \cup New, Nodes(h) # {},
         \A x \in Nodes(h) \ New : h.nodes[x] = g.nodes[x],
         \A x \in Nodes(h) \cap New : ~Is(h, x, "group")
                                        /\ (Is(h, x, "operator") => h.nodes[x].name \in names),
         Closed(g) /\ NoLoop(g) => \E r \in [New \cup {n} -> Nat] : Unfolds(g, h, n, New, r)
  PROVE  Outcome(g, h, New, names)
  <1>1. Sound(g) => Sound(h)
    BY SoundMeans, Unfolding DEF Shape
  <1>2. QED
    BY <1>1 DEF Outcome

\* The operators that change nodes only.
LEMMA SameEdges ==
  ASSUME NEW g, Shape(g), NEW h, Shape(h), Nodes(h) = Nodes(g), h.edges = g.edges
  PROVE  Sound(g) => Sound(h)
  <1>1. Closed(g) => Closed(h)
    BY DEF Closed
  <1>2. NoLoop(g) => NoLoop(h)
    BY DEF NoLoop, First
  <1>3. QED
    BY <1>1, <1>2, SoundMeans DEF Shape

\* A node changes; neither before nor after is it a group.
LEMMA NodeChanged ==
  ASSUME NEW g, Shape(g), NEW p \in Nodes(g), NEW h, ~Is(g, p, "group"), NEW names,
         DOMAIN h = {"nodes", "edges"}, h.edges = g.edges, Nodes(h) = Nodes(g),
         \A x \in Nodes(g) \ {p} : h.nodes[x] = g.nodes[x],
         "kind" \in DOMAIN h.nodes[p], h.nodes[p].kind # "group",
         h.nodes[p].kind = "operator" => h.nodes[p].name \in names
  PROVE  Outcome(g, h, {}, names)
  <1>1. Shape(h)
    BY DEF Shape
  <1>2. Sound(g) => Sound(h)
    BY <1>1, SameEdges
  <1>3. QED
    BY <1>1, <1>2 DEF Outcome, Is

\* The operators that may leave the graph as it is.
LEMMA NothingChanged ==
  ASSUME NEW g, Shape(g), NEW New, NEW names
  PROVE  Outcome(g, g, New, names)
  BY DEF Outcome

\* ReplaceNode changes one operator and nothing else.
LEMMA NodeReplaced ==
  ASSUME NEW g, Shape(g), NEW n, Is(g, n, "operator"), NEW name
  PROVE  LET h == ReplaceNode(g, n, name)
         IN  /\ Outcome(g, h, {}, {h.nodes[n].name})
             /\ Nodes(h) = Nodes(g) /\ \A x \in Nodes(g) \ {n} : h.nodes[x] = g.nodes[x]
  <1> DEFINE h == ReplaceNode(g, n, name)
  <1>1. /\ DOMAIN h = {"nodes", "edges"} /\ h.edges = g.edges
        /\ h.nodes = [g.nodes EXCEPT ![n] = [@ EXCEPT !.name = name]]
    BY DEF ReplaceNode, Shape
  <1>2. n \in Nodes(g) /\ g.nodes[n].kind = "operator" /\ "kind" \in DOMAIN g.nodes[n]
    BY DEF Is, Shape
  <1>3. /\ Nodes(h) = Nodes(g) /\ \A x \in Nodes(g) \ {n} : h.nodes[x] = g.nodes[x]
        /\ h.nodes[n] = [g.nodes[n] EXCEPT !.name = name]
    BY <1>1, <1>2 DEF Nodes
  <1>4. "kind" \in DOMAIN h.nodes[n] /\ h.nodes[n].kind = "operator"
    BY <1>2, <1>3
  <1> DEFINE names == {h.nodes[n].name}
  <1>7. h.nodes[n].name \in names
    OBVIOUS
  <1> HIDE DEF h, names
  <1>5. Outcome(g, h, {}, names)
    BY <1>1, <1>2, <1>3, <1>4, <1>7, NodeChanged DEF Is, names
  <1>6. QED
    BY <1>3, <1>5 DEF h, names

\* A parameter gets another value.
LEMMA ValueSet ==
  ASSUME NEW g, Shape(g), NEW p, Is(g, p, "parameter"), NEW value, NEW names
  PROVE  Outcome(g, [g EXCEPT !.nodes[p].value = value], {}, names)
  <1> DEFINE h == [g EXCEPT !.nodes[p].value = value]
  <1>1. /\ DOMAIN h = {"nodes", "edges"} /\ h.edges = g.edges
        /\ h.nodes = [g.nodes EXCEPT ![p] = [@ EXCEPT !.value = value]]
    BY DEF Shape
  <1>2. p \in Nodes(g) /\ g.nodes[p].kind = "parameter" /\ "kind" \in DOMAIN g.nodes[p]
    BY DEF Is, Shape
  <1>3. /\ Nodes(h) = Nodes(g) /\ \A x \in Nodes(g) \ {p} : h.nodes[x] = g.nodes[x]
        /\ h.nodes[p] = [g.nodes[p] EXCEPT !.value = value]
    BY <1>1, <1>2 DEF Nodes
  <1>4. "kind" \in DOMAIN h.nodes[p] /\ h.nodes[p].kind = "parameter"
    BY <1>2, <1>3
  <1> HIDE DEF h
  <1>5. Outcome(g, h, {}, names)
    BY <1>1, <1>2, <1>3, <1>4, NodeChanged DEF Is
  <1>6. QED
    BY <1>5 DEF h

\* Satellites are parameters.
LEMMA SatellitesAre ==
  ASSUME NEW g, NEW n, NEW name
  PROVE  \A p \in Satellites(g, n, name) : Is(g, p, "parameter")
  BY DEF Satellites, ParamsInto

\* SetParamValue keeps a graph sound.
LEMMA ParamValueSet ==
  ASSUME NEW g, Shape(g), NEW n, NEW name, NEW value, NEW names,
         NEW h \in SetParamValue(g, n, name, value)
  PROVE  Outcome(g, h, {}, names)
  <1>1. CASE Satellites(g, n, name) = {}
    BY <1>1, NothingChanged DEF SetParamValue
  <1>2. ASSUME NEW p \in Satellites(g, n, name), h = [g EXCEPT !.nodes[p].value = value]
        PROVE  Outcome(g, h, {}, names)
    BY <1>2, SatellitesAre, ValueSet
  <1>3. QED
    BY <1>1, <1>2 DEF SetParamValue

\* ParamToSnippet keeps a graph sound.
LEMMA ParamMadeSnippet ==
  ASSUME NEW g, Shape(g), NEW n, NEW name, NEW names, NEW h \in ParamToSnippet(g, n, name)
  PROVE  Outcome(g, h, {}, names)
  <1>1. CASE Satellites(g, n, name) = {}
    BY <1>1, NothingChanged DEF ParamToSnippet
  <1>2. ASSUME NEW p \in Satellites(g, n, name), h = [g EXCEPT !.nodes[p] = Snippet(name)]
        PROVE  Outcome(g, h, {}, names)
    <2>1. /\ DOMAIN h = {"nodes", "edges"} /\ h.edges = g.edges
          /\ h.nodes = [g.nodes EXCEPT ![p] = Snippet(name)]
      BY <1>2 DEF Shape
    <2>2. p \in Nodes(g) /\ ~Is(g, p, "group")
      BY <1>2, SatellitesAre DEF Is
    <2>3. /\ Nodes(h) = Nodes(g) /\ \A x \in Nodes(g) \ {p} : h.nodes[x] = g.nodes[x]
          /\ h.nodes[p] = Snippet(name)
      BY <2>1, <2>2 DEF Nodes
    <2>4. "kind" \in DOMAIN h.nodes[p] /\ h.nodes[p].kind = "snippet"
      BY <2>3, NodeIs
    <2>5. QED
      BY <2>1, <2>2, <2>3, <2>4, NodeChanged
  <1>3. QED
    BY <1>1, <1>2 DEF ParamToSnippet

\* One node more.
LEMMA PlusOne ==
  ASSUME NEW g, Shape(g), NEW n, NEW node, "kind" \in DOMAIN node, NEW E, \A e \in E : IsEdge(e)
  PROVE  LET h == Plus(g, At(n, node), E)
         IN  /\ Shape(h) /\ Nodes(h) = Nodes(g) \cup {n} /\ h.edges = g.edges \cup E
             /\ h.nodes[n] = node /\ \A x \in Nodes(g) \ {n} : h.nodes[x] = g.nodes[x]
  <1>1. DOMAIN At(n, node) = {n} /\ At(n, node)[n] = node /\ IsFiniteSet(DOMAIN At(n, node))
    BY AtIs
  <1>2. \A x \in DOMAIN At(n, node) : "kind" \in DOMAIN At(n, node)[x]
    BY <1>1
  <1>3. Shape(Plus(g, At(n, node), E))
    BY <1>1, <1>2, PlusShape
  <1>4. QED
    BY <1>1, <1>3, PlusIs

\* WireParam keeps a graph sound: the parameter comes before its operator.
LEMMA ParamWired ==
  ASSUME NEW g, Shape(g), NEW n \in Nodes(g), NEW name, NEW value, NEW names,
         Fresh(n, name) \notin Nodes(g)
  PROVE  Outcome(g, WireParam(g, n, name, value), {Fresh(n, name)}, names)
  <1> DEFINE p == Fresh(n, name)
             h == WireParam(g, n, name, value)
             r == [x \in {p} \cup {n} |-> IF x = p THEN 0 ELSE 1]
  <1>1. /\ Shape(h) /\ Nodes(h) = Nodes(g) \cup {p}
        /\ h.edges = g.edges \cup {Edge(p, n, name, 0)}
        /\ h.nodes[p] = Parameter(name, "str", value)
        /\ \A x \in Nodes(g) \ {p} : h.nodes[x] = g.nodes[x]
    BY PlusOne, NodeIs, EdgeIs DEF WireParam
  <1> HIDE DEF h, p
  <1>2. p \notin Nodes(g)
    BY DEF p
  <1>3. ASSUME Closed(g) PROVE Unfolds(g, h, n, {p}, r)
    BY <1>1, <1>2, <1>3, EdgeIs DEF Unfolds, Wire, Closed
  <1>4. r \in [{p} \cup {n} -> Nat]
    OBVIOUS
  <1>5. \A x \in Nodes(h) \cap {p} : ~Is(h, x, "group") /\ ~Is(h, x, "operator")
    BY <1>1, NodeIs DEF Is
  <1>6. Outcome(g, h, {p}, names)
    <2> HIDE DEF r
    <2>1. \A x \in Nodes(h) \ {p} : h.nodes[x] = g.nodes[x]
      BY <1>1
    <2>2. Nodes(h) # {} /\ {p} \cap Nodes(g) = {}
      BY <1>1, <1>2
    <2>3. QED
      BY <1>1, <1>3, <1>4, <1>5, <2>1, <2>2, OutcomeIs
  <1>7. QED
    BY <1>6 DEF h, p

\* Edges that are added among New and n, upwards in r.
Inner(E, n, New, r) ==
  \A e \in E : /\ IsEdge(e) /\ e.src \in New \cup {n} /\ e.dst \in New \cup {n}
               /\ r[e.src] < r[e.dst]

\* g with the nodes New, which are wired to each other and to n only.
Beside(g, h, n, New, r, E) ==
  /\ Shape(h) /\ Nodes(h) = Nodes(g) \cup New /\ h.edges = g.edges \cup E
  /\ Inner(E, n, New, r)

\* New nodes beside a node unfold the graph.
LEMMA BesideUnfolds ==
  ASSUME NEW g, NEW n \in Nodes(g), NEW New, NEW r, NEW E, NEW a, Beside(g, a, n, New, r, E),
         Closed(g)
  PROVE  Unfolds(g, a, n, New, r)
  <1>1. /\ a.edges = g.edges \cup E /\ Nodes(a) = Nodes(g) \cup New /\ Inner(E, n, New, r)
    BY DEF Beside
  <1>2. ASSUME NEW e \in a.edges
        PROVE  /\ e.src \in Nodes(a) /\ e.dst \in Nodes(a)
               /\ \/ Wire(g, e.src, e.dst)
                  \/ /\ e.src \in New \cup {n} /\ e.dst \in New \cup {n} /\ r[e.src] < r[e.dst]
    BY <1>1 DEF Closed, Wire, Inner
  <1>3. QED
    BY <1>2 DEF Unfolds

\* RerouteOutgoing unfolds the graph to which the node on the way was added.
LEMMA OutgoingRerouted ==
  ASSUME NEW g, Shape(g), NEW n \in Nodes(g), NEW New, NEW r, NEW E, NEW a,
         Beside(g, a, n, New, r, E), NEW o \in New,
         \A e \in E : e.src = n => e.dst = o
  PROVE  LET h == RerouteOutgoing(a, n, o)
         IN  /\ Shape(h) /\ h.nodes = a.nodes
             /\ Closed(g) => Unfolds(g, h, n, New, r)
  <1> DEFINE h == RerouteOutgoing(a, n, o)
             moved == {e \in From(a, n) : e.dst # o}
             to == {Edge(o, e.dst, e.pos, 0) : e \in moved}
  <1>1. /\ Shape(a) /\ a.edges = g.edges \cup E /\ Nodes(a) = Nodes(g) \cup New
        /\ Inner(E, n, New, r)
    BY DEF Beside
  <1>2. \A e \in (a.edges \ moved) \cup to : IsEdge(e)
    BY <1>1, EdgeIs DEF Shape
  <1>3. /\ Shape(h) /\ h.nodes = a.nodes /\ Nodes(h) = Nodes(a)
        /\ h.edges = (a.edges \ moved) \cup to
    <2> HIDE DEF moved, to
    <2>1. h = WithEdges(a, (a.edges \ moved) \cup to)
      BY DEF RerouteOutgoing, moved, to
    <2>2. QED
      BY <1>1, <1>2, <2>1, WithEdgesIs
  <1> HIDE DEF h
  <1>4. ASSUME Closed(g) PROVE Unfolds(g, h, n, New, r)
    <2>1. moved \subseteq g.edges
      BY <1>1 DEF From
    <2>2. ASSUME NEW e \in a.edges
          PROVE  /\ e.src \in Nodes(h) /\ e.dst \in Nodes(h)
                 /\ \/ Wire(g, e.src, e.dst)
                    \/ /\ e.src \in New \cup {n} /\ e.dst \in New \cup {n} /\ r[e.src] < r[e.dst]
      BY <1>1, <1>3, <1>4 DEF Closed, Wire, Inner
    <2>3. ASSUME NEW e \in moved
          PROVE  LET d == Edge(o, e.dst, e.pos, 0)
                 IN  d.src \in Nodes(h) /\ d.dst \in Nodes(h) /\ d.src \in New /\ Wire(g, n, d.dst)
      <3>1. e \in g.edges /\ e.src = n
        BY <2>1 DEF From
      <3>2. QED
        BY <1>1, <1>3, <1>4, <3>1, EdgeIs DEF Closed, Wire
    <2> HIDE DEF moved
    <2>4. QED
      BY <1>3, <2>2, <2>3 DEF Unfolds
  <1>5. QED
    BY <1>3, <1>4 DEF h

\* RerouteIncoming does so, too.
LEMMA IncomingRerouted ==
  ASSUME NEW g, Shape(g), NEW n \in Nodes(g), NEW New, NEW r, NEW E, NEW a, NEW anchor,
         Beside(g, a, n, New, r, E), NEW o \in New,
         \A e \in E : e.dst = n => e.src = o
  PROVE  LET h == RerouteIncoming(a, n, o, anchor)
         IN  /\ Shape(h) /\ h.nodes = a.nodes
             /\ Closed(g) => Unfolds(g, h, n, New, r)
  <1> DEFINE h == RerouteIncoming(a, n, o, anchor)
  <1>1. /\ Shape(a) /\ a.edges = g.edges \cup E /\ Nodes(a) = Nodes(g) \cup New
        /\ Inner(E, n, New, r)
    BY DEF Beside
  <1>2. PICK moved \in SUBSET {e \in Into(a, n) : e.src # o} :
           h = WithEdges(a, (a.edges \ moved) \cup {[e EXCEPT !.dst = o] : e \in moved})
    <2> DEFINE inputs == Inputs(Interface(a.nodes[n].name))
               wanted(p) == IF anchor # "any" THEN p = anchor
                            ELSE inputs = {} \/ p \in inputs \cap {"X", "X_test"}
               moved == {e \in DataInto(a, n) : e.src # o /\ wanted(e.pos)}
    <2>1. h = WithEdges(a, (a.edges \ moved) \cup {[e EXCEPT !.dst = o] : e \in moved})
      BY DEF RerouteIncoming
    <2>2. moved \in SUBSET {e \in Into(a, n) : e.src # o}
      BY DEF DataInto
    <2> HIDE DEF moved, h
    <2>3. QED
      BY <2>1, <2>2
  <1> DEFINE to == {[e EXCEPT !.dst = o] : e \in moved}
  <1>3. \A e \in moved : e \in a.edges /\ e.dst = n /\ e.src # o /\ IsEdge(e)
    BY <1>1 DEF Into, Shape
  <1>4. \A e \in (a.edges \ moved) \cup to : IsEdge(e)
    <2>1. ASSUME NEW e \in moved PROVE IsEdge([e EXCEPT !.dst = o])
      <3>1. [e EXCEPT !.dst = o] = Edge(e.src, o, e.pos, e.out)
        BY <1>3, EdgeIs
      <3>2. QED
        BY <3>1, EdgeIs
    <2>2. QED
      BY <1>1, <2>1 DEF Shape
  <1>5. /\ Shape(h) /\ h.nodes = a.nodes /\ Nodes(h) = Nodes(a)
        /\ h.edges = (a.edges \ moved) \cup to
    <2> HIDE DEF to, h
    <2>1. h = WithEdges(a, (a.edges \ moved) \cup to)
      BY <1>2 DEF to
    <2>2. QED
      BY <1>1, <1>4, <2>1, WithEdgesIs
  <1> HIDE DEF h
  <1>6. ASSUME Closed(g) PROVE Unfolds(g, h, n, New, r)
    <2>1. moved \subseteq g.edges
      BY <1>1, <1>3
    <2>2. ASSUME NEW e \in a.edges
          PROVE  /\ e.src \in Nodes(h) /\ e.dst \in Nodes(h)
                 /\ \/ Wire(g, e.src, e.dst)
                    \/ /\ e.src \in New \cup {n} /\ e.dst \in New \cup {n} /\ r[e.src] < r[e.dst]
      BY <1>1, <1>5, <1>6 DEF Closed, Wire, Inner
    <2>3. ASSUME NEW e \in moved
          PROVE  LET d == [e EXCEPT !.dst = o]
                 IN  d.src \in Nodes(h) /\ d.dst \in Nodes(h) /\ d.dst \in New /\ Wire(g, d.src, n)
      <3>1. e \in g.edges /\ e.dst = n /\ IsEdge(e)
        BY <1>3, <2>1
      <3>2. QED
        BY <1>1, <1>5, <1>6, <3>1, EdgeIs DEF Closed, Wire
    <2>4. QED
      BY <1>5, <2>2, <2>3 DEF Unfolds
  <1>7. QED
    BY <1>5, <1>6 DEF h

\* The nodes and edges that AddOperator adds.
LEMMA OperatorAdded ==
  ASSUME NEW g, Shape(g), NEW n \in Nodes(g), NEW o, NEW name, NEW param, NEW dtype,
         NEW E, \A e \in E : IsEdge(e),
         o \notin Nodes(g), Fresh(o, param) \notin Nodes(g), o # Fresh(o, param)
  PROVE  LET p == Fresh(o, param)
             h == AddOperator(g, n, o, name, param, dtype, E)
         IN  /\ Shape(h) /\ Nodes(h) = Nodes(g) \cup {o, p}
             /\ h.edges = g.edges \cup (E \cup {Edge(p, o, param, 0)})
             /\ h.nodes[o] = Operator(name) /\ h.nodes[p] = Parameter(param, dtype, "HF_TOKEN")
             /\ \A x \in Nodes(g) : h.nodes[x] = g.nodes[x]
  <1> DEFINE p == Fresh(o, param)
             m == Plus(g, At(o, Operator(name)), E)
             h == AddOperator(g, n, o, name, param, dtype, E)
  <1>1. /\ Shape(m) /\ Nodes(m) = Nodes(g) \cup {o} /\ m.edges = g.edges \cup E
        /\ m.nodes[o] = Operator(name) /\ \A x \in Nodes(g) \ {o} : m.nodes[x] = g.nodes[x]
    BY PlusOne, NodeIs
  <1>2. h = Plus(m, At(p, Parameter(param, dtype, "HF_TOKEN")), {Edge(p, o, param, 0)})
    BY DEF AddOperator
  <1> HIDE DEF m, h, p
  <1>3. p \notin Nodes(m)
    BY <1>1 DEF p
  <1>4. /\ Shape(h) /\ Nodes(h) = Nodes(m) \cup {p}
        /\ h.edges = m.edges \cup {Edge(p, o, param, 0)}
        /\ h.nodes[p] = Parameter(param, dtype, "HF_TOKEN")
        /\ \A x \in Nodes(m) \ {p} : h.nodes[x] = m.nodes[x]
    <2> DEFINE node == Parameter(param, dtype, "HF_TOKEN")
               F == {Edge(p, o, param, 0)}
    <2>1. "kind" \in DOMAIN node /\ \A e \in F : IsEdge(e)
      BY NodeIs, EdgeIs
    <2> HIDE DEF node, F
    <2>2. h = Plus(m, At(p, node), F)
      BY <1>2 DEF node, F
    <2>3. /\ Shape(h) /\ Nodes(h) = Nodes(m) \cup {p} /\ h.edges = m.edges \cup F
          /\ h.nodes[p] = node /\ \A x \in Nodes(m) \ {p} : h.nodes[x] = m.nodes[x]
      BY <1>1, <2>1, <2>2, PlusOne
    <2>4. QED
      BY <2>3 DEF node, F
  <1>5. QED
    BY <1>1, <1>3, <1>4 DEF h, p

\* The ids that a rewrite of the canvas node with the string s gives out.
Made(s) ==
  {<<"guard", s>>, <<"token", "guard", s>>, <<"preprocessor", s>>,
   <<"handle_unknown", "preprocessor", s>>, <<"random_state", s>>,
   <<s, "dense">>, <<s, "label_encoder">>}

\* The ids of the documents of seed_rewrites.py.
LEMMA MadeIs ==
  ASSUME NEW s
  PROVE  /\ Fresh(<<s>>, "guard") = <<"guard", s>>
         /\ Fresh(<<"guard", s>>, "token") = <<"token", "guard", s>>
         /\ Fresh(<<s>>, "preprocessor") = <<"preprocessor", s>>
         /\ Fresh(<<"preprocessor", s>>, "handle_unknown") = <<"handle_unknown", "preprocessor", s>>
         /\ Fresh(<<s>>, "random_state") = <<"random_state", s>>
         /\ <<s>> \o <<"dense">> = <<s, "dense">>
         /\ <<s>> \o <<"label_encoder">> = <<s, "label_encoder">>
  BY TuplesJoined DEF Fresh

\* The matched node of the canvas, and ids that are still to be given.
Matched(g, n) ==
  /\ Shape(g) /\ n \in Nodes(g) /\ n = <<n[1]>> /\ Untagged(n[1])
  /\ Made(n[1]) \cap Nodes(g) = {}

\* What is left to show of a rewrite that adds nodes beside its match.
LEMMA BesideOutcome ==
  ASSUME NEW g, Shape(g), NEW n \in Nodes(g), NEW New, NEW r \in [New \cup {n} -> Nat], NEW E,
         NEW a, Beside(g, a, n, New, r, E), New \cap Nodes(g) = {},
         \A x \in Nodes(g) : a.nodes[x] = g.nodes[x], NEW names,
         \A x \in New : /\ a.nodes[x].kind # "group"
                        /\ a.nodes[x].kind = "operator" => a.nodes[x].name \in names,
         NEW h, Shape(h), h.nodes = a.nodes, Closed(g) => Unfolds(g, h, n, New, r),
         NEW All, New \subseteq All, All \cap Nodes(g) = {}
  PROVE  Outcome(g, h, All, names)
  <1>1. Nodes(h) = Nodes(g) \cup New /\ Nodes(h) # {} /\ Nodes(h) \subseteq Nodes(g) \cup New
    BY DEF Beside, Nodes
  <1>2. \A x \in Nodes(h) \ New : h.nodes[x] = g.nodes[x]
    BY <1>1
  <1>3. \A x \in Nodes(h) \cap New :
           ~Is(h, x, "group") /\ (Is(h, x, "operator") => h.nodes[x].name \in names)
    BY DEF Is
  <1>4. Outcome(g, h, New, names)
    BY <1>1, <1>2, <1>3, OutcomeIs
  <1>5. QED
    BY <1>4 DEF Outcome

\* A guard behind the matched node, and its token.
LEMMA OutputGuarded ==
  ASSUME NEW g, NEW n, Matched(g, n), NEW h \in Apply("output-guardrail", g, n)
  PROVE  Outcome(g, h, Made(n[1]), {"ToxicityGuard"})
  <1> DEFINE o == Fresh(n, "guard")
             p == Fresh(o, "token")
             In == {Edge(n, o, "0", 0)}
             a == AddOperator(g, n, o, "ToxicityGuard", "token", "env", In)
             E == In \cup {Edge(p, o, "token", 0)}
             New == {o, p}
             r == [x \in New \cup {n} |-> IF x = p THEN 0 ELSE IF x = n THEN 1 ELSE 2]
  <1>1. h = RerouteOutgoing(a, n, o)
    BY DEF Apply
  <1>2. /\ New \subseteq Made(n[1]) /\ Made(n[1]) \cap Nodes(g) = {} /\ o # p /\ o # n /\ p # n
        /\ n \in Nodes(g) /\ Shape(g)
    <2>1. o = <<"guard", n[1]>> /\ p = <<"token", "guard", n[1]>>
      BY MadeIs DEF Matched
    <2>2. QED
      BY <2>1 DEF Matched, Made
  <1>3. /\ Shape(a) /\ Nodes(a) = Nodes(g) \cup New /\ a.edges = g.edges \cup E
        /\ a.nodes[o] = Operator("ToxicityGuard")
        /\ a.nodes[p] = Parameter("token", "env", "HF_TOKEN")
        /\ \A x \in Nodes(g) : a.nodes[x] = g.nodes[x]
    <2>1. \A e \in In : IsEdge(e)
      BY EdgeIs
    <2> HIDE DEF o, In
    <2>2. QED
      BY <1>2, <2>1, OperatorAdded
  <1> HIDE DEF o, p, a
  <1>4. Inner(E, n, New, r) /\ r \in [New \cup {n} -> Nat] /\ \A e \in E : e.src = n => e.dst = o
    BY <1>2, EdgeIs DEF Inner
  <1> HIDE DEF E, r
  <1>5. Beside(g, a, n, New, r, E)
    BY <1>3, <1>4 DEF Beside
  <1>6. Shape(h) /\ h.nodes = a.nodes /\ (Closed(g) => Unfolds(g, h, n, New, r))
    <2>1. o \in New
      OBVIOUS
    <2> HIDE DEF New
    <2>2. QED
      BY <1>1, <1>2, <1>4, <1>5, <2>1, OutgoingRerouted
  <1>7. \A x \in New : /\ a.nodes[x].kind # "group"
                       /\ a.nodes[x].kind = "operator" => a.nodes[x].name \in {"ToxicityGuard"}
    BY <1>3, NodeIs
  <1> HIDE DEF New
  <1>8. QED
    BY <1>2, <1>3, <1>4, <1>5, <1>6, <1>7, BesideOutcome

\* A guard before the input messages of the matched node, and its token.
LEMMA InputGuarded ==
  ASSUME NEW g, NEW n, Matched(g, n), NEW h \in Apply("input-guardrail", g, n)
  PROVE  Outcome(g, h, Made(n[1]), {"ToxicityGuard"})
  <1> DEFINE o == Fresh(n, "guard")
             p == Fresh(o, "token")
             In == {Edge(o, n, "0", 0)}
             a == AddOperator(g, n, o, "ToxicityGuard", "token", "env", In)
             E == In \cup {Edge(p, o, "token", 0)}
             New == {o, p}
             r == [x \in New \cup {n} |-> IF x = p THEN 0 ELSE IF x = n THEN 2 ELSE 1]
  <1>1. h = RerouteIncoming(a, n, o, "messages")
    BY DEF Apply
  <1>2. /\ New \subseteq Made(n[1]) /\ Made(n[1]) \cap Nodes(g) = {} /\ o # p /\ o # n /\ p # n
        /\ n \in Nodes(g) /\ Shape(g)
    <2>1. o = <<"guard", n[1]>> /\ p = <<"token", "guard", n[1]>>
      BY MadeIs DEF Matched
    <2>2. QED
      BY <2>1 DEF Matched, Made
  <1>3. /\ Shape(a) /\ Nodes(a) = Nodes(g) \cup New /\ a.edges = g.edges \cup E
        /\ a.nodes[o] = Operator("ToxicityGuard")
        /\ a.nodes[p] = Parameter("token", "env", "HF_TOKEN")
        /\ \A x \in Nodes(g) : a.nodes[x] = g.nodes[x]
    <2>1. \A e \in In : IsEdge(e)
      BY EdgeIs
    <2> HIDE DEF o, In
    <2>2. QED
      BY <1>2, <2>1, OperatorAdded
  <1> HIDE DEF o, p, a
  <1>4. Inner(E, n, New, r) /\ r \in [New \cup {n} -> Nat] /\ \A e \in E : e.dst = n => e.src = o
    BY <1>2, EdgeIs DEF Inner
  <1> HIDE DEF E, r
  <1>5. Beside(g, a, n, New, r, E)
    BY <1>3, <1>4 DEF Beside
  <1>6. Shape(h) /\ h.nodes = a.nodes /\ (Closed(g) => Unfolds(g, h, n, New, r))
    <2>1. o \in New
      OBVIOUS
    <2> DEFINE anchor == "messages"
    <2>2. h = RerouteIncoming(a, n, o, anchor)
      BY <1>1
    <2> DEFINE k == RerouteIncoming(a, n, o, anchor)
    <2> HIDE DEF New, anchor
    <2>3. Shape(k) /\ k.nodes = a.nodes /\ (Closed(g) => Unfolds(g, k, n, New, r))
      BY <1>2, <1>4, <1>5, <2>1, IncomingRerouted
    <2>4. QED
      BY <2>2, <2>3
  <1>7. \A x \in New : /\ a.nodes[x].kind # "group"
                       /\ a.nodes[x].kind = "operator" => a.nodes[x].name \in {"ToxicityGuard"}
    BY <1>3, NodeIs
  <1> HIDE DEF New
  <1>8. QED
    BY <1>2, <1>3, <1>4, <1>5, <1>6, <1>7, BesideOutcome

\* A resampler before the feature inputs of the matched node.
LEMMA Resampled ==
  ASSUME NEW g, NEW n, Matched(g, n), NEW h \in Apply("resampling", g, n)
  PROVE  Outcome(g, h, Made(n[1]), {"SMOTE"})
  <1> DEFINE o == Fresh(n, "guard")
             E == {Edge(o, n, "0", 0)}
             a == Plus(g, At(o, Operator("SMOTE")), E)
             New == {o}
             r == [x \in New \cup {n} |-> IF x = n THEN 1 ELSE 0]
  <1>1. h = RerouteIncoming(a, n, o, "any")
    BY DEF Apply
  <1>2. /\ New \subseteq Made(n[1]) /\ Made(n[1]) \cap Nodes(g) = {} /\ o # n
        /\ n \in Nodes(g) /\ Shape(g)
    <2>1. o = <<"guard", n[1]>>
      BY MadeIs DEF Matched
    <2>2. QED
      BY <2>1 DEF Matched, Made
  <1>3. /\ Shape(a) /\ Nodes(a) = Nodes(g) \cup New /\ a.edges = g.edges \cup E
        /\ a.nodes[o] = Operator("SMOTE") /\ \A x \in Nodes(g) : a.nodes[x] = g.nodes[x]
    <2>1. \A e \in E : IsEdge(e)
      BY EdgeIs
    <2> HIDE DEF o, E
    <2>2. QED
      BY <1>2, <2>1, PlusOne, NodeIs
  <1> HIDE DEF o, a
  <1>4. Inner(E, n, New, r) /\ r \in [New \cup {n} -> Nat] /\ \A e \in E : e.dst = n => e.src = o
    BY <1>2, EdgeIs DEF Inner
  <1> HIDE DEF E, r
  <1>5. Beside(g, a, n, New, r, E)
    BY <1>3, <1>4 DEF Beside
  <1>6. Shape(h) /\ h.nodes = a.nodes /\ (Closed(g) => Unfolds(g, h, n, New, r))
    <2>1. o \in New
      OBVIOUS
    <2> DEFINE anchor == "any"
    <2>2. h = RerouteIncoming(a, n, o, anchor)
      BY <1>1
    <2> DEFINE k == RerouteIncoming(a, n, o, anchor)
    <2> HIDE DEF New, anchor
    <2>3. Shape(k) /\ k.nodes = a.nodes /\ (Closed(g) => Unfolds(g, k, n, New, r))
      BY <1>2, <1>4, <1>5, <2>1, IncomingRerouted
    <2>4. QED
      BY <2>2, <2>3
  <1>7. \A x \in New : /\ a.nodes[x].kind # "group"
                       /\ a.nodes[x].kind = "operator" => a.nodes[x].name \in {"SMOTE"}
    BY <1>3, NodeIs
  <1> DEFINE names == {"SMOTE"}
             All == Made(n[1])
  <1> HIDE DEF New, names, All
  <1>8. Outcome(g, h, All, names)
    <2>1. New \subseteq All /\ All \cap Nodes(g) = {} /\ New \cap Nodes(g) = {}
      BY <1>2 DEF All
    <2>2. \A x \in New : /\ a.nodes[x].kind # "group"
                         /\ a.nodes[x].kind = "operator" => a.nodes[x].name \in names
      BY <1>7 DEF names
    <2>3. QED
      BY <1>2, <1>3, <1>4, <1>5, <1>6, <2>1, <2>2, BesideOutcome
  <1>9. QED
    BY <1>8 DEF names, All

\* DuplicateDataKwarg adds an edge between nodes that are wired already.
LEMMA KwargDuplicated ==
  ASSUME NEW g, Shape(g), NEW n \in Nodes(g), NEW pos, NEW kwarg, NEW names,
         NEW h \in DuplicateDataKwarg(g, n, pos, kwarg)
  PROVE  Outcome(g, h, {}, names)
  <1>1. CASE h = g
    BY <1>1, NothingChanged
  <1>2. ASSUME NEW e \in DataInto(g, n),
               h = WithEdges(g, g.edges \cup {[e EXCEPT !.pos = kwarg]})
        PROVE  Outcome(g, h, {}, names)
    <2> DEFINE d == [e EXCEPT !.pos = kwarg]
               r == [x \in {} \cup {n} |-> 0]
    <2>1. e \in g.edges /\ IsEdge(e)
      BY DEF DataInto, Into, Shape
    <2>2. d = Edge(e.src, e.dst, kwarg, e.out)
      BY <2>1, EdgeIs
    <2>3. IsEdge(d) /\ d.src = e.src /\ d.dst = e.dst
      BY <2>2, EdgeIs
    <2> HIDE DEF d
    <2>4. Shape(h) /\ h.nodes = g.nodes /\ Nodes(h) = Nodes(g) /\ h.edges = g.edges \cup {d}
      <3> DEFINE E == g.edges \cup {d}
      <3>1. \A x \in E : IsEdge(x)
        BY <2>3 DEF Shape
      <3>2. h = WithEdges(g, E)
        BY <1>2 DEF d
      <3> HIDE DEF E
      <3>3. Shape(h) /\ h.nodes = g.nodes /\ Nodes(h) = Nodes(g) /\ h.edges = E
        BY <3>1, <3>2, WithEdgesIs
      <3>4. QED
        BY <3>3 DEF E
    <2>5. Closed(g) => Unfolds(g, h, n, {}, r)
      BY <2>1, <2>3, <2>4 DEF Unfolds, Wire, Closed
    <2>6. r \in [{} \cup {n} -> Nat]
      OBVIOUS
    <2> HIDE DEF r
    <2>7. QED
      BY <2>4, <2>5, <2>6, OutcomeIs
  <1>3. QED
    BY <1>1, <1>2 DEF DuplicateDataKwarg

\* A new node o on the edge e, or on the edges from its source: they leave g, E comes in.
LEMMA Spliced ==
  ASSUME NEW g, Shape(g), NEW n \in Nodes(g), NEW o, o \notin Nodes(g), NEW node, NEW gone, NEW E,
         "kind" \in DOMAIN node, node.kind = "snippet", \A e \in E : IsEdge(e), NEW names,
         NEW h, h = Plus(WithEdges(g, g.edges \ gone), At(o, node), E),
         NEW r \in [{o} \cup {n} -> Nat],
         Closed(g) => \A e \in E :
           \/ e.src = o /\ e.dst \in Nodes(g) /\ Wire(g, n, e.dst)
           \/ e.dst = o /\ e.src \in Nodes(g) /\ Wire(g, e.src, n)
           \/ e.src \in {o, n} /\ e.dst \in {o, n} /\ r[e.src] < r[e.dst]
  PROVE  Outcome(g, h, {o}, names)
  <1> DEFINE m == WithEdges(g, g.edges \ gone)
  <1>1. Shape(m) /\ m.nodes = g.nodes /\ Nodes(m) = Nodes(g) /\ m.edges = g.edges \ gone
    BY WithEdgesIs DEF Shape
  <1> HIDE DEF m
  <1>2. /\ Shape(h) /\ Nodes(h) = Nodes(g) \cup {o} /\ h.edges = (g.edges \ gone) \cup E
        /\ h.nodes[o] = node /\ \A x \in Nodes(g) \ {o} : h.nodes[x] = g.nodes[x]
    <2>1. h = Plus(m, At(o, node), E)
      BY DEF m
    <2> DEFINE k == Plus(m, At(o, node), E)
    <2>2. /\ Shape(k) /\ Nodes(k) = Nodes(m) \cup {o} /\ k.edges = m.edges \cup E
          /\ k.nodes[o] = node /\ \A x \in Nodes(m) \ {o} : k.nodes[x] = m.nodes[x]
      BY <1>1, PlusOne
    <2> HIDE DEF k
    <2>3. h = k
      BY <2>1 DEF k
    <2>4. QED
      BY <1>1, <2>2, <2>3
  <1>3. ASSUME Closed(g) PROVE Unfolds(g, h, n, {o}, r)
    <2>1. ASSUME NEW e \in g.edges
          PROVE  e.src \in Nodes(h) /\ e.dst \in Nodes(h) /\ Wire(g, e.src, e.dst)
      BY <1>2, <1>3 DEF Closed, Wire
    <2>2. ASSUME NEW e \in E
          PROVE  /\ e.src \in Nodes(h) /\ e.dst \in Nodes(h)
                 /\ \/ e.dst \in {o} /\ Wire(g, e.src, n)
                    \/ e.src \in {o} /\ Wire(g, n, e.dst)
                    \/ e.src \in {o} \cup {n} /\ e.dst \in {o} \cup {n} /\ r[e.src] < r[e.dst]
      BY <1>2, <1>3
    <2>3. QED
      BY <1>2, <2>1, <2>2 DEF Unfolds
  <1>4. \A x \in Nodes(h) \cap {o} :
           ~Is(h, x, "group") /\ (Is(h, x, "operator") => h.nodes[x].name \in names)
    BY <1>2 DEF Is
  <1>5. \A x \in Nodes(h) \ {o} : h.nodes[x] = g.nodes[x]
    BY <1>2
  <1>6. Nodes(h) # {} /\ {o} \cap Nodes(g) = {}
    BY <1>2
  <1>7. QED
    BY <1>2, <1>3, <1>4, <1>5, <1>6, OutcomeIs

\* InsertDenseConverter keeps a graph sound.
LEMMA DenseInserted ==
  ASSUME NEW g, Shape(g), NEW n \in Nodes(g), NEW names, n \o <<"dense">> \notin Nodes(g),
         NEW h \in InsertDenseConverter(g, n)
  PROVE  Outcome(g, h, {n \o <<"dense">>}, names)
  <1> DEFINE o == n \o <<"dense">>
             r == [x \in {o} \cup {n} |-> IF x = o THEN 0 ELSE 1]
  <1>1. CASE h = g
    BY <1>1, NothingChanged
  <1>2. ASSUME NEW e \in DataInto(g, n),
               h = Plus(WithEdges(g, g.edges \ {e}), At(o, Snippet("to_dense")),
                        {Edge(e.src, o, "0", e.out), Edge(o, n, e.pos, 0)})
        PROVE  Outcome(g, h, {o}, names)
    <2> DEFINE node == Snippet("to_dense")
               E == {Edge(e.src, o, "0", e.out), Edge(o, n, e.pos, 0)}
               gone == {e}
    <2> HIDE DEF o
    <2>1. e \in g.edges /\ e.dst = n /\ o \notin Nodes(g) /\ o # n
      BY DEF DataInto, Into, o
    <2>2. \A d \in E : IsEdge(d)
      BY EdgeIs
    <2>3. Closed(g) => \A d \in E :
            \/ d.src = o /\ d.dst \in Nodes(g) /\ Wire(g, n, d.dst)
            \/ d.dst = o /\ d.src \in Nodes(g) /\ Wire(g, d.src, n)
            \/ d.src \in {o, n} /\ d.dst \in {o, n} /\ r[d.src] < r[d.dst]
      BY <2>1, EdgeIs DEF Wire, Closed
    <2>4. r \in [{o} \cup {n} -> Nat]
      OBVIOUS
    <2>5. "kind" \in DOMAIN node /\ node.kind = "snippet"
      BY NodeIs
    <2>6. h = Plus(WithEdges(g, g.edges \ gone), At(o, node), E)
      BY <1>2
    <2> HIDE DEF r, E, node, gone
    <2>7. QED
      BY <2>1, <2>2, <2>3, <2>4, <2>5, <2>6, Spliced
  <1>3. QED
    BY <1>1, <1>2 DEF InsertDenseConverter

\* InsertLabelEncoder keeps a graph sound: every reader of the source follows the encoder.
LEMMA LabelEncoderInserted ==
  ASSUME NEW g, Shape(g), NEW n \in Nodes(g), NEW names, n \o <<"label_encoder">> \notin Nodes(g),
         NEW h \in InsertLabelEncoder(g, n)
  PROVE  Outcome(g, h, {n \o <<"label_encoder">>}, names)
  <1> DEFINE o == n \o <<"label_encoder">>
             Out(s, first) == {Edge(s, o, "0", first.out)}
                                \cup {Edge(o, e.dst, e.pos, 0) : e \in From(g, s)}
  <1>1. CASE h = g
    BY <1>1, NothingChanged
  <1>2. ASSUME NEW y \in DataInto(g, n), NEW first \in From(g, y.src),
               h = Plus(WithEdges(g, g.edges \ From(g, y.src)), At(o, Snippet("label_encoder")),
                        Out(y.src, first))
        PROVE  Outcome(g, h, {o}, names)
    <2> DEFINE s == y.src
               node == Snippet("label_encoder")
               E == Out(s, first)
               gone == From(g, s)
               r == [x \in {o} \cup {s} |-> IF x = o THEN 1 ELSE 0]
    <2> HIDE DEF o
    <2>1. y \in g.edges /\ o \notin Nodes(g)
      BY DEF DataInto, Into, o
    <2>2. \A d \in E : IsEdge(d)
      BY EdgeIs
    <2>3. ASSUME s \in Nodes(g) PROVE Outcome(g, h, {o}, names)
      <3>1. Closed(g) => \A d \in E :
              \/ d.src = o /\ d.dst \in Nodes(g) /\ Wire(g, s, d.dst)
              \/ d.dst = o /\ d.src \in Nodes(g) /\ Wire(g, d.src, s)
              \/ d.src \in {o, s} /\ d.dst \in {o, s} /\ r[d.src] < r[d.dst]
        <4> SUFFICES ASSUME Closed(g), NEW d \in E
                     PROVE  \/ d.src = o /\ d.dst \in Nodes(g) /\ Wire(g, s, d.dst)
                            \/ d.src \in {o, s} /\ d.dst \in {o, s} /\ r[d.src] < r[d.dst]
          OBVIOUS
        <4>1. CASE d = Edge(s, o, "0", first.out)
          <5>1. d.src = s /\ d.dst = o /\ s # o
            BY <2>1, <2>3, <4>1, EdgeIs
          <5>2. QED
            BY <5>1
        <4>2. ASSUME NEW e \in From(g, s), d = Edge(o, e.dst, e.pos, 0)
              PROVE  d.src = o /\ d.dst \in Nodes(g) /\ Wire(g, s, d.dst)
          BY <4>2, EdgeIs DEF From, Closed, Wire
        <4>3. QED
          BY <4>1, <4>2
      <3>2. r \in [{o} \cup {s} -> Nat]
        OBVIOUS
      <3>3. "kind" \in DOMAIN node /\ node.kind = "snippet"
        BY NodeIs
      <3>4. h = Plus(WithEdges(g, g.edges \ gone), At(o, node), E)
        BY <1>2
      <3> HIDE DEF r, E, node, gone, s
      <3>5. QED
        BY <2>1, <2>2, <2>3, <3>1, <3>2, <3>3, <3>4, Spliced
    <2>4. ASSUME s \notin Nodes(g) PROVE Outcome(g, h, {o}, names)
      <3> DEFINE q == [x \in {o} \cup {n} |-> 0]
      <3>1. ~Closed(g)
        BY <2>1, <2>4 DEF Closed
      <3>2. q \in [{o} \cup {n} -> Nat]
        OBVIOUS
      <3>3. "kind" \in DOMAIN node /\ node.kind = "snippet"
        BY NodeIs
      <3>4. h = Plus(WithEdges(g, g.edges \ gone), At(o, node), E)
        BY <1>2
      <3> HIDE DEF q, E, node, gone, s
      <3>5. QED
        BY <2>1, <2>2, <3>1, <3>2, <3>3, <3>4, Spliced
    <2>5. QED
      BY <2>3, <2>4
  <1>3. QED
    BY <1>1, <1>2 DEF InsertLabelEncoder

\* insert_x_preprocessor on the X edge: what leads to n at numbered positions from one
\* source passes through o.
LEMMA OnXSpliced ==
  ASSUME NEW g, Shape(g), NEW n \in Nodes(g), NEW New, NEW r, NEW E, NEW a,
         Beside(g, a, n, New, r, E), NEW o \in New, r[o] < r[n],
         \A e \in E : e.dst = n => e.src = o,
         NEW h \in SpliceOnX(a, n, o)
  PROVE  /\ Shape(h) /\ h.nodes = a.nodes
         /\ Closed(g) => Unfolds(g, h, n, New, r)
  <1>1. /\ Shape(a) /\ a.edges = g.edges \cup E /\ Nodes(a) = Nodes(g) \cup New
        /\ Inner(E, n, New, r)
    BY DEF Beside
  <1>2. ASSUME Closed(g), NEW e \in a.edges
        PROVE  /\ e.src \in Nodes(a) /\ e.dst \in Nodes(a)
               /\ \/ Wire(g, e.src, e.dst)
                  \/ /\ e.src \in New \cup {n} /\ e.dst \in New \cup {n} /\ r[e.src] < r[e.dst]
    BY <1>1, <1>2 DEF Closed, Wire, Inner
  <1>3. CASE h = a
    BY <1>1, <1>2, <1>3 DEF Unfolds
  <1> DEFINE numbered == {e \in DataInto(a, n) : e.src # o /\ Numeric(e.pos)}
             moved(x) == {e \in numbered : e.src = x.src}
             gone(x) == moved(x) \cup {e \in From(a, o) : e.dst = n}
             to(x) == {Edge(o, n, e.pos, 0) : e \in moved(x)}
  <1>4. ASSUME NEW x \in numbered,
               h = WithEdges(a, (a.edges \ gone(x)) \cup to(x) \cup {Edge(x.src, o, "0", x.out)})
        PROVE  /\ Shape(h) /\ h.nodes = a.nodes
               /\ Closed(g) => Unfolds(g, h, n, New, r)
    <2> DEFINE F == (a.edges \ gone(x)) \cup to(x) \cup {Edge(x.src, o, "0", x.out)}
    <2>1. x \in g.edges /\ x.dst = n
      BY <1>1 DEF DataInto, Into
    <2>2. \A e \in F : \/ e \in a.edges
                       \/ IsEdge(e) /\ e.src = o /\ e.dst = n
                       \/ IsEdge(e) /\ e.src = x.src /\ e.dst = o
      <3> HIDE DEF numbered
      <3>1. QED
        BY EdgeIs
    <2>3. \A e \in F : IsEdge(e)
      <3> HIDE DEF F
      <3>1. QED
        BY <1>1, <2>2 DEF Shape
    <2> HIDE DEF F
    <2>4. Shape(h) /\ h.nodes = a.nodes /\ Nodes(h) = Nodes(a) /\ h.edges = F
      <3>1. h = WithEdges(a, F)
        BY <1>4 DEF F
      <3>2. QED
        BY <1>1, <2>3, <3>1, WithEdgesIs
    <2>5. ASSUME Closed(g), NEW e \in F
          PROVE  /\ e.src \in Nodes(h) /\ e.dst \in Nodes(h)
                 /\ \/ Wire(g, e.src, e.dst)
                    \/ e.dst \in New /\ Wire(g, e.src, n)
                    \/ /\ e.src \in New \cup {n} /\ e.dst \in New \cup {n} /\ r[e.src] < r[e.dst]
      <3>1. CASE e \in a.edges
        BY <1>2, <2>4, <2>5, <3>1
      <3>2. CASE e.src = o /\ e.dst = n
        BY <1>1, <2>4, <3>2
      <3>3. CASE e.src = x.src /\ e.dst = o
        BY <1>1, <2>1, <2>4, <2>5, <3>3 DEF Closed, Wire
      <3>4. QED
        BY <2>2, <3>1, <3>2, <3>3
    <2>6. QED
      BY <2>4, <2>5 DEF Unfolds
  <1>5. QED
    <2> HIDE DEF moved, gone
    <2>1. h = a \/ \E x \in numbered :
            h = WithEdges(a, (a.edges \ gone(x)) \cup to(x) \cup {Edge(x.src, o, "0", x.out)})
      BY DEF SpliceOnX, moved, gone
    <2> HIDE DEF numbered, to
    <2>2. QED
      BY <1>3, <1>4, <2>1

\* insert_x_preprocessor behind the splitter s: some of what leaves s leaves o, which reads s
\* and nothing else that anything precedes. No loop, as o does not lead to s.
Behind(a, o, p, s, moved, In, h) ==
  /\ o \in Nodes(a) /\ p \in Nodes(a) /\ o # p
  /\ \A e \in a.edges : e.dst # p /\ (e.dst = o => e.src = p)
  /\ s \in Nodes(a) /\ s \notin After(a, {o})
  /\ \A e \in moved : e \in a.edges /\ e.src = s /\ e.dst # o
  /\ \A e \in In : e.src = s /\ e.dst = o
  /\ Nodes(h) = Nodes(a)
  /\ \A e \in h.edges : \/ e \in a.edges \/ e \in In
                        \/ e.src = o /\ \E d \in moved : e.dst = d.dst

\* A node that does not lead to the splitter may take over outputs of it: no loop arises.
LEMMA Wrapped ==
  ASSUME NEW a, Shape(a), Closed(a), NoLoop(a), NEW o, NEW p, NEW s, NEW moved, NEW In, NEW h,
         Behind(a, o, p, s, moved, In, h)
  PROVE  Closed(h) /\ NoLoop(h)
  <1> DEFINE A == After(a, {o})
  <1> USE DEF Behind
  <1>1. o \in A /\ A \subseteq Nodes(a) /\ \A e \in a.edges : e.src \in A => e.dst \in A
    BY AfterIsClosed DEF Shape
  <1> HIDE DEF A
  <1>2. s \notin A /\ s # o
    BY <1>1 DEF A
  <1>3. Closed(h)
    BY DEF Closed
  <1>4. ASSUME NEW S \in SUBSET Nodes(h), S # {} PROVE \E t \in S : First(h, S, t)
    <2>1. CASE s \in S
      <3> DEFINE T == S \ A
      <3>1. T \in SUBSET Nodes(a) /\ T # {}
        BY <1>2, <2>1
      <3>2. PICK t \in T : First(a, T, t)
        BY <3>1 DEF NoLoop
      <3>3. ASSUME NEW e \in h.edges, e.src \in S, e.dst = t PROVE FALSE
        <4>1. CASE e \in a.edges
          BY <1>1, <3>2, <3>3, <4>1 DEF First
        <4>2. CASE e \in In
          BY <1>1, <3>2, <3>3, <4>2
        <4>3. ASSUME NEW d \in moved, e.dst = d.dst PROVE FALSE
          BY <1>2, <2>1, <3>2, <3>3, <4>3 DEF First
        <4>4. QED
          BY <4>1, <4>2, <4>3
      <3>4. QED
        BY <3>2, <3>3 DEF First
    <2>2. CASE s \notin S /\ p \in S
      <3>1. First(h, S, p)
        BY DEF First
      <3>2. QED
        BY <2>2, <3>1
    <2>3. CASE s \notin S /\ p \notin S /\ o \in S
      <3>1. First(h, S, o)
        BY <2>3 DEF First
      <3>2. QED
        BY <2>3, <3>1
    <2>4. CASE s \notin S /\ o \notin S
      <3>1. PICK t \in S : First(a, S, t)
        BY <1>4 DEF NoLoop
      <3>2. First(h, S, t)
        BY <2>4, <3>1 DEF First
      <3>3. QED
        BY <3>2
    <2>5. QED
      BY <2>1, <2>2, <2>3, <2>4
  <1>5. QED
    BY <1>3, <1>4 DEF NoLoop

\* A parameter that is wired to some nodes.
LEMMA SourceAdded ==
  ASSUME NEW g, Shape(g), NEW p, p \notin Nodes(g), NEW node, "kind" \in DOMAIN node,
         node.kind = "parameter", NEW F, \A e \in F : IsEdge(e) /\ e.src = p /\ e.dst \in Nodes(g),
         NEW names
  PROVE  Outcome(g, Plus(g, At(p, node), F), {p}, names)
  <1> DEFINE h == Plus(g, At(p, node), F)
  <1>1. /\ Shape(h) /\ Nodes(h) = Nodes(g) \cup {p} /\ h.edges = g.edges \cup F
        /\ h.nodes[p] = node /\ \A x \in Nodes(g) \ {p} : h.nodes[x] = g.nodes[x]
    BY PlusOne
  <1> HIDE DEF h
  <1>2. ASSUME Closed(g), NoLoop(g) PROVE Closed(h) /\ NoLoop(h)
    <2>1. Closed(h)
      BY <1>1, <1>2 DEF Closed
    <2>2. ASSUME NEW S \in SUBSET Nodes(h), S # {} PROVE \E t \in S : First(h, S, t)
      <3>1. CASE p \in S
        <4>1. First(h, S, p)
          BY <1>1, <1>2 DEF First, Closed
        <4>2. QED
          BY <3>1, <4>1
      <3>2. CASE p \notin S
        <4>1. PICK t \in S : First(g, S, t)
          BY <1>1, <1>2, <2>2, <3>2 DEF NoLoop
        <4>2. First(h, S, t)
          BY <1>1, <3>2, <4>1 DEF First
        <4>3. QED
          BY <4>2
      <3>3. QED
        BY <3>1, <3>2
    <2>3. QED
      BY <2>1, <2>2 DEF NoLoop
  <1>3. Sound(g) => Sound(h)
    BY <1>1, <1>2, SoundMeans DEF Shape
  <1>4. QED
    BY <1>1, <1>3 DEF Outcome, Is, h

\* insert_x_preprocessor: an encoder that reads X before the matched node or behind the
\* splitter, and its option.
LEMMA XPreprocessorInserted ==
  ASSUME NEW g, NEW n, Matched(g, n), NEW h \in Apply("insert-ordinal-encoder-before", g, n)
  PROVE  Outcome(g, h, Made(n[1]), {"OrdinalEncoder"})
  <1> DEFINE o == Fresh(n, "preprocessor")
             p == Fresh(o, "handle_unknown")
             B == {Edge(o, n, "0", 0)}
             a == AddOperator(g, n, o, "OrdinalEncoder", "handle_unknown", "str", B)
             E == B \cup {Edge(p, o, "handle_unknown", 0)}
             New == {o, p}
             r == [x \in New \cup {n} |-> IF x = p THEN 0 ELSE IF x = n THEN 2 ELSE 1]
  <1>1. h \in InsertXPreprocessor(a, n, o)
    BY DEF Apply
  <1>2. /\ New \subseteq Made(n[1]) /\ Made(n[1]) \cap Nodes(g) = {} /\ o # p /\ o # n /\ p # n
        /\ n \in Nodes(g) /\ Shape(g)
    <2>1. o = <<"preprocessor", n[1]>> /\ p = <<"handle_unknown", "preprocessor", n[1]>>
      BY MadeIs DEF Matched
    <2>2. QED
      BY <2>1 DEF Matched, Made
  <1>3. /\ Shape(a) /\ Nodes(a) = Nodes(g) \cup New /\ a.edges = g.edges \cup E
        /\ a.nodes[o] = Operator("OrdinalEncoder")
        /\ a.nodes[p] = Parameter("handle_unknown", "str", "HF_TOKEN")
        /\ \A x \in Nodes(g) : a.nodes[x] = g.nodes[x]
    <2>1. \A e \in B : IsEdge(e)
      BY EdgeIs
    <2> HIDE DEF o, B
    <2>2. QED
      BY <1>2, <2>1, OperatorAdded
  <1> HIDE DEF o, p, a
  <1>4. /\ Inner(E, n, New, r) /\ r \in [New \cup {n} -> Nat] /\ r[o] < r[n]
        /\ \A e \in E : e.dst = n => e.src = o
    BY <1>2, EdgeIs DEF Inner
  <1>5. \A e \in E : (e.src = o /\ e.dst = n) \/ (e.src = p /\ e.dst = o)
    BY EdgeIs
  <1> HIDE DEF E, r
  <1>6. Beside(g, a, n, New, r, E)
    BY <1>3, <1>4 DEF Beside
  <1>7. \A x \in New : /\ a.nodes[x].kind # "group"
                       /\ a.nodes[x].kind = "operator" => a.nodes[x].name \in {"OrdinalEncoder"}
    BY <1>3, NodeIs
  <1>8. o \in New
    OBVIOUS
  <1>9. ASSUME h \in SpliceOnX(a, n, o) PROVE Outcome(g, h, Made(n[1]), {"OrdinalEncoder"})
    <2> HIDE DEF New
    <2>1. Shape(h) /\ h.nodes = a.nodes /\ (Closed(g) => Unfolds(g, h, n, New, r))
      BY <1>2, <1>4, <1>6, <1>8, <1>9, OnXSpliced
    <2>2. QED
      BY <1>2, <1>3, <1>4, <1>6, <1>7, <2>1, BesideOutcome
  <1> DEFINE moved(s) == {e \in From(a, s) : e.dst # o /\ e.out \in {0, 1}}
             In(s) == {Edge(s, o, "X_train", 0), Edge(s, o, "y_train", 2), Edge(s, o, "X_test", 1)}
             to(s) == {[e EXCEPT !.src = o] : e \in moved(s)}
             F(s) == (a.edges \ moved(s)) \cup to(s) \cup In(s)
  <1>10. ASSUME NEW s \in Splitters(a), s \notin After(a, {o}), h = WithEdges(a, F(s))
         PROVE  Outcome(g, h, Made(n[1]), {"OrdinalEncoder"})
    <2>1. \A e \in moved(s) : e \in a.edges /\ e.src = s /\ e.dst # o /\ IsEdge(e)
      BY <1>3 DEF From, Shape
    <2>2. \A e \in In(s) : e.src = s /\ e.dst = o /\ IsEdge(e)
      BY EdgeIs
    <2>3. \A e \in to(s) : IsEdge(e) /\ e.src = o /\ \E d \in moved(s) : e.dst = d.dst
      <3> SUFFICES ASSUME NEW d \in moved(s)
                   PROVE  LET e == [d EXCEPT !.src = o]
                          IN  IsEdge(e) /\ e.src = o /\ e.dst = d.dst
        OBVIOUS
      <3>1. [d EXCEPT !.src = o] = Edge(o, d.dst, d.pos, d.out)
        BY <2>1, EdgeIs
      <3>2. QED
        BY <3>1, EdgeIs
    <2> HIDE DEF moved, In, to
    <2>4. \A e \in F(s) : IsEdge(e)
      BY <1>3, <2>2, <2>3 DEF Shape
    <2>5. \A e \in F(s) : \/ e \in a.edges \/ e \in In(s)
                          \/ e.src = o /\ \E d \in moved(s) : e.dst = d.dst
      BY <2>3
    <2> HIDE DEF F
    <2>6. Shape(h) /\ h.nodes = a.nodes /\ Nodes(h) = Nodes(a) /\ h.edges = F(s)
      BY <1>3, <1>10, <2>4, WithEdgesIs
    <2>7. ASSUME Sound(g) PROVE Sound(h)
      <3>1. Closed(g) /\ NoLoop(g)
        BY <1>2, <2>7, SoundMeans DEF Shape
      <3>2. Unfolds(g, a, n, New, r)
        BY <1>2, <1>6, <3>1, BesideUnfolds
      <3>3. Closed(a) /\ NoLoop(a)
        <4> HIDE DEF New
        <4>1. New \cap Nodes(g) = {} /\ Nodes(a) \subseteq Nodes(g) \cup New
          BY <1>2, <1>3
        <4>2. QED
          BY <1>2, <1>4, <3>1, <3>2, <4>1, Unfolding
      <3>4. \A e \in a.edges : e.dst # p /\ (e.dst = o => e.src = p)
        BY <1>2, <1>3, <1>5, <3>1 DEF Closed
      <3>5. s \in Nodes(a) /\ o \in Nodes(a) /\ p \in Nodes(a)
        BY <1>3 DEF Splitters
      <3> DEFINE M == moved(s)
                 I == In(s)
      <3>6. /\ \A e \in h.edges : \/ e \in a.edges \/ e \in I
                                  \/ e.src = o /\ \E d \in M : e.dst = d.dst
            /\ \A e \in M : e \in a.edges /\ e.src = s /\ e.dst # o
            /\ \A e \in I : e.src = s /\ e.dst = o
        BY <2>1, <2>2, <2>5, <2>6
      <3> HIDE DEF M, I, New
      <3>9. Shape(a) /\ o # p /\ Nodes(h) = Nodes(a)
        BY <1>2, <1>3, <2>6
      <3>7. Closed(h) /\ NoLoop(h)
        <4>1. Behind(a, o, p, s, M, I, h)
          BY <1>10, <3>4, <3>5, <3>6, <3>9 DEF Behind
        <4>2. QED
          BY <3>3, <3>9, <4>1, Wrapped
      <3>8. QED
        BY <2>6, <3>7, SoundMeans DEF Shape
    <2>8. QED
      BY <1>2, <1>3, <1>7, <2>6, <2>7 DEF Outcome, Is, Nodes
  <1>11. QED
    <2>1. h \in SpliceOnX(a, n, o)
            \/ \E s \in Splitters(a) : s \notin After(a, {o}) /\ h = WithEdges(a, F(s))
      BY <1>1 DEF InsertXPreprocessor
    <2> HIDE DEF F
    <2>2. QED
      BY <1>9, <1>10, <2>1

\* apply_parameter_change_to_dag
LEMMA ParameterChanged ==
  ASSUME NEW g, Shape(g), NEW name, NEW param, NEW value, NEW names,
         <<"fix", param>> \notin Nodes(g),
         NEW h \in ChangeParameter(g, name, param, value)
  PROVE  Outcome(g, h, {<<"fix", param>>}, names)
  <1> DEFINE targets == {n \in Nodes(g) : g.nodes[n].kind = "operator" /\ g.nodes[n].name = name}
             wired == {e.src : e \in {x \in UNION {ParamsInto(g, n) : n \in targets} : x.pos = param}}
             p == <<"fix", param>>
             node == Parameter(param, "str", value)
             F == {Edge(p, n, param, 0) : n \in targets}
  <1>1. \/ h = g \/ \E q \in wired : h = [g EXCEPT !.nodes[q].value = value]
        \/ h = Plus(g, At(p, node), F)
    BY DEF ChangeParameter
  <1>2. CASE h = g
    BY <1>2, NothingChanged
  <1>3. ASSUME NEW q \in wired, h = [g EXCEPT !.nodes[q].value = value]
        PROVE  Outcome(g, h, {<<"fix", param>>}, names)
    <2>1. Is(g, q, "parameter")
      BY DEF ParamsInto
    <2> HIDE DEF wired
    <2>2. Outcome(g, h, {}, names)
      BY <1>3, <2>1, ValueSet
    <2>3. QED
      BY <2>2 DEF Outcome
  <1>4. CASE h = Plus(g, At(p, node), F)
    <2>1. \A e \in F : IsEdge(e) /\ e.src = p /\ e.dst \in Nodes(g)
      BY EdgeIs
    <2>2. "kind" \in DOMAIN node /\ node.kind = "parameter"
      BY NodeIs
    <2> HIDE DEF F, node
    <2>3. QED
      BY <1>4, <2>1, <2>2, SourceAdded
  <1>5. QED
    BY <1>1, <1>2, <1>3, <1>4

\* resolve_vault_references
LEMMA VaultResolved ==
  ASSUME NEW g, Shape(g), NEW P, \A n \in P : Is(g, n, "parameter"), NEW names, NEW h,
         h = [g EXCEPT !.nodes =
                [n \in Nodes(g) |-> IF n \in P THEN [@[n] EXCEPT !.dtype = "string"] ELSE @[n]]]
  PROVE  Outcome(g, h, {}, names)
  <1>1. /\ DOMAIN h = {"nodes", "edges"} /\ h.edges = g.edges
        /\ h.nodes = [n \in Nodes(g) |-> IF n \in P THEN [g.nodes[n] EXCEPT !.dtype = "string"]
                                          ELSE g.nodes[n]]
    BY DEF Shape
  <1>2. Nodes(h) = Nodes(g) /\ \A n \in Nodes(g) \ P : h.nodes[n] = g.nodes[n]
    BY <1>1 DEF Nodes
  <1>3. ASSUME NEW n \in Nodes(g) \cap P
        PROVE  "kind" \in DOMAIN h.nodes[n] /\ h.nodes[n].kind = "parameter"
    <2>1. h.nodes[n] = [g.nodes[n] EXCEPT !.dtype = "string"]
      BY <1>1
    <2>2. "kind" \in DOMAIN g.nodes[n] /\ g.nodes[n].kind = "parameter"
      BY DEF Shape, Is
    <2>3. QED
      BY <2>1, <2>2
  <1>4. Shape(h)
    BY <1>1, <1>2, <1>3 DEF Shape
  <1>5. Sound(g) => Sound(h)
    BY <1>1, <1>2, <1>4, SameEdges
  <1>6. \A x \in Nodes(h) : Is(h, x, "group") => x \in Nodes(g) /\ h.nodes[x] = g.nodes[x]
    BY <1>2, <1>3 DEF Is
  <1>7. \A x \in Nodes(h) : Is(h, x, "operator") => x \in Nodes(g) /\ h.nodes[x] = g.nodes[x]
    BY <1>2, <1>3 DEF Is
  <1>8. QED
    BY <1>2, <1>4, <1>5, <1>6, <1>7 DEF Outcome

\* What the rewrites name the operators they insert.
Inserts(rewrite) ==
  CASE rewrite \in {"output-guardrail", "input-guardrail"} -> {"ToxicityGuard"}
    [] rewrite = "resampling" -> {"SMOTE"}
    [] rewrite = "insert-ordinal-encoder-before" -> {"OrdinalEncoder"}
    [] OTHER -> {}

\* An outcome with fewer new nodes and fewer names is one with more.
LEMMA OutcomeWider ==
  ASSUME NEW g, NEW h, NEW New, NEW names, Outcome(g, h, New, names),
         NEW All, New \subseteq All, NEW others, names \subseteq others
  PROVE  Outcome(g, h, All, others)
  BY DEF Outcome

\* compile_rewrite_rule: at any match, and whichever edge comes first, the rewrite of a
\* document adds at most the nodes it names and keeps a sound pipeline sound. (The exception
\* renames its match: NodeReplaced.)
THEOREM Applied ==
  ASSUME NEW rewrite \in Rewrites, rewrite # "robust-scaling", NEW g, NEW n, Matched(g, n),
         Is(g, n, "operator"), NEW h \in Apply(rewrite, g, n)
  PROVE  Outcome(g, h, Made(n[1]), Inserts(rewrite))
  <1> DEFINE All == Made(n[1])
  <1>1. /\ Shape(g) /\ n \in Nodes(g) /\ n = <<n[1]>> /\ All \cap Nodes(g) = {}
        /\ Fresh(n, "random_state") \in All
        /\ n \o <<"dense">> \in All /\ n \o <<"label_encoder">> \in All
    <2>1. n = <<n[1]>>
      BY DEF Matched
    <2>2. /\ Fresh(n, "random_state") = <<"random_state", n[1]>>
          /\ n \o <<"dense">> = <<n[1], "dense">>
          /\ n \o <<"label_encoder">> = <<n[1], "label_encoder">>
      BY <2>1, MadeIs
    <2>3. QED
      BY <2>1, <2>2 DEF Matched, Made
  <1> HIDE DEF All
  <1>2. CASE rewrite = "output-guardrail"
    BY <1>2, OutputGuarded DEF Inserts
  <1>3. CASE rewrite = "input-guardrail"
    BY <1>3, InputGuarded DEF Inserts
  <1>4. CASE rewrite = "resampling"
    BY <1>4, Resampled DEF Inserts
  <1>5. CASE rewrite = "insert-ordinal-encoder-before"
    BY <1>5, XPreprocessorInserted DEF Inserts
  <1>7. CASE rewrite = "force-random-state"
    <2>1. h = g \/ h = WireParam(g, n, "random_state", "seed")
      BY <1>7 DEF Apply, ForceRandomState
    <2>2. Outcome(g, h, {Fresh(n, "random_state")}, {})
      <3>1. Fresh(n, "random_state") \notin Nodes(g)
        BY <1>1
      <3>2. Outcome(g, WireParam(g, n, "random_state", "seed"), {Fresh(n, "random_state")}, {})
        BY <1>1, <3>1, ParamWired
      <3>3. QED
        BY <1>1, <2>1, <3>2, NothingChanged
    <2>3. QED
      BY <1>1, <2>2, OutcomeWider DEF All
  <1>9. CASE rewrite = "stratified-splitting"
    <2>1. h \in DuplicateDataKwarg(g, n, "1", "stratify")
      BY <1>9 DEF Apply
    <2>2. Outcome(g, h, {}, {})
      BY <1>1, <2>1, KwargDuplicated
    <2>3. QED
      BY <2>2, OutcomeWider
  <1>10. CASE rewrite = "insert-dense-converter-before"
    <2>1. h \in InsertDenseConverter(g, n)
      BY <1>10 DEF Apply
    <2> DEFINE id == n \o <<"dense">>
    <2>2. Outcome(g, h, {id}, {})
      <3>1. id \notin Nodes(g)
        BY <1>1
      <3>2. QED
        BY <1>1, <2>1, <3>1, DenseInserted
    <2>3. id \in All
      BY <1>1
    <2> HIDE DEF id
    <2>4. Outcome(g, h, All, Inserts(rewrite))
      BY <2>2, <2>3, OutcomeWider
    <2>5. QED
      BY <2>4 DEF All
  <1>11. CASE rewrite = "insert-label-encoder-before"
    <2>1. h \in InsertLabelEncoder(g, n)
      BY <1>11 DEF Apply
    <2> DEFINE id == n \o <<"label_encoder">>
    <2>2. Outcome(g, h, {id}, {})
      <3>1. id \notin Nodes(g)
        BY <1>1
      <3>2. QED
        BY <1>1, <2>1, <3>1, LabelEncoderInserted
    <2>3. id \in All
      BY <1>1
    <2> HIDE DEF id
    <2>4. Outcome(g, h, All, Inserts(rewrite))
      BY <2>2, <2>3, OutcomeWider
    <2>5. QED
      BY <2>4 DEF All
  <1>12. CASE rewrite = "fix-sgd-penalty-int"
    <2>1. h \in SetParamValue(g, n, "penalty", "l2")
      BY <1>12 DEF Apply
    <2>2. Outcome(g, h, {}, {})
      BY <1>1, <2>1, ParamValueSet
    <2>3. QED
      BY <2>2, OutcomeWider
  <1>13. CASE rewrite = "fix-score-func-callable"
    <2>1. h \in ParamToSnippet(g, n, "score_func")
      BY <1>13 DEF Apply
    <2>2. Outcome(g, h, {}, {})
      BY <1>1, <2>1, ParamMadeSnippet
    <2>3. QED
      BY <2>2, OutcomeWider
  <1>14. QED
    BY <1>2, <1>3, <1>4, <1>5, <1>7, <1>9, <1>10, <1>11, <1>12, <1>13 DEF Rewrites

\* What an expansion does to a pipeline.
Kept(g, h) ==
  /\ Shape(h) /\ Ids(h)
  /\ Nodes(g) # {} => Nodes(h) # {}
  /\ Sound(g) => Sound(h)
  /\ NoEncoderIds(g) => NoEncoderIds(h)
  /\ \A x \in Nodes(h) : Is(h, x, "group") => x \in Nodes(g) /\ h.nodes[x] = g.nodes[x]

\* New, whose ids are that of n with the words W, comes instead of n, with the edges E.
Replaces(g, h, n, W, New, E) ==
  /\ New = {n \o w : w \in W} /\ New # {}
  /\ Shape(h) /\ Nodes(h) = (Nodes(g) \ {n}) \cup New
  /\ h.edges = Minus(g, {n}).edges \cup E
  /\ \A x \in Nodes(g) \ {n} : h.nodes[x] = g.nodes[x]
  /\ \A x \in New : h.nodes[x].kind # "group"

\* An edge that was at n is at New, and one among New goes upwards in r.
Hangs(g, n, New, r, e) ==
  \/ e.dst \in New /\ \E d \in g.edges : d.dst = n /\ d.src = e.src
  \/ e.src \in New /\ \E d \in g.edges : d.src = n /\ d.dst = e.dst
  \/ e.src \in New /\ e.dst \in New /\ r[e.src] < r[e.dst]

\* The ids stay as they should be.
LEMMA ReplacesIds ==
  ASSUME NEW g, NEW n \in Nodes(g), Ids(g), NEW W, NEW L, Words(W, L),
         \A w \in W : \A i \in 1..L : w[i] \notin EncoderTags,
         NEW h, NEW New, NEW E, Replaces(g, h, n, W, New, E)
  PROVE  Ids(h) /\ (NoEncoderIds(g) => NoEncoderIds(h))
  <1>1. Nodes(h) \subseteq (Nodes(g) \ {n}) \cup {n \o w : w \in W}
    BY DEF Replaces
  <1>2. QED
    BY <1>1, ReplacedIds

\* What is left to show of an expansion: it takes a node away, and hangs the edges at it
\* at new ones whose ids extend its id.
LEMMA Replaced ==
  ASSUME NEW g, Shape(g), Ids(g), NEW n \in Nodes(g), NEW W, NEW L, Words(W, L),
         \A w \in W : \A i \in 1..L : w[i] \notin EncoderTags,
         NEW h, NEW New, NEW E, Replaces(g, h, n, W, New, E),
         NEW r, \A x \in New : r[x] \in Nat, \A e \in E : Hangs(g, n, New, r, e)
  PROVE  Kept(g, h)
  <1>1. /\ New = {n \o w : w \in W} /\ New # {} /\ Shape(h)
        /\ Nodes(h) = (Nodes(g) \ {n}) \cup New
        /\ h.edges = {e \in g.edges : e.src # n /\ e.dst # n} \cup E
        /\ \A x \in Nodes(g) \ {n} : h.nodes[x] = g.nodes[x]
        /\ \A x \in New : h.nodes[x].kind # "group"
    <2>1. Minus(g, {n}).edges = {e \in g.edges : e.src # n /\ e.dst # n}
      BY MinusIs
    <2>2. QED
      BY <2>1 DEF Replaces
  <1>2. New \cap Nodes(g) = {} /\ n \notin New
    <2>1. \A w \in W : n \o w \notin Nodes(g)
      BY FreshIds
    <2>2. ASSUME NEW x \in New PROVE x \notin Nodes(g)
      <3>1. PICK w \in W : x = n \o w
        BY <1>1
      <3>2. QED
        BY <2>1, <3>1
    <2>3. QED
      BY <2>2
  <1>3. Ids(h) /\ (NoEncoderIds(g) => NoEncoderIds(h))
    BY ReplacesIds
  <1> DEFINE names == {h.nodes[x].name : x \in Nodes(h)}
             q == [x \in New \cup {n} |-> IF x = n THEN 0 ELSE r[x]]
  <1>4. \A x \in Nodes(h) \cap New : ~Is(h, x, "group") /\ (Is(h, x, "operator") => h.nodes[x].name \in names)
    BY <1>1 DEF Is
  <1>5. q \in [New \cup {n} -> Nat] /\ \A x \in New : q[x] = r[x]
    BY <1>2
  <1> HIDE DEF names, q
  <1>6. ASSUME Closed(g), NoLoop(g) PROVE Unfolds(g, h, n, New, q)
    <2>1. \A d \in g.edges : ~(d.src = n /\ d.dst = n)
      BY <1>6, NoSelfLoop DEF Wire
    <2>2. ASSUME NEW e \in E
          PROVE  /\ e.src \in Nodes(h) /\ e.dst \in Nodes(h)
                 /\ \/ e.dst \in New /\ Wire(g, e.src, n)
                    \/ e.src \in New /\ Wire(g, n, e.dst)
                    \/ e.src \in New /\ e.dst \in New /\ q[e.src] < q[e.dst]
      <3>1. Hangs(g, n, New, r, e)
        OBVIOUS
      <3>2. QED
        BY <1>1, <1>5, <1>6, <2>1, <3>1 DEF Hangs, Closed, Wire
    <2>3. QED
      BY <1>1, <1>6, <2>2 DEF Unfolds, Closed, Wire
  <1>7. Outcome(g, h, New, names)
    BY <1>1, <1>2, <1>4, <1>5, <1>6, OutcomeIs
  <1>8. QED
    BY <1>3, <1>7 DEF Kept, Outcome

\* At most one data edge leads to n.
Single(g, n) == \A d, e \in DataInto(g, n) : d = e

\* No wire is lost when New comes instead of n: those of the other nodes are left, those from
\* n leave from New, one each, and those that n reads lead to New.
Wired(g, h, n) ==
  \E New :
    /\ Nodes(h) = (Nodes(g) \ {n}) \cup New
    /\ \A x \in Nodes(g) \ {n} : h.nodes[x] = g.nodes[x]
    /\ \A x \in New : /\ x \in Seq(Parts) /\ Extends(x, n) /\ x[Len(n) + 1] \notin SideTags
                      /\ ~TakesNothing(h, x) /\ ~Guardrail(h, x)
    /\ \A d \in g.edges : d.src # n /\ d.dst # n => d \in h.edges
    /\ \A d \in g.edges : d.src = n /\ d.dst # n =>
         \E y \in h.edges : /\ y.src \in New /\ y.dst = d.dst
                            /\ Is(g, n, "parameter") => Is(h, y.src, "parameter")
    /\ \A d \in g.edges : d.dst = n => \/ Unread(g, d)
                                       \/ \E y \in h.edges : /\ y.src = d.src /\ y.out = d.out
                                                             /\ y.dst \in New
    /\ \A m \in Nodes(g) \ {n} : Single(g, m) => Single(h, m)
    /\ Is(g, n, "parameter") => TakesNothing(g, n)

\* Of the edges E that an expansion of n makes: f turns those from n, every other leads to
\* New, and what n reads is there.
Feeds(g, n, New, E, f) ==
  /\ \A d \in From(g, n) : f[d] \in E /\ f[d].src \in New /\ f[d].dst = d.dst
  /\ \A y \in E : y.dst \in New \/ \E d \in From(g, n) : y = f[d]
  /\ \A d \in Into(g, n) : \/ Unread(g, d)
                           \/ \E y \in E : y.src = d.src /\ y.out = d.out /\ y.dst \in New

\* What is left to show of an expansion: the wires it turns, and that none of the nodes it
\* makes drops one.
LEMMA ReplacedWires ==
  ASSUME NEW g, Ids(g), NEW n \in Nodes(g), NEW W, NEW L, Words(W, L),
         NEW h, NEW New, NEW E, Replaces(g, h, n, W, New, E), NEW f, Feeds(g, n, New, E, f),
         \A x \in New : ~TakesNothing(h, x) /\ ~Guardrail(h, x),
         Is(g, n, "parameter") => TakesNothing(g, n) /\ \A x \in New : Is(h, x, "parameter")
  PROVE  Wired(g, h, n)
  <1>1. /\ New = {n \o w : w \in W}
        /\ Nodes(h) = (Nodes(g) \ {n}) \cup New
        /\ h.edges = {e \in g.edges : e.src # n /\ e.dst # n} \cup E
        /\ \A x \in Nodes(g) \ {n} : h.nodes[x] = g.nodes[x]
    <2>1. Minus(g, {n}).edges = {e \in g.edges : e.src # n /\ e.dst # n}
      BY MinusIs
    <2>2. QED
      BY <2>1 DEF Replaces
  <1>2. \A x \in New : /\ x \in Seq(Parts) /\ Extends(x, n) /\ x[Len(n) + 1] \notin SideTags
                       /\ x \notin Nodes(g)
    <2> SUFFICES ASSUME NEW w \in W
                 PROVE  /\ n \o w \in Seq(Parts) /\ Extends(n \o w, n)
                        /\ (n \o w)[Len(n) + 1] \notin SideTags /\ n \o w \notin Nodes(g)
      BY <1>1
    <2>1. n \in Seq(Parts) /\ w \in Seq(Parts) /\ Len(w) > 0 /\ w[1] \notin SideTags
      BY DEF Ids, Words
    <2>2. n \o w \in Seq(Parts) /\ Extends(n \o w, n) /\ (n \o w)[Len(n) + 1] = w[1]
      BY <2>1, Concatenated
    <2>3. n \o w \notin Nodes(g)
      BY FreshIds
    <2>4. QED
      BY <2>1, <2>2, <2>3
  <1>3. ASSUME NEW d \in g.edges, d.src = n, d.dst # n
        PROVE  \E y \in h.edges : /\ y.src \in New /\ y.dst = d.dst
                                  /\ Is(g, n, "parameter") => Is(h, y.src, "parameter")
    <2>1. d \in From(g, n)
      BY <1>3 DEF From
    <2>2. QED
      BY <1>1, <2>1 DEF Feeds
  <1>4. ASSUME NEW d \in g.edges, d.dst = n
        PROVE  Unread(g, d) \/ \E y \in h.edges : y.src = d.src /\ y.out = d.out /\ y.dst \in New
    <2>1. d \in Into(g, n)
      BY <1>4 DEF Into
    <2>2. QED
      BY <1>1, <2>1 DEF Feeds
  <1>5. ASSUME NEW m \in Nodes(g) \ {n}, Single(g, m) PROVE Single(h, m)
    <2> DEFINE From1(y, d) == /\ d \in DataInto(g, m)
                              /\ \/ y = d /\ d.src # n
                                 \/ y = f[d] /\ d.src = n
    <2>1. ASSUME NEW y \in DataInto(h, m) PROVE \E d : From1(y, d)
      <3>1. y \in h.edges /\ y.dst = m /\ ~Is(h, y.src, "parameter") /\ m \notin New
        BY <1>2 DEF DataInto, ParamsInto, Into
      <3>2. CASE y \in g.edges /\ y.src # n
        <4>1. Is(g, y.src, "parameter") => Is(h, y.src, "parameter")
          BY <1>1, <3>2 DEF Is
        <4>2. y \in DataInto(g, m)
          BY <3>1, <3>2, <4>1 DEF DataInto, ParamsInto, Into
        <4>3. QED
          BY <3>2, <4>2
      <3>3. CASE y \in E
        <4>1. PICK d \in From(g, n) : y = f[d]
          BY <3>1, <3>3 DEF Feeds
        <4>2. d \in g.edges /\ d.src = n /\ d.dst = m /\ y.src \in New
          BY <3>1, <4>1 DEF Feeds, From
        <4>3. ~Is(g, n, "parameter")
          BY <3>1, <4>2
        <4>4. d \in DataInto(g, m)
          BY <4>2, <4>3 DEF DataInto, ParamsInto, Into
        <4>5. QED
          BY <4>1, <4>2, <4>4
      <3>4. QED
        BY <1>1, <3>1, <3>2, <3>3
    <2>2. ASSUME NEW y \in DataInto(h, m), NEW z \in DataInto(h, m) PROVE y = z
      <3>1. PICK d : From1(y, d)
        BY <2>1
      <3>2. PICK e : From1(z, e)
        BY <2>1
      <3>3. d = e
        BY <1>5, <3>1, <3>2 DEF Single
      <3>4. QED
        BY <3>1, <3>2, <3>3
    <2>3. QED
      BY <2>2 DEF Single
  <1>6. \A d \in g.edges : d.src # n /\ d.dst # n => d \in h.edges
    BY <1>1
  <1>7. QED
    BY <1>1, <1>2, <1>3, <1>4, <1>5, <1>6 DEF Wired

\* Ids that one part extends.
LEMMA OneWord ==
  ASSUME NEW T, T \subseteq Parts, T \cap SideTags = {}
  PROVE  /\ Words({<<t>> : t \in T}, 1)
         /\ \A w \in {<<t>> : t \in T} : \A i \in 1..1 : w[i] \notin EncoderTags
  <1>1. \A t \in T : <<t>> \in Seq(Parts) /\ Len(<<t>>) = 1 /\ <<t>>[1] = t /\ t \notin SideTags
    BY SingletonIs
  <1>2. \A t : t \in EncoderTags => t \in SideTags
    BY DEF SideTags
  <1>3. \A w \in {<<t>> : t \in T} : w \in Seq(Parts) /\ Len(w) = 1 /\ w[1] \notin SideTags
    BY <1>1
  <1>4. QED
    <2> DEFINE W == {<<t>> : t \in T}
    <2>1. \A w \in W : w \in Seq(Parts) /\ Len(w) = 1 /\ w[1] \notin SideTags
      BY <1>3
    <2> HIDE DEF W
    <2>2. \A i \in 1..1 : i = 1
      OBVIOUS
    <2>3. Words(W, 1) /\ \A w \in W : \A i \in 1..1 : w[i] \notin EncoderTags
      BY <1>2, <2>1, <2>2 DEF Words
    <2>4. QED
      BY <2>3 DEF W

\* Ids that the tag and the name of a method extend.
LEMMA TwoWords ==
  ASSUME NEW T, T \subseteq Parts, T \cap EncoderTags = {}
  PROVE  /\ Words({<<"cx", t>> : t \in T}, 2)
         /\ \A w \in {<<"cx", t>> : t \in T} : \A i \in 1..2 : w[i] \notin EncoderTags
  <1> DEFINE c == "cx"
  <1>1. c \in Parts /\ c \notin SideTags /\ c \notin EncoderTags
    BY DEF Parts, Appended, SideTags, EncoderTags
  <1> HIDE DEF c
  <1>2. \A t \in T : /\ <<c, t>> \in Seq(Parts) /\ Len(<<c, t>>) = 2
                     /\ <<c, t>>[1] = c /\ <<c, t>>[2] = t /\ t \notin EncoderTags
    BY <1>1, PairIs
  <1>3. /\ Words({<<c, t>> : t \in T}, 2)
        /\ \A w \in {<<c, t>> : t \in T} : \A i \in 1..2 : w[i] \notin EncoderTags
    <2>1. \A i \in 1..2 : i = 1 \/ i = 2
      OBVIOUS
    <2> DEFINE W == {<<c, t>> : t \in T}
    <2>2. \A w \in W : /\ w \in Seq(Parts) /\ Len(w) = 2 /\ w[1] = c /\ w[2] \notin EncoderTags
      <3> SUFFICES ASSUME NEW t \in T
                   PROVE  /\ <<c, t>> \in Seq(Parts) /\ Len(<<c, t>>) = 2 /\ <<c, t>>[1] = c
                          /\ <<c, t>>[2] \notin EncoderTags
        OBVIOUS
      <3>1. QED
        BY <1>2
    <2> HIDE DEF W
    <2>3. Words(W, 2) /\ \A w \in W : \A i \in 1..2 : w[i] \notin EncoderTags
      BY <1>1, <2>1, <2>2 DEF Words
    <2>4. QED
      BY <2>3 DEF W
  <1>4. QED
    BY <1>3 DEF c

\* Different parts make different ids.
LEMMA SuffixesDiffer ==
  ASSUME NEW n \in Seq(Parts), NEW t \in Parts, NEW u \in Parts, n \o <<t>> = n \o <<u>>
  PROVE  t = u
  <1>1. (n \o <<t>>)[Len(n) + 1] = t /\ (n \o <<u>>)[Len(n) + 1] = u
    OBVIOUS
  <1>2. QED
    BY <1>1

\* The edges at n are hung at s.
Inward(g, n, s) == {[x EXCEPT !.dst = s] : x \in Into(g, n)}
Outward(g, n, s) == {[x EXCEPT !.src = s] : x \in From(g, n)}

\* Edges that are hung at another node.
LEMMA Turned ==
  ASSUME NEW g, Shape(g), NEW n, NEW s
  PROVE  /\ \A e \in Inward(g, n, s) :
              IsEdge(e) /\ e.dst = s /\ \E d \in g.edges : d.dst = n /\ d.src = e.src
         /\ \A e \in Outward(g, n, s) :
              IsEdge(e) /\ e.src = s /\ \E d \in g.edges : d.src = n /\ d.dst = e.dst
  <1>1. ASSUME NEW x \in Into(g, n)
        PROVE  LET e == [x EXCEPT !.dst = s]
               IN  IsEdge(e) /\ e.dst = s /\ \E d \in g.edges : d.dst = n /\ d.src = e.src
    <2>1. x \in g.edges /\ x.dst = n /\ IsEdge(x)
      BY DEF Into, Shape
    <2>2. [x EXCEPT !.dst = s] = Edge(x.src, s, x.pos, x.out)
      BY <2>1, EdgeIs
    <2>3. QED
      BY <2>1, <2>2, EdgeIs
  <1>2. ASSUME NEW x \in From(g, n)
        PROVE  LET e == [x EXCEPT !.src = s]
               IN  IsEdge(e) /\ e.src = s /\ \E d \in g.edges : d.src = n /\ d.dst = e.dst
    <2>1. x \in g.edges /\ x.src = n /\ IsEdge(x)
      BY DEF From, Shape
    <2>2. [x EXCEPT !.src = s] = Edge(s, x.dst, x.pos, x.out)
      BY <2>1, EdgeIs
    <2>3. QED
      BY <2>1, <2>2, EdgeIs
  <1>3. \A e \in Inward(g, n, s) :
           IsEdge(e) /\ e.dst = s /\ \E d \in g.edges : d.dst = n /\ d.src = e.src
    <2> SUFFICES ASSUME NEW x \in Into(g, n)
                 PROVE  LET e == [x EXCEPT !.dst = s]
                        IN  IsEdge(e) /\ e.dst = s /\ \E d \in g.edges : d.dst = n /\ d.src = e.src
      BY DEF Inward, Outward
    <2>1. QED
      BY <1>1
  <1>4. \A e \in Outward(g, n, s) :
           IsEdge(e) /\ e.src = s /\ \E d \in g.edges : d.src = n /\ d.dst = e.dst
    <2> SUFFICES ASSUME NEW x \in From(g, n)
                 PROVE  LET e == [x EXCEPT !.src = s]
                        IN  IsEdge(e) /\ e.src = s /\ \E d \in g.edges : d.src = n /\ d.dst = e.dst
      BY DEF Inward, Outward
    <2>1. QED
      BY <1>2
  <1>5. QED
    BY <1>3, <1>4

Suffixed(n, t, s) == s = n \o <<t>>

\* The edges that s has instead of n: those that leave n, and those that n reads.
Hung(g, n, s, E) ==
  /\ Outward(g, n, s) \subseteq E /\ E \subseteq Inward(g, n, s) \cup Outward(g, n, s)
  /\ TakesNothing(g, n) \/ Inward(g, n, s) \subseteq E

\* Hanging the edges at another node loses none that is read.
LEMMA HungFeeds ==
  ASSUME NEW g, Shape(g), NEW n, NEW s, NEW E, Hung(g, n, s, E)
  PROVE  /\ \A e \in E : IsEdge(e) /\ \A r : Hangs(g, n, {s}, r, e)
         /\ \E f : Feeds(g, n, {s}, E, f)
  <1> DEFINE f == [d \in From(g, n) |-> [d EXCEPT !.src = s]]
  <1>1. \A e \in E : IsEdge(e) /\ \A r : Hangs(g, n, {s}, r, e)
    <2> SUFFICES ASSUME NEW e \in E, NEW r PROVE IsEdge(e) /\ Hangs(g, n, {s}, r, e)
      OBVIOUS
    <2>1. e \in Inward(g, n, s) \/ e \in Outward(g, n, s)
      BY DEF Hung
    <2>2. QED
      BY <2>1, Turned DEF Hangs
  <1>2. Outward(g, n, s) = {f[d] : d \in From(g, n)}
    BY DEF Outward
  <1>3. ASSUME NEW d \in From(g, n) PROVE f[d].src = s /\ f[d].dst = d.dst
    <2>1. IsEdge(d)
      BY DEF From, Shape
    <2>2. f[d] = Edge(s, d.dst, d.pos, d.out)
      BY <2>1, EdgeIs
    <2> HIDE DEF f
    <2>3. QED
      BY <2>2, EdgeIs
  <1>4. ASSUME NEW d \in Into(g, n)
        PROVE  \E y \in Inward(g, n, s) : y.src = d.src /\ y.out = d.out /\ y.dst \in {s}
    <2>1. IsEdge(d)
      BY DEF Into, Shape
    <2>2. [d EXCEPT !.dst = s] = Edge(d.src, s, d.pos, d.out)
      BY <2>1, EdgeIs
    <2>3. Edge(d.src, s, d.pos, d.out) \in Inward(g, n, s)
      BY <2>2 DEF Inward
    <2>4. QED
      BY <2>3 DEF Edge
  <1>5. \A e \in Inward(g, n, s) : e.dst \in {s}
    BY Turned
  <1>6. \A d \in Into(g, n) : d.dst = n
    BY DEF Into
  <1> HIDE DEF f
  <1>7. Feeds(g, n, {s}, E, f)
    BY <1>2, <1>3, <1>4, <1>5, <1>6 DEF Feeds, Hung, Unread
  <1>8. QED
    BY <1>1, <1>7

\* One node instead of another.
LEMMA Substituted ==
  ASSUME NEW g, Shape(g), Ids(g), NEW n \in Nodes(g), NEW t \in Parts, t \notin SideTags,
         NEW node, "kind" \in DOMAIN node,
         node.kind = "snippet" \/ (node.kind = "parameter" /\ node.dtype = "eval"),
         Is(g, n, "parameter") => TakesNothing(g, n) /\ node.kind = "parameter",
         NEW s, Suffixed(n, t, s), NEW E, Hung(g, n, s, E)
  PROVE  LET h == Plus(Minus(g, {n}), At(s, node), E)
         IN  Kept(g, h) /\ Wired(g, h, n)
  <1> DEFINE b == Minus(g, {n})
             h == Plus(b, At(s, node), E)
             T == {t}
             W == {<<x>> : x \in T}
             New == {s}
             r == [x \in New |-> 0]
  <1>1. Words(W, 1) /\ \A w \in W : \A i \in 1..1 : w[i] \notin EncoderTags
    <2>1. T \subseteq Parts /\ T \cap SideTags = {}
      OBVIOUS
    <2> HIDE DEF T
    <2>2. QED
      BY <2>1, OneWord
  <1>2. {s} = {n \o w : w \in W}
    BY DEF Suffixed
  <1> HIDE DEF W
  <1>3. Nodes(b) = Nodes(g) \ {n} /\ Shape(b) /\ \A x \in Nodes(b) : b.nodes[x] = g.nodes[x]
    BY MinusIs
  <1>4. s \notin Nodes(g)
    BY <1>1, <1>2, FreshIds
  <1> HIDE DEF b
  <1>5. /\ Shape(h) /\ Nodes(h) = Nodes(b) \cup {s} /\ h.edges = b.edges \cup E
        /\ h.nodes[s] = node /\ \A x \in Nodes(b) \ {s} : h.nodes[x] = b.nodes[x]
    <2>1. Shape(b) /\ "kind" \in DOMAIN node /\ \A e \in E : IsEdge(e)
      BY <1>3, HungFeeds
    <2>2. h = Plus(b, At(s, node), E)
      OBVIOUS
    <2> HIDE DEF h
    <2>3. QED
      BY <2>1, <2>2, PlusOne
  <1> HIDE DEF h
  <1>6. Replaces(g, h, n, W, New, E)
    BY <1>2, <1>3, <1>4, <1>5 DEF Replaces, b
  <1>7. \A x \in New : r[x] \in Nat
    OBVIOUS
  <1> HIDE DEF r
  <1>8. (\A e \in E : Hangs(g, n, New, r, e)) /\ \E f : Feeds(g, n, New, E, f)
    BY HungFeeds
  <1>9. /\ \A x \in New : ~TakesNothing(h, x) /\ ~Guardrail(h, x)
        /\ Is(g, n, "parameter") => TakesNothing(g, n) /\ \A x \in New : Is(h, x, "parameter")
    BY <1>5 DEF TakesNothing, Guardrail, IsState, Is
  <1> HIDE DEF New
  <1>10. Kept(g, h)
    BY <1>1, <1>6, <1>7, <1>8, Replaced
  <1>11. Wired(g, h, n)
    BY <1>1, <1>6, <1>8, <1>9, ReplacedWires
  <1>12. QED
    BY <1>10, <1>11 DEF h, b

\* _expand_printout
LEMMA PrintoutExpanded ==
  ASSUME NEW g, Shape(g), Ids(g), NEW n \in Nodes(g), Is(g, n, "operator")
  PROVE  Kept(g, ExpandPrintout(g, n)) /\ Wired(g, ExpandPrintout(g, n), n)
  <1> DEFINE t == "printout"
             s == n \o <<t>>
             node == Snippet("printout")
             E == {[e EXCEPT !.dst = s] : e \in Into(g, n)} \cup {[e EXCEPT !.src = s] : e \in From(g, n)}
  <1>1. ExpandPrintout(g, n) = Plus(Minus(g, {n}), At(s, node), E)
    BY DEF ExpandPrintout
  <1>2. t \in Parts /\ t \notin SideTags
    BY DEF Parts, Appended, SideTags, EncoderTags
  <1>3. "kind" \in DOMAIN node /\ node.kind = "snippet" /\ ~Is(g, n, "parameter")
    BY NodeIs DEF Is
  <1> HIDE DEF t, node
  <1>4. Suffixed(n, t, s)
    BY DEF Suffixed
  <1> HIDE DEF s
  <1>5. Hung(g, n, s, E)
    BY DEF Hung, Inward, Outward
  <1> HIDE DEF E
  <1>6. QED
    BY <1>1, <1>2, <1>3, <1>4, <1>5, Substituted

\* _expand_state
LEMMA StateExpanded ==
  ASSUME NEW g, Shape(g), Ids(g), NEW n \in Nodes(g), IsState(g, n)
  PROVE  \/ ExpandState(g, n) = g
         \/ Kept(g, ExpandState(g, n)) /\ Wired(g, ExpandState(g, n), n)
  <1> DEFINE t == "state"
             s == n \o <<t>>
             node == Parameter(g.nodes[n].value, "eval", "value")
             E == {[e EXCEPT !.src = s] : e \in From(g, n)}
  <1>1. ExpandState(g, n) = g \/ ExpandState(g, n) = Plus(Minus(g, {n}), At(s, node), E)
    BY DEF ExpandState
  <1>2. t \in Parts /\ t \notin SideTags
    BY DEF Parts, Appended, SideTags, EncoderTags
  <1>3. /\ "kind" \in DOMAIN node /\ node.kind = "parameter" /\ node.dtype = "eval"
        /\ TakesNothing(g, n)
    BY NodeIs DEF Parameter, TakesNothing
  <1> HIDE DEF t, node
  <1>4. Suffixed(n, t, s)
    BY DEF Suffixed
  <1> HIDE DEF s
  <1>5. Hung(g, n, s, E)
    BY <1>3 DEF Hung, Outward
  <1> HIDE DEF E
  <1> DEFINE h == Plus(Minus(g, {n}), At(s, node), E)
  <1>6. Kept(g, h) /\ Wired(g, h, n)
    BY <1>2, <1>3, <1>4, <1>5, Substituted
  <1>7. QED
    BY <1>1, <1>6

\* Nodes that take what leads to them.
LEMMA TakingIs ==
  ASSUME NEW h, NEW x,
         \/ Is(h, x, "snippet")
         \/ Is(h, x, "parameter") /\ h.nodes[x].dtype \in {"str", "eval"}
         \/ /\ Is(h, x, "operator") /\ h.nodes[x].name # "dorian.io.dataset"
            /\ Expanded(x) \/ Interface(h.nodes[x].name) # "Guardrail"
  PROVE  ~TakesNothing(h, x) /\ ~Guardrail(h, x)
  BY DEF TakesNothing, Guardrail, IsState, Is

\* What a dataset is replaced by takes what leads to it.
LEMMA LoadingIs ==
  /\ Interface("read_csv") # "Guardrail" /\ Operator("read_csv").name # "dorian.io.dataset"
  /\ Parameter("fpath", "str", "file").dtype = "str"
  /\ \A a, b : Parameter(a, "eval", b).dtype = "eval"
  BY DEF Interface, Operator, Parameter

\* _expand_dataset
LEMMA DatasetExpanded ==
  ASSUME NEW g, Shape(g), Ids(g), NEW n \in Nodes(g), Is(g, n, "operator"), TakesNothing(g, n)
  PROVE  Kept(g, ExpandDataset(g, n)) /\ Wired(g, ExpandDataset(g, n), n)
  <1> DEFINE word(t) == n \o <<t>>
             loader == word("loader")
             fpath == word("fpath")
             split == word("split_xy")
             columns == {word("features"), word("target")}
             b == Minus(g, {n})
             read == Operator("read_csv")
             path == Parameter("fpath", "str", "file")
             load == Plus(Plus(b, At(loader, read), {}), At(fpath, path), {Edge(fpath, loader, "0", 0)})
             cut == Snippet("split_xy")
             chosen == [c \in columns |-> Parameter(c[Len(c)], "eval", "columns")]
             h == ExpandDataset(g, n)
             onlyX == \A e \in From(g, n) : e.out # 1
             out == Outward(g, n, loader)
             through == {Edge(split, e.dst, e.pos, IF e.out = 1 THEN 1 ELSE 0) : e \in From(g, n)}
             wires == {Edge(loader, split, "0", 0)} \cup {Edge(c, split, c[Len(c)], 0) : c \in columns} \cup through
             loading == {Edge(fpath, loader, "0", 0)}
  <1>1. /\ onlyX => h = WithEdges(load, load.edges \cup out)
        /\ ~onlyX => h = Plus(Plus(load, At(split, cut), {}), chosen, wires)
    BY DEF ExpandDataset, Outward
  <1>2. n \in Seq(Parts)
    BY DEF Ids
  <1>3. /\ \A t \in {"loader", "fpath", "split_xy", "features", "target"} : t \in Parts /\ t \notin SideTags
        /\ loader # fpath /\ loader # split /\ fpath # split /\ loader \notin columns /\ fpath \notin columns
        /\ split \notin columns
    <2>1. \A t \in {"loader", "fpath", "split_xy", "features", "target"} : t \in Parts /\ t \notin SideTags
      BY DEF Parts, Appended, SideTags, EncoderTags
    <2>2. \A t, u : t \in Parts /\ u \in Parts /\ word(t) = word(u) => t = u
      BY <1>2, SuffixesDiffer
    <2> HIDE DEF word
    <2>3. QED
      BY <2>1, <2>2
  <1>4. /\ Nodes(b) = Nodes(g) \ {n} /\ Shape(b) /\ \A x \in Nodes(b) : b.nodes[x] = g.nodes[x]
    BY MinusIs
  <1>5. \A T : T \subseteq Parts /\ T \cap SideTags = {}
                 => /\ Words({<<t>> : t \in T}, 1)
                    /\ \A w \in {<<t>> : t \in T} : \A i \in 1..1 : w[i] \notin EncoderTags
    BY OneWord
  <1>6. \A t : t \in Parts /\ t \notin SideTags => word(t) \notin Nodes(g)
    <2> SUFFICES ASSUME NEW t, t \in Parts, t \notin SideTags PROVE word(t) \notin Nodes(g)
      OBVIOUS
    <2> DEFINE T == {t}
               W == {<<u>> : u \in T}
    <2>1. Words(W, 1)
      <3>1. T \subseteq Parts /\ T \cap SideTags = {}
        OBVIOUS
      <3> HIDE DEF T
      <3>2. QED
        BY <3>1, OneWord
    <2>2. <<t>> \in W
      OBVIOUS
    <2> HIDE DEF W
    <2>3. QED
      BY <2>1, <2>2, FreshIds
  <1>7. loader \notin Nodes(b) /\ fpath \notin Nodes(b) /\ split \notin Nodes(b) /\ columns \cap Nodes(b) = {}
    <2> HIDE DEF b, word
    <2>1. QED
      BY <1>3, <1>4, <1>6
  <1>8. /\ Shape(load) /\ Nodes(load) = Nodes(b) \cup {loader, fpath} /\ load.edges = b.edges \cup loading
        /\ load.nodes[loader] = read /\ load.nodes[fpath] = path
        /\ \A x \in Nodes(b) : load.nodes[x] = b.nodes[x]
    <2> DEFINE none == {}
               m == Plus(b, At(loader, read), none)
    <2>1. "kind" \in DOMAIN read /\ "kind" \in DOMAIN path /\ \A e \in loading : IsEdge(e)
      BY NodeIs, EdgeIs
    <2> HIDE DEF loading, read, path, loader, fpath, b
    <2>3. load = Plus(m, At(fpath, path), loading)
      BY DEF loading
    <2>5. m = Plus(b, At(loader, read), none) /\ \A e \in none : IsEdge(e)
      OBVIOUS
    <2> HIDE DEF m, load, none
    <2>6. /\ Shape(m) /\ Nodes(m) = Nodes(b) \cup {loader} /\ m.edges = b.edges \cup none
          /\ m.nodes[loader] = read /\ \A x \in Nodes(b) \ {loader} : m.nodes[x] = b.nodes[x]
      BY <1>4, <2>1, <2>5, PlusOne
    <2>2. /\ Shape(m) /\ Nodes(m) = Nodes(b) \cup {loader} /\ m.edges = b.edges
          /\ m.nodes[loader] = read /\ \A x \in Nodes(b) \ {loader} : m.nodes[x] = b.nodes[x]
      BY <2>6 DEF none
    <2>4. /\ Shape(load) /\ Nodes(load) = Nodes(m) \cup {fpath} /\ load.edges = m.edges \cup loading
          /\ load.nodes[fpath] = path /\ \A x \in Nodes(m) \ {fpath} : load.nodes[x] = m.nodes[x]
      BY <2>1, <2>2, <2>3, PlusOne
    <2>7. QED
      BY <1>3, <1>7, <2>2, <2>4
  <1>9. /\ read.kind = "operator" /\ path.kind = "parameter" /\ cut.kind = "snippet"
        /\ read.name # "dorian.io.dataset" /\ Interface(read.name) # "Guardrail" /\ path.dtype = "str"
        /\ ~Is(g, n, "parameter")
    BY NodeIs, LoadingIs DEF Is
  <1>13. \A d \in Into(g, n) : Unread(g, d)
    BY DEF Into, Unread
  <1>10. ASSUME onlyX PROVE Kept(g, h) /\ Wired(g, h, n)
    <2> DEFINE T == {"loader", "fpath"}
               W == {<<t>> : t \in T}
               New == {loader, fpath}
               E == loading \cup out
               r == [x \in New |-> IF x = loader THEN 1 ELSE 0]
               f == [d \in From(g, n) |-> [d EXCEPT !.src = loader]]
    <2>1. Words(W, 1) /\ \A w \in W : \A i \in 1..1 : w[i] \notin EncoderTags
      <3>1. T \subseteq Parts /\ T \cap SideTags = {}
        BY <1>3
      <3> HIDE DEF T
      <3>2. QED
        BY <3>1, OneWord
    <2>2. New = {n \o w : w \in W}
      OBVIOUS
    <2> HIDE DEF W, load, b, loader, fpath, read, path
    <2>3. r[fpath] < r[loader] /\ \A x \in New : r[x] \in Nat
      BY <1>3
    <2> HIDE DEF r
    <2>4. \A e \in out : IsEdge(e) /\ e.src = loader /\ \E d \in g.edges : d.src = n /\ d.dst = e.dst
      BY Turned
    <2>5. \A e \in loading : IsEdge(e) /\ e.src = fpath /\ e.dst = loader
      BY EdgeIs
    <2>11. /\ out = {f[d] : d \in From(g, n)}
           /\ \A d \in From(g, n) : f[d].src = loader /\ f[d].dst = d.dst
      <3>1. out = {f[d] : d \in From(g, n)}
        BY DEF Outward, out
      <3>2. ASSUME NEW d \in From(g, n) PROVE f[d].src = loader /\ f[d].dst = d.dst
        <4>1. IsEdge(d)
          BY DEF From, Shape
        <4>2. f[d] = Edge(loader, d.dst, d.pos, d.out)
          BY <4>1, EdgeIs
        <4> HIDE DEF f
        <4>3. QED
          BY <4>2, EdgeIs
      <3>3. QED
        BY <3>1, <3>2
    <2>12. out \subseteq E /\ \A y \in E : y \in loading \/ y \in out
      OBVIOUS
    <2> HIDE DEF f
    <2>13. Feeds(g, n, New, E, f)
      BY <1>13, <2>5, <2>11, <2>12 DEF Feeds
    <2> HIDE DEF out, loading, onlyX
    <2>6. h = WithEdges(load, b.edges \cup E) /\ \A e \in b.edges \cup E : IsEdge(e)
      <3>1. b.edges \cup E = load.edges \cup out
        BY <1>8
      <3>2. QED
        BY <1>1, <1>8, <1>10, <2>4, <2>5, <3>1 DEF Shape
    <2> HIDE DEF E, h
    <2>7. Shape(h) /\ h.nodes = load.nodes /\ Nodes(h) = Nodes(load) /\ h.edges = b.edges \cup E
      BY <1>8, <2>6, WithEdgesIs
    <2>8. Replaces(g, h, n, W, New, E)
      BY <1>4, <1>7, <1>8, <1>9, <2>2, <2>7 DEF Replaces, b
    <2>9. \A e \in E : Hangs(g, n, New, r, e)
      BY <2>3, <2>4, <2>5 DEF Hangs, E
    <2>14. \A x \in New : ~TakesNothing(h, x) /\ ~Guardrail(h, x)
      BY <1>8, <1>9, <2>7, TakingIs DEF Is
    <2> HIDE DEF New
    <2>10. QED
      BY <1>9, <2>1, <2>3, <2>8, <2>9, <2>13, <2>14, Replaced, ReplacedWires
  <1>11. ASSUME ~onlyX PROVE Kept(g, h) /\ Wired(g, h, n)
    <2> DEFINE T == {"loader", "fpath", "split_xy", "features", "target"}
               W == {<<t>> : t \in T}
               New == {loader, fpath, split} \cup columns
               E == loading \cup wires
               r == [x \in New |-> IF x = split THEN 2 ELSE IF x = loader THEN 1 ELSE 0]
               f == [d \in From(g, n) |-> Edge(split, d.dst, d.pos, IF d.out = 1 THEN 1 ELSE 0)]
    <2>1. Words(W, 1) /\ \A w \in W : \A i \in 1..1 : w[i] \notin EncoderTags
      <3>1. T \subseteq Parts /\ T \cap SideTags = {}
        BY <1>3
      <3> HIDE DEF T
      <3>2. QED
        BY <3>1, OneWord
    <2>2. New = {n \o w : w \in W}
      OBVIOUS
    <2>4. DOMAIN chosen = columns /\ IsFiniteSet(columns)
          /\ \A c \in columns : /\ "kind" \in DOMAIN chosen[c] /\ chosen[c].kind = "parameter"
                                 /\ chosen[c].dtype = "eval"
      <3>1. IsFiniteSet(columns)
        BY PairIsFinite
      <3> HIDE DEF columns
      <3>2. QED
        BY <3>1, NodeIs, LoadingIs
    <2> HIDE DEF W, load, b, loader, fpath, read, path, split, columns, chosen
    <2>3. /\ r[fpath] < r[loader] /\ r[loader] < r[split] /\ \A c \in columns : r[c] < r[split]
          /\ \A x \in New : r[x] \in Nat
      BY <1>3
    <2> HIDE DEF r
    <2>5. \A e \in wires : /\ IsEdge(e)
                           /\ \/ e.src = loader /\ e.dst = split
                              \/ e.src \in columns /\ e.dst = split
                              \/ e.src = split /\ \E d \in g.edges : d.src = n /\ d.dst = e.dst
      <3>1. \A e \in through : IsEdge(e) /\ e.src = split /\ \E d \in g.edges : d.src = n /\ d.dst = e.dst
        BY EdgeIs DEF From
      <3> HIDE DEF through
      <3>2. QED
        BY <3>1, EdgeIs
    <2>6. \A e \in loading : IsEdge(e) /\ e.src = fpath /\ e.dst = loader
      BY EdgeIs
    <2>16. through = {f[d] : d \in From(g, n)} /\ \A d \in From(g, n) : f[d].src = split /\ f[d].dst = d.dst
      BY EdgeIs
    <2>17. through \subseteq E /\ \A y \in E : y.dst \in New \/ y \in through
      BY <2>6, EdgeIs
    <2> HIDE DEF f
    <2>18. Feeds(g, n, New, E, f)
      BY <1>13, <2>16, <2>17 DEF Feeds
    <2> DEFINE none == {}
               m == Plus(load, At(split, cut), none)
    <2>7. h = Plus(m, chosen, wires) /\ "kind" \in DOMAIN cut
      BY <1>1, <1>11, NodeIs
    <2> HIDE DEF wires, loading, onlyX, cut, h
    <2>14. m = Plus(load, At(split, cut), none) /\ \A e \in none : IsEdge(e)
      OBVIOUS
    <2> HIDE DEF m, none
    <2>15. /\ Shape(m) /\ Nodes(m) = Nodes(load) \cup {split} /\ m.edges = load.edges \cup none
           /\ m.nodes[split] = cut /\ \A x \in Nodes(load) \ {split} : m.nodes[x] = load.nodes[x]
      BY <1>8, <2>7, <2>14, PlusOne
    <2>8. /\ Shape(m) /\ Nodes(m) = Nodes(load) \cup {split} /\ m.edges = load.edges
          /\ m.nodes[split] = cut /\ \A x \in Nodes(load) \ {split} : m.nodes[x] = load.nodes[x]
      BY <2>15 DEF none
    <2>9. Shape(h)
      BY <2>4, <2>5, <2>7, <2>8, PlusShape
    <2>10. /\ Nodes(h) = columns \cup Nodes(m) /\ h.edges = m.edges \cup wires
           /\ \A x \in columns : h.nodes[x] = chosen[x]
           /\ \A x \in Nodes(m) \ columns : h.nodes[x] = m.nodes[x]
      BY <2>4, <2>7, PlusIs
    <2>11. Replaces(g, h, n, W, New, E)
      <3>1. Nodes(h) = (Nodes(g) \ {n}) \cup New /\ h.edges = b.edges \cup E /\ New # {}
        BY <1>4, <1>8, <2>8, <2>10
      <3>2. \A x \in Nodes(g) \ {n} : h.nodes[x] = g.nodes[x]
        BY <1>4, <1>7, <1>8, <2>8, <2>10
      <3>3. \A x \in New : h.nodes[x].kind # "group"
        BY <1>3, <1>8, <1>9, <2>4, <2>8, <2>10
      <3>4. QED
        BY <2>2, <2>9, <3>1, <3>2, <3>3 DEF Replaces, b
    <2>12. \A e \in E : Hangs(g, n, New, r, e)
      BY <2>3, <2>5, <2>6 DEF Hangs, E
    <2>19. \A x \in New : Is(h, x, "snippet") \/ (Is(h, x, "parameter") /\ h.nodes[x].dtype \in {"str", "eval"})
                           \/ (Is(h, x, "operator") /\ h.nodes[x] = read)
      BY <1>3, <1>8, <1>9, <2>4, <2>8, <2>10 DEF Is
    <2>20. \A x \in New : ~TakesNothing(h, x) /\ ~Guardrail(h, x)
      BY <1>9, <2>19, TakingIs
    <2> HIDE DEF New, E
    <2>13. QED
      BY <1>9, <2>1, <2>3, <2>11, <2>12, <2>18, <2>20, Replaced, ReplacedWires
  <1>12. QED
    BY <1>10, <1>11

AnyName(h) == {h.nodes[x].name : x \in Nodes(h)}

\* No wire is lost when New comes before n: one of the edges into n leads to New instead.
Slipped(g, h, n, New) ==
  /\ Nodes(h) = Nodes(g) \cup New
  /\ \A x \in Nodes(g) : h.nodes[x] = g.nodes[x]
  /\ \A x \in New : ~TakesNothing(h, x) /\ ~Guardrail(h, x)
  /\ \A d \in g.edges : \/ d \in h.edges
                        \/ /\ d.dst = n
                           /\ \E y \in h.edges : /\ y.src = d.src /\ y.out = d.out
                                                 /\ y.dst \in New
  /\ \A y \in h.edges : y \in g.edges \/ y.dst \in New \cup {n}

\* _insert_encoder leaves a pipeline as it is, or adds the encoder and its options, once:
\* their ids are free, a sound pipeline stays sound, and every wire is left.
THEOREM EncoderInserted ==
  ASSUME NEW g, Shape(g), Ids(g), NEW n \in Nodes(g), Encodes(g) \/ NoEncoderIds(g),
         NEW h \in InsertEncoder(g, n)
  PROVE  \/ h = g
         \/ /\ Encodes(h) /\ Ids(h)
            /\ Outcome(g, h, {n \o <<t>> : t \in EncoderTags}, AnyName(h))
            /\ Slipped(g, h, n, {n \o <<t>> : t \in EncoderTags})
  <1> DEFINE word(t) == n \o <<t>>
             encoder == word("encoder")
             options == {word("handle_unknown"), word("unknown_value")}
             x == {e \in DataInto(g, n) : e.pos = "0"}
             op == Operator("OrdinalEncoder")
             chosen == [o \in options |-> Parameter(o[Len(o)], "str", "default")]
             less(e) == WithEdges(g, g.edges \ {e})
             wires(e) == {Edge(e.src, encoder, "0", e.out), Edge(encoder, n, "0", 0)}
                           \cup {Edge(o, encoder, o[Len(o)], 0) : o \in options}
             New == {n \o <<t>> : t \in EncoderTags}
  <1> SUFFICES ASSUME h # g PROVE /\ Encodes(h) /\ Ids(h)
                                  /\ Outcome(g, h, New, AnyName(h)) /\ Slipped(g, h, n, New)
    OBVIOUS
  <1>1. PICK e \in x : h = Plus(Plus(less(e), At(encoder, op), {}), chosen, wires(e))
    BY DEF InsertEncoder
  <1>2. NoEncoderIds(g)
    BY DEF InsertEncoder
  <1>3. e \in g.edges /\ e.dst = n /\ IsEdge(e)
    BY DEF DataInto, Into, Shape
  <1>4. New = {encoder} \cup options
    BY DEF EncoderTags
  <1>5. n \in Seq(Parts) /\ \A t \in {"encoder", "handle_unknown", "unknown_value"} : t \in Parts
    BY DEF Ids, Parts, Tags
  <1>6. encoder \notin options
    <2>1. \A t, u : t \in Parts /\ u \in Parts /\ word(t) = word(u) => t = u
      BY <1>5, SuffixesDiffer
    <2> HIDE DEF word
    <2>2. QED
      BY <1>5, <2>1
  <1>7. /\ IsFiniteSet(options) /\ DOMAIN chosen = options
        /\ \A o \in options : "kind" \in DOMAIN chosen[o] /\ chosen[o].kind = "parameter"
                                 /\ chosen[o].dtype = "str"
    <2>1. IsFiniteSet(options)
      BY PairIsFinite
    <2> HIDE DEF options
    <2>2. QED
      BY <2>1, NodeIs DEF Parameter
  <1>8. /\ "kind" \in DOMAIN op /\ op.kind = "operator" /\ op.name = "OrdinalEncoder"
        /\ op.name # "dorian.io.dataset" /\ Interface(op.name) # "Guardrail"
    BY NodeIs DEF Interface
  <1> HIDE DEF x, encoder, options, op, chosen, New
  <1> DEFINE l == less(e)
             none == {}
             m == Plus(l, At(encoder, op), none)
             F == wires(e)
  <1>9. h = Plus(m, chosen, F)
    BY <1>1
  <1>10. \A d \in F : /\ IsEdge(d)
                      /\ \/ d.src = e.src /\ d.dst = encoder
                         \/ d.src = encoder /\ d.dst = n
                         \/ d.src \in options /\ d.dst = encoder
    BY EdgeIs
  <1>11. m = Plus(l, At(encoder, op), none) /\ \A d \in none : IsEdge(d)
    OBVIOUS
  <1> HIDE DEF F
  <1>12. Shape(l) /\ l.nodes = g.nodes /\ Nodes(l) = Nodes(g) /\ l.edges = g.edges \ {e}
    <2>1. \A d \in g.edges \ {e} : IsEdge(d)
      BY DEF Shape
    <2>2. QED
      BY <2>1, WithEdgesIs
  <1> HIDE DEF l, m, none
  <1>13. /\ Shape(m) /\ Nodes(m) = Nodes(l) \cup {encoder} /\ m.edges = l.edges \cup none
         /\ m.nodes[encoder] = op /\ \A y \in Nodes(l) \ {encoder} : m.nodes[y] = l.nodes[y]
    BY <1>8, <1>11, <1>12, PlusOne
  <1>14. Shape(h)
    BY <1>7, <1>9, <1>10, <1>13, PlusShape
  <1>15. /\ Nodes(h) = options \cup Nodes(m) /\ h.edges = m.edges \cup F
         /\ \A y \in options : h.nodes[y] = chosen[y]
         /\ \A y \in Nodes(m) \ options : h.nodes[y] = m.nodes[y]
    BY <1>7, <1>9, PlusIs
  <1>16. Nodes(h) = Nodes(g) \cup New /\ h.edges = (g.edges \ {e}) \cup F
    BY <1>4, <1>12, <1>13, <1>15 DEF none
  <1>17. Ids(h) /\ New \cap Nodes(g) = {}
    <2>1. Nodes(h) \subseteq Nodes(g) \cup {n \o <<t>> : t \in EncoderTags}
      BY <1>16 DEF New
    <2>2. (\A t \in EncoderTags : n \o <<t>> \notin Nodes(g)) /\ Ids(h)
      BY <1>2, <2>1, EncoderIds
    <2>3. QED
      BY <2>2 DEF New
  <1>18. \A y \in Nodes(g) : h.nodes[y] = g.nodes[y]
    BY <1>4, <1>12, <1>13, <1>15, <1>17
  <1>19. h.nodes[encoder] = op /\ \A y \in options : h.nodes[y].kind = "parameter"
    BY <1>6, <1>7, <1>13, <1>15
  <1>20. Encodes(h)
    BY <1>4, <1>8, <1>16, <1>19 DEF Encodes
  <1> DEFINE r == [y \in New \cup {n} |-> IF y = n THEN 2 ELSE IF y = encoder THEN 1 ELSE 0]
             names == AnyName(h)
  <1>21. /\ r \in [New \cup {n} -> Nat] /\ r[encoder] = 1 /\ r[n] = 2
         /\ \A o \in options : r[o] = 0
    BY <1>4, <1>6, <1>17
  <1> HIDE DEF r
  <1>22. ASSUME Closed(g) PROVE Unfolds(g, h, n, New, r)
    <2>1. \A d \in g.edges : d.src \in Nodes(h) /\ d.dst \in Nodes(h) /\ Wire(g, d.src, d.dst)
      BY <1>16, <1>22 DEF Closed, Wire
    <2>2. \A d \in F : /\ d.src \in Nodes(h) /\ d.dst \in Nodes(h)
                       /\ \/ d.dst \in New /\ Wire(g, d.src, n)
                          \/ d.src \in New \cup {n} /\ d.dst \in New \cup {n} /\ r[d.src] < r[d.dst]
      BY <1>3, <1>4, <1>10, <1>16, <1>21, <1>22, <2>1 DEF Wire
    <2>3. QED
      BY <1>16, <2>1, <2>2 DEF Unfolds
  <1>23. \A y \in Nodes(h) \cap New :
           ~Is(h, y, "group") /\ (Is(h, y, "operator") => h.nodes[y].name \in names)
    BY <1>4, <1>8, <1>19 DEF Is, AnyName
  <1> HIDE DEF names
  <1>24. Outcome(g, h, New, names)
    <2>1. /\ Nodes(h) \subseteq Nodes(g) \cup New /\ Nodes(h) # {}
          /\ \A y \in Nodes(h) \ New : h.nodes[y] = g.nodes[y]
      BY <1>16, <1>18
    <2>2. QED
      BY <1>14, <1>17, <1>21, <1>22, <1>23, <2>1, OutcomeIs
  <1>26. \A y \in New : ~TakesNothing(h, y) /\ ~Guardrail(h, y)
    <2>1. \A y \in New : \/ y = encoder
                         \/ Is(h, y, "parameter") /\ h.nodes[y].dtype \in {"str", "eval"}
      BY <1>4, <1>7, <1>15, <1>16 DEF Is
    <2>2. Is(h, encoder, "operator") /\ h.nodes[encoder] = op
      BY <1>4, <1>8, <1>16, <1>19 DEF Is
    <2>3. QED
      BY <1>8, <2>1, <2>2, TakingIs
  <1>27. Slipped(g, h, n, New)
    <2>1. \E y \in h.edges : y.src = e.src /\ y.out = e.out /\ y.dst \in New
      <3>1. Edge(e.src, encoder, "0", e.out) \in h.edges
        BY <1>16 DEF F
      <3>2. QED
        BY <1>4, <3>1 DEF Edge
    <2>2. \A y \in h.edges : y \in g.edges \/ y.dst \in New \cup {n}
      BY <1>4, <1>10, <1>16
    <2>3. QED
      BY <1>3, <1>16, <1>18, <1>26, <2>1, <2>2 DEF Slipped
  <1>25. QED
    BY <1>17, <1>20, <1>24, <1>27 DEF names

Chained == {"Transformer", "SupervisedTransformer", "Estimator", "LLM"}

\* The order of the calls of a chain.
Rank(m) ==
  CASE m = "__init__" -> 0
    [] m \in {"fit", "chat.send"} -> 1
    [] m \in {"transform", "predict"} -> 2
    [] OTHER -> 3

\* The interfaces whose classes become chains.
LEMMA ChainedIs ==
  ASSUME NEW i, Len(Methods(i)) >= 2, i # "Guardrail"
  PROVE  i \in Chained
  BY DEF Methods, Chained

\* What a finite set is mapped to is finite.
LEMMA ImageIsFinite ==
  ASSUME NEW S, IsFiniteSet(S), NEW f
  PROVE  IsFiniteSet({f[x] : x \in S})
  <1> DEFINE T == {f[x] : x \in S}
             q == [x \in S |-> f[x]]
  <1>1. q \in Surjection(S, T)
    BY DEF Surjection
  <1> HIDE DEF q, T
  <1>2. IsFiniteSet(T)
    BY <1>1, FS_Surjection
  <1>3. QED
    BY <1>2 DEF T

\* What the knowledge base says of them: the methods of a chain are in order, and every
\* input and parameter has a method that takes it.
LEMMA ChainOf ==
  ASSUME NEW i \in Chained
  PROVE  LET methods == Methods(i)
             N == Len(methods)
             called == {methods[k] : k \in 1..N}
         IN  /\ N \in Nat /\ N >= 2 /\ methods[2] \in called /\ methods[N] \in called
             /\ \A k \in 1..N - 1 : /\ methods[k] \in called /\ methods[k + 1] \in called
                                    /\ Rank(methods[k]) < Rank(methods[k + 1])
             /\ \A m \in called : Rank(m) \in Nat /\ Rank(m) < 3 /\ m \in Parts /\ m \notin EncoderTags
             /\ \A input : Consumers(i, input) \subseteq called
             /\ \A p : ParamMethod(i, p) \in called
             /\ \A p \in Inputs(i) : Rank(p) = 3 /\ p \in Parts /\ p \notin EncoderTags
  <1> DEFINE methods == Methods(i)
             N == Len(methods)
             called == {methods[k] : k \in 1..N}
  <1>1. \/ /\ i \in {"Transformer", "SupervisedTransformer"} /\ N = 3
           /\ methods[1] = "__init__" /\ methods[2] = "fit" /\ methods[3] = "transform"
        \/ /\ i = "Estimator" /\ N = 3
           /\ methods[1] = "__init__" /\ methods[2] = "fit" /\ methods[3] = "predict"
        \/ /\ i = "LLM" /\ N = 2
           /\ methods[1] = "__init__" /\ methods[2] = "chat.send"
    BY DEF Methods, Chained
  <1> HIDE DEF methods
  <1>2. \/ i \in {"Transformer", "SupervisedTransformer"} /\ called = {"__init__", "fit", "transform"}
        \/ i = "Estimator" /\ called = {"__init__", "fit", "predict"}
        \/ i = "LLM" /\ called = {"__init__", "chat.send"}
    <2>1. CASE N = 3
      <3>1. called = {methods[1], methods[2], methods[3]}
        <4> HIDE DEF N
        <4>1. 1..N = {1, 2, 3}
          BY <2>1
        <4>2. QED
          BY <4>1
      <3>2. QED
        BY <1>1, <2>1, <3>1
    <2>2. CASE N = 2
      <3>1. called = {methods[1], methods[2]}
        <4> HIDE DEF N
        <4>1. 1..N = {1, 2}
          BY <2>2
        <4>2. QED
          BY <4>1
      <3>2. QED
        BY <1>1, <2>2, <3>1
    <2>3. QED
      BY <1>1, <2>1, <2>2
  <1>3. N \in Nat /\ N >= 2 /\ methods[2] \in called /\ methods[N] \in called
    BY <1>1, <1>2
  <1>4. \A k \in 1..N - 1 : /\ methods[k] \in called /\ methods[k + 1] \in called
                            /\ Rank(methods[k]) < Rank(methods[k + 1])
    <2> SUFFICES ASSUME NEW k \in 1..N - 1
                 PROVE  /\ methods[k] \in called /\ methods[k + 1] \in called
                        /\ Rank(methods[k]) < Rank(methods[k + 1])
      OBVIOUS
    <2> HIDE DEF N, called
    <2>1. (k = 1 /\ k + 1 = 2) \/ (k = 2 /\ k + 1 = 3 /\ N = 3)
      BY <1>1
    <2>2. QED
      BY <1>1, <1>2, <2>1 DEF Rank
  <1>5. \A m \in called : Rank(m) \in Nat /\ Rank(m) < 3 /\ m \in Parts /\ m \notin EncoderTags
    <2> HIDE DEF called
    <2>1. QED
      BY <1>2 DEF Rank, Parts, Appended, EncoderTags
  <1>6. \A input : Consumers(i, input) \subseteq called
    <2> HIDE DEF called
    <2>1. QED
      BY <1>2 DEF Consumers
  <1>7. \A p : ParamMethod(i, p) \in called
    <2> HIDE DEF called
    <2>1. QED
      BY <1>2 DEF ParamMethod
  <1>8. \A p \in Inputs(i) : Rank(p) = 3 /\ p \in Parts /\ p \notin EncoderTags
    <2>1. Inputs(i) \subseteq {"X", "y", "X_test", "messages"}
      BY DEF Inputs, Chained
    <2>2. \A p \in {"X", "y", "X_test", "messages"} : Rank(p) = 3 /\ p \in Parts /\ p \notin EncoderTags
      BY DEF Rank, Parts, Appended, EncoderTags
    <2>3. QED
      BY <2>1, <2>2
  <1> HIDE DEF N, called
  <1>9. QED
    BY <1>3, <1>4, <1>5, <1>6, <1>7, <1>8 DEF methods, N, called

\* An operator that becomes a chain, and the calls of it, take what leads to them.
LEMMA CallsTake ==
  ASSUME NEW name, Len(Methods(Interface(name))) >= 2
  PROVE  /\ name # "dorian.io.dataset"
         /\ Interface(name) \in Chained =>
              LET methods == Methods(Interface(name))
                  last == methods[Len(methods)]
              IN  last # "dorian.io.dataset"
         /\ "dorian.io.dataset" \notin MethodNames
  <1>1. name # "dorian.io.dataset"
    BY DEF Methods, Interface
  <1> DEFINE i == Interface(name)
             methods == Methods(i)
             last == methods[Len(methods)]
  <1>2. i \in Chained => last # "dorian.io.dataset"
    <2> HIDE DEF i
    <2>1. QED
      BY DEF Methods, Chained
  <1>3. QED
    BY <1>1, <1>2 DEF MethodNames

\* The id of a call shows that it is one.
LEMMA CallExpanded ==
  ASSUME NEW n \in Seq(Parts), NEW t \in Parts
  PROVE  Expanded(n \o <<"cx", t>>)
  <1> DEFINE c == "cx"
             w == <<c, t>>
  <1>1. c \in Parts
    BY DEF Parts, Appended
  <1>2. n \o w \in Seq(Parts) /\ Len(n \o w) = Len(n) + 2 /\ (n \o w)[Len(n) + 1] = c
    <2> HIDE DEF c
    <2>1. w \in Seq(Parts) /\ Len(w) = 2 /\ w[1] = c
      BY <1>1, PairIs
    <2> HIDE DEF w
    <2>2. QED
      BY <2>1, Concatenated
  <1>3. Len(n) + 1 \in 1..Len(n) + 2
    BY LenProperties
  <1> HIDE DEF w
  <1>4. Expanded(n \o w)
    BY <1>2, <1>3 DEF Expanded
  <1>5. QED
    BY <1>4 DEF w, c

\* _expand_compound_operator
LEMMA ChainExpanded ==
  ASSUME NEW g, Shape(g), Ids(g), NEW n \in Nodes(g), Len(Methods(Interface(g.nodes[n].name))) >= 2,
         Interface(g.nodes[n].name) # "Guardrail", Is(g, n, "operator")
  PROVE  Kept(g, ExpandChain(g, n)) /\ Wired(g, ExpandChain(g, n), n)
  <1> DEFINE interface == Interface(g.nodes[n].name)
             methods == Methods(interface)
             N == Len(methods)
             last == methods[N]
             node(m) == n \o <<"cx", m>>
             called(m) == IF m = "__init__" THEN Operator(g.nodes[n].name)
                          ELSE Operator(IF m \in MethodNames THEN m ELSE last)
             orphans == Orphans(g, n)
             calls == {methods[i] : i \in 1..N} \cup orphans
             New == {node(m) : m \in calls}
             made == [id \in New |-> called(id[Len(id)])]
             steps == {Edge(node(methods[i]), node(methods[i + 1]), "0", 0) : i \in 1..N - 1}
             extra == {Edge(node(last), node(i), "0", 0) : i \in orphans}
             data == UNION {RouteData(g, n, e) : e \in DataInto(g, n)}
             params == {[e EXCEPT !.dst = node(ParamMethod(interface, g.nodes[e.src].name))] :
                          e \in ParamsInto(g, n)}
             out == {Edge(node(last), e.dst, e.pos, 1) : e \in From(g, n)}
             b == Minus(g, {n})
             E == steps \cup extra \cup data \cup params \cup out
             h == ExpandChain(g, n)
             W == {<<"cx", t>> : t \in calls}
             r == [id \in New |-> Rank(id[Len(id)])]
             f == [d \in From(g, n) |-> Edge(node(last), d.dst, d.pos, 1)]
  <1>1. h = Plus(b, made, E)
    BY DEF ExpandChain
  <1>2. interface \in Chained
    BY ChainedIs
  <1>29. \A m : called(m).kind = "operator" /\ called(m).name # "dorian.io.dataset"
    <2>1. /\ g.nodes[n].name # "dorian.io.dataset" /\ last # "dorian.io.dataset"
          /\ "dorian.io.dataset" \notin MethodNames
      BY <1>2, CallsTake
    <2> HIDE DEF last, interface
    <2>2. QED
      BY <2>1, NodeIs
  <1> HIDE DEF interface
  <1>3. /\ N \in Nat /\ N >= 2 /\ methods[2] \in {methods[k] : k \in 1..N}
        /\ last \in {methods[k] : k \in 1..N}
        /\ \A k \in 1..N - 1 : /\ methods[k] \in {methods[j] : j \in 1..N}
                               /\ methods[k + 1] \in {methods[j] : j \in 1..N}
                               /\ Rank(methods[k]) < Rank(methods[k + 1])
        /\ \A m \in {methods[k] : k \in 1..N} :
              Rank(m) \in Nat /\ Rank(m) < 3 /\ m \in Parts /\ m \notin EncoderTags
        /\ \A input : Consumers(interface, input) \subseteq {methods[k] : k \in 1..N}
        /\ \A p : ParamMethod(interface, p) \in {methods[k] : k \in 1..N}
        /\ \A p \in Inputs(interface) : Rank(p) = 3 /\ p \in Parts /\ p \notin EncoderTags
    BY <1>2, ChainOf
  <1>4. orphans \subseteq Inputs(interface)
    BY DEF Orphans, interface
  <1> HIDE DEF methods, orphans
  <1>5. /\ \A m \in calls : Rank(m) \in Nat /\ m \in Parts /\ m \notin EncoderTags
        /\ methods[2] \in calls /\ last \in calls
        /\ \A input : Consumers(interface, input) \subseteq calls
        /\ \A p : ParamMethod(interface, p) \in calls
        /\ \A i \in orphans : i \in calls /\ Rank(last) < Rank(i)
        /\ \A k \in 1..N - 1 : /\ methods[k] \in calls /\ methods[k + 1] \in calls
                               /\ Rank(methods[k]) < Rank(methods[k + 1])
    <2> DEFINE chain == {methods[k] : k \in 1..N}
    <2>1. calls = chain \cup orphans
      OBVIOUS
    <2>2. \A m \in chain : Rank(m) \in Nat /\ Rank(m) < 3 /\ m \in Parts /\ m \notin EncoderTags
      BY <1>3
    <2>3. \A m \in orphans : Rank(m) = 3 /\ m \in Parts /\ m \notin EncoderTags
      BY <1>3, <1>4
    <2>4. \A k \in 1..N - 1 : /\ methods[k] \in chain /\ methods[k + 1] \in chain
                              /\ Rank(methods[k]) < Rank(methods[k + 1])
      BY <1>3
    <2>5. methods[2] \in chain /\ last \in chain
      BY <1>3
    <2>6. /\ \A input : Consumers(interface, input) \subseteq chain
          /\ \A p : ParamMethod(interface, p) \in chain
      BY <1>3
    <2> HIDE DEF chain, calls
    <2>7. QED
      BY <2>1, <2>2, <2>3, <2>4, <2>5, <2>6
  <1>6. n \in Seq(Parts)
    BY DEF Ids
  <1>7. \A m \in calls : node(m)[Len(node(m))] = m
    <2> SUFFICES ASSUME NEW m \in calls PROVE (n \o <<"cx", m>>)[Len(n \o <<"cx", m>>)] = m
      OBVIOUS
    <2> HIDE DEF calls
    <2>1. QED
      BY <1>6
  <1>8. IsFiniteSet(calls) /\ IsFiniteSet(New)
    <2>1. IsFiniteSet({methods[i] : i \in 1..N})
      <3>1. IsFiniteSet(1..N)
        BY <1>3, FS_Interval
      <3> HIDE DEF N
      <3>2. QED
        BY <3>1, ImageIsFinite
    <2>2. IsFiniteSet(orphans)
      <3>1. Inputs(interface) \subseteq {"X", "y", "X_test", "messages"}
        BY <1>2 DEF Inputs, Chained
      <3>2. IsFiniteSet({"X", "y", "X_test", "messages"})
        <4> DEFINE A == {"X"} \cup {"y"}
                   B == {"X_test"} \cup {"messages"}
        <4>1. IsFiniteSet({"X"}) /\ IsFiniteSet({"y"}) /\ IsFiniteSet({"X_test"}) /\ IsFiniteSet({"messages"})
          BY FS_Singleton
        <4>2. IsFiniteSet(A)
          BY <4>1, FS_Union
        <4>3. IsFiniteSet(B)
          BY <4>1, FS_Union
        <4>4. {"X", "y", "X_test", "messages"} = A \cup B
          OBVIOUS
        <4> HIDE DEF A, B
        <4>5. QED
          BY <4>2, <4>3, <4>4, FS_Union
      <3>3. QED
        BY <1>4, <3>1, <3>2, FS_Subset
    <2>3. IsFiniteSet(calls)
      <3> DEFINE S == {methods[i] : i \in 1..N}
      <3>1. IsFiniteSet(S)
        BY <2>1
      <3> HIDE DEF S
      <3>2. IsFiniteSet(S \cup orphans)
        BY <2>2, <3>1, FS_Union
      <3>3. QED
        BY <3>2 DEF S
    <2> DEFINE nodeOf == [m \in calls |-> node(m)]
    <2> HIDE DEF calls, node
    <2>4. New = {nodeOf[m] : m \in calls}
      OBVIOUS
    <2> HIDE DEF nodeOf, New
    <2>5. QED
      BY <2>3, <2>4, ImageIsFinite
  <1> HIDE DEF calls
  <1>9. Words(W, 2) /\ \A w \in W : \A i \in 1..2 : w[i] \notin EncoderTags
    <2>1. calls \subseteq Parts /\ calls \cap EncoderTags = {}
      BY <1>5
    <2>2. QED
      BY <2>1, TwoWords
  <1>10. New = {n \o w : w \in W}
    OBVIOUS
  <1>11. \A w \in W : n \o w \notin Nodes(g)
    <2> HIDE DEF W
    <2>1. QED
      BY <1>9, FreshIds
  <1>12. New \cap Nodes(g) = {}
    <2> HIDE DEF W, New
    <2>1. QED
      BY <1>10, <1>11
  <1> HIDE DEF W
  <1>13. \A m \in calls : node(m) \in New /\ r[node(m)] = Rank(m)
    <2> HIDE DEF node
    <2>1. \A m \in calls : node(m) \in New
      OBVIOUS
    <2> HIDE DEF New
    <2>2. QED
      BY <1>7, <2>1
  <1>14. \A x \in New : r[x] \in Nat
    <2> SUFFICES ASSUME NEW m \in calls PROVE r[node(m)] \in Nat
      OBVIOUS
    <2> HIDE DEF r, node
    <2>1. QED
      BY <1>5, <1>13
  <1>30. \A x \in New : Expanded(x)
    <2> SUFFICES ASSUME NEW m \in calls PROVE Expanded(n \o <<"cx", m>>)
      OBVIOUS
    <2> HIDE DEF calls
    <2>1. QED
      BY <1>5, <1>6, CallExpanded
  <1> HIDE DEF r, node
  <1>15. \A x \in New : /\ "kind" \in DOMAIN made[x] /\ made[x].kind # "group"
                        /\ made[x].kind = "operator" /\ made[x].name # "dorian.io.dataset"
    <2>1. \A x \in New : "kind" \in DOMAIN made[x] /\ made[x].kind # "group"
      BY NodeIs
    <2> HIDE DEF called
    <2>2. QED
      BY <1>29, <2>1
  <1>16. \A e \in steps \cup extra : /\ IsEdge(e) /\ e.src \in New /\ e.dst \in New
                                     /\ r[e.src] < r[e.dst]
    <2>1. \A k \in 1..N - 1 : LET e == Edge(node(methods[k]), node(methods[k + 1]), "0", 0)
                              IN  /\ IsEdge(e) /\ e.src \in New /\ e.dst \in New /\ r[e.src] < r[e.dst]
      <3> HIDE DEF New, N
      <3>1. QED
        BY <1>5, <1>13, EdgeIs
    <2>2. \A i \in orphans : LET e == Edge(node(last), node(i), "0", 0)
                             IN  /\ IsEdge(e) /\ e.src \in New /\ e.dst \in New /\ r[e.src] < r[e.dst]
      <3> HIDE DEF New, N, last
      <3>1. QED
        BY <1>5, <1>13, EdgeIs
    <2> HIDE DEF New, N, last
    <2>3. QED
      BY <2>1, <2>2
  <1>17. \A e \in data : /\ IsEdge(e) /\ e.dst \in New
                         /\ \E d \in g.edges : d.dst = n /\ d.src = e.src
    <2> SUFFICES ASSUME NEW d \in DataInto(g, n), NEW e \in RouteData(g, n, d)
                 PROVE  IsEdge(e) /\ e.dst \in New /\ \E x \in g.edges : x.dst = n /\ x.src = e.src
      OBVIOUS
    <2>1. d \in g.edges /\ d.dst = n
      BY DEF DataInto, Into
    <2>2. \E m \in calls : \E p, o : e = Edge(d.src, node(m), p, o)
      <3> DEFINE input == InputAt(interface, d.pos)
      <3>1. \/ \E m \in Consumers(interface, input) : e = Edge(d.src, node(m), input, d.out)
            \/ input \in orphans /\ e = Edge(d.src, node(input), "1", d.out)
            \/ e = Edge(d.src, node(methods[2]), d.pos, d.out)
        BY DEF RouteData, interface, methods, orphans, node
      <3> HIDE DEF input
      <3>2. QED
        BY <1>5, <3>1
    <2> HIDE DEF New
    <2>3. QED
      BY <1>13, <2>1, <2>2, EdgeIs
  <1>18. \A e \in params : /\ IsEdge(e) /\ e.dst \in New
                           /\ \E d \in g.edges : d.dst = n /\ d.src = e.src
    <2> SUFFICES ASSUME NEW e \in params
                 PROVE  IsEdge(e) /\ e.dst \in New /\ \E x \in g.edges : x.dst = n /\ x.src = e.src
      OBVIOUS
    <2>4. PICK d \in ParamsInto(g, n) : e = [d EXCEPT !.dst = node(ParamMethod(interface, g.nodes[d.src].name))]
      OBVIOUS
    <2> DEFINE m == ParamMethod(interface, g.nodes[d.src].name)
    <2>5. e = [d EXCEPT !.dst = node(m)] /\ m \in calls
      BY <1>5, <2>4
    <2> HIDE DEF m
    <2>1. d \in g.edges /\ d.dst = n /\ IsEdge(d)
      BY DEF ParamsInto, Into, Shape
    <2>2. [d EXCEPT !.dst = node(m)] = Edge(d.src, node(m), d.pos, d.out)
      BY <2>1, EdgeIs
    <2> HIDE DEF New
    <2>3. QED
      BY <1>13, <2>1, <2>2, <2>5, EdgeIs
  <1>19. \A e \in out : /\ IsEdge(e) /\ e.src \in New
                        /\ \E d \in g.edges : d.src = n /\ d.dst = e.dst
    <2> HIDE DEF New, last
    <2>1. \A e \in From(g, n) : e \in g.edges /\ e.src = n
      BY DEF From
    <2>2. node(last) \in New
      BY <1>5, <1>13
    <2>3. QED
      BY <2>1, <2>2, EdgeIs
  <1>31. ASSUME NEW d \in Into(g, n)
         PROVE  \E y \in E : y.src = d.src /\ y.out = d.out /\ y.dst \in New
    <2>1. CASE d \in DataInto(g, n)
      <3> DEFINE input == InputAt(interface, d.pos)
      <3>1. \E m \in calls : \E p : Edge(d.src, node(m), p, d.out) \in RouteData(g, n, d)
        <4>1. CASE Consumers(interface, input) # {}
          <5>1. PICK m \in Consumers(interface, input) : TRUE
            BY <4>1
          <5>2. Edge(d.src, node(m), input, d.out) \in RouteData(g, n, d)
            BY <4>1 DEF RouteData, interface, node
          <5> HIDE DEF input
          <5>3. QED
            BY <1>5, <5>1, <5>2
        <4>2. CASE Consumers(interface, input) = {} /\ input \in orphans
          <5>1. Edge(d.src, node(input), "1", d.out) \in RouteData(g, n, d)
            BY <4>2 DEF RouteData, interface, orphans, node
          <5> HIDE DEF input
          <5>2. QED
            BY <1>5, <4>2, <5>1
        <4>3. CASE Consumers(interface, input) = {} /\ input \notin orphans
          <5>1. Edge(d.src, node(methods[2]), d.pos, d.out) \in RouteData(g, n, d)
            BY <4>3 DEF RouteData, interface, methods, orphans, node
          <5> HIDE DEF input
          <5>2. QED
            BY <1>5, <5>1
        <4>4. QED
          BY <4>1, <4>2, <4>3
      <3> HIDE DEF input
      <3>2. PICK m \in calls : \E p : Edge(d.src, node(m), p, d.out) \in RouteData(g, n, d)
        BY <3>1
      <3>3. PICK p : Edge(d.src, node(m), p, d.out) \in RouteData(g, n, d)
        BY <3>2
      <3>4. Edge(d.src, node(m), p, d.out) \in data
        BY <2>1, <3>3
      <3> HIDE DEF data, New
      <3>5. node(m) \in New
        BY <1>13
      <3>6. QED
        BY <3>4, <3>5 DEF Edge
    <2>2. CASE d \in ParamsInto(g, n)
      <3> DEFINE m == ParamMethod(interface, g.nodes[d.src].name)
                 e == [d EXCEPT !.dst = node(m)]
      <3>1. e \in params /\ m \in calls
        BY <1>5, <2>2
      <3>2. IsEdge(d)
        BY DEF Into, Shape
      <3> HIDE DEF m, params, New
      <3>3. e = Edge(d.src, node(m), d.pos, d.out)
        BY <3>2, EdgeIs
      <3>4. node(m) \in New
        BY <1>13, <3>1
      <3> HIDE DEF e
      <3>5. QED
        BY <3>1, <3>3, <3>4 DEF Edge
    <2>3. QED
      BY <2>1, <2>2 DEF DataInto
  <1>32. Feeds(g, n, New, E, f)
    <2>1. \A d \in From(g, n) : f[d] \in out /\ f[d].src = node(last) /\ f[d].dst = d.dst
      <3> HIDE DEF last
      <3>1. QED
        BY EdgeIs
    <2>2. \A y \in out : \E d \in From(g, n) : y = f[d]
      OBVIOUS
    <2>3. node(last) \in New
      <3> HIDE DEF New, last
      <3>1. QED
        BY <1>5, <1>13
    <2> HIDE DEF steps, extra, data, params, out, f, New
    <2>4. \A y \in E : y.dst \in New \/ \E d \in From(g, n) : y = f[d]
      BY <1>16, <1>17, <1>18, <2>2
    <2>5. \A d \in From(g, n) : f[d] \in E
      BY <2>1
    <2> HIDE DEF E
    <2>6. QED
      BY <1>31, <2>1, <2>3, <2>4, <2>5 DEF Feeds
  <1> HIDE DEF steps, extra, data, params, out, f
  <1>20. /\ \A e \in E : IsEdge(e)
         /\ \A e \in E : Hangs(g, n, New, r, e)
    BY <1>16, <1>17, <1>18, <1>19 DEF Hangs
  <1>21. DOMAIN made = New
    OBVIOUS
  <1>22. New # {}
    BY <1>5, <1>13
  <1> HIDE DEF E, made, New
  <1>23. Nodes(b) = Nodes(g) \ {n} /\ Shape(b) /\ \A x \in Nodes(b) : b.nodes[x] = g.nodes[x]
    BY MinusIs
  <1> HIDE DEF b, h
  <1>24. Shape(h)
    BY <1>1, <1>8, <1>15, <1>20, <1>21, <1>23, PlusShape
  <1>25. /\ Nodes(h) = New \cup Nodes(b) /\ h.edges = b.edges \cup E
         /\ \A x \in New : h.nodes[x] = made[x]
         /\ \A x \in Nodes(b) \ New : h.nodes[x] = b.nodes[x]
    BY <1>1, <1>21, PlusIs
  <1>26. Replaces(g, h, n, W, New, E)
    <2>1. Nodes(h) = (Nodes(g) \ {n}) \cup New /\ h.edges = Minus(g, {n}).edges \cup E
      BY <1>23, <1>25 DEF b
    <2>2. \A x \in Nodes(g) \ {n} : h.nodes[x] = g.nodes[x]
      BY <1>12, <1>23, <1>25
    <2>3. \A x \in New : h.nodes[x].kind # "group"
      BY <1>15, <1>25
    <2>4. QED
      BY <1>10, <1>22, <1>24, <2>1, <2>2, <2>3 DEF Replaces
  <1>27. Kept(g, h)
    BY <1>9, <1>14, <1>20, <1>26, Replaced
  <1>33. \A x \in New : ~TakesNothing(h, x) /\ ~Guardrail(h, x)
    BY <1>15, <1>25, <1>30, TakingIs DEF Is
  <1>34. Wired(g, h, n)
    <2>1. ~Is(g, n, "parameter")
      BY DEF Is
    <2>2. QED
      BY <1>9, <1>26, <1>32, <1>33, <2>1, ReplacedWires
  <1>28. QED
    BY <1>27, <1>34 DEF h

\* The expansion of a guardrail.
LEMMA GuardrailExpanded ==
  ASSUME NEW g, Shape(g), Ids(g), NEW n \in Nodes(g), NEW h \in ExpandGuardrail(g, n),
         Is(g, n, "operator"), Interface(g.nodes[n].name) = "Guardrail", ~Expanded(n)
  PROVE  Kept(g, h) /\ Wired(g, h, n)
  <1> DEFINE node(m) == n \o <<"cx", m>>
             init == node("__init__")
             pass == node("passthrough")
             b == Minus(g, {n})
             op == Operator(g.nodes[n].name)
             snippet == Snippet("passthrough")
             none == {}
             m == Plus(b, At(init, op), none)
             params == {[e EXCEPT !.dst = IF g.nodes[e.src].name \in {"token", "device"}
                                          THEN init ELSE pass] : e \in ParamsInto(g, n)}
             out == {Edge(pass, e.dst, e.pos, 0) : e \in From(g, n)}
             taken(E) == {Edge(e.src, pass, "1", e.out) : e \in E}
             F(E) == {Edge(init, pass, "0", 0)} \cup taken(E) \cup params \cup out
             f == [d \in From(g, n) |-> Edge(pass, d.dst, d.pos, 0)]
  <1>1. PICK E \in SUBSET DataInto(g, n) :
          /\ h = Plus(m, At(pass, snippet), F(E))
          /\ \A d \in DataInto(g, n) : d \in E \/ \E e \in DataInto(g, n) : e # d
    <2> DEFINE first == {e \in DataInto(g, n) :
                           \A d \in DataInto(g, n) : Numeric(e.pos) /\ Numeric(d.pos)
                                                       => NumberAt[e.pos] <= NumberAt[d.pos]}
    <2>1. \/ first = {} /\ h = Plus(m, At(pass, snippet), F({}))
          \/ \E e \in first : h = Plus(m, At(pass, snippet), F({e}))
      BY DEF ExpandGuardrail
    <2>2. first \subseteq DataInto(g, n)
      OBVIOUS
    <2>3. ASSUME NEW d \in DataInto(g, n), d \notin first
          PROVE  \E e \in DataInto(g, n) : e # d
      <3>1. PICK e \in DataInto(g, n) : /\ Numeric(d.pos) /\ Numeric(e.pos)
                                        /\ ~(NumberAt[d.pos] <= NumberAt[e.pos])
        BY <2>3
      <3>2. NumberAt[d.pos] \in Int
        BY <3>1 DEF Numeric, NumberAt
      <3>3. QED
        BY <3>1, <3>2
    <2> HIDE DEF first, m, F
    <2>4. ASSUME NEW e \in DataInto(g, n), NEW d \in DataInto(g, n), d # e
          PROVE  \E x \in DataInto(g, n) : x # d
      BY <2>4
    <2>5. CASE first = {} /\ h = Plus(m, At(pass, snippet), F({}))
      BY <2>3, <2>5
    <2>6. ASSUME NEW e \in first, h = Plus(m, At(pass, snippet), F({e})) 
          PROVE  \E X \in SUBSET DataInto(g, n) :
                   /\ h = Plus(m, At(pass, snippet), F(X))
                   /\ \A d \in DataInto(g, n) : d \in X \/ \E x \in DataInto(g, n) : x # d
      BY <2>2, <2>4, <2>6
    <2>7. QED
      BY <2>1, <2>5, <2>6
  <1> DEFINE T == {"__init__", "passthrough"}
             W == {<<"cx", t>> : t \in T}
             New == {init, pass}
             r == [x \in New |-> IF x = init THEN 0 ELSE 1]
             A == F(E)
  <1>2. n \in Seq(Parts)
    BY DEF Ids
  <1>3. Words(W, 2) /\ \A w \in W : \A i \in 1..2 : w[i] \notin EncoderTags
    <2>1. T \subseteq Parts /\ T \cap EncoderTags = {}
      BY DEF Parts, Appended, EncoderTags
    <2> HIDE DEF T
    <2>2. QED
      BY <2>1, TwoWords
  <1>4. New = {n \o w : w \in W}
    OBVIOUS
  <1>5. New \cap Nodes(g) = {}
    <2> HIDE DEF W, New
    <2>1. \A w \in W : n \o w \notin Nodes(g)
      BY <1>3, FreshIds
    <2>2. QED
      BY <1>4, <2>1
  <1>6. init # pass
    <2>1. init[Len(n) + 2] = "__init__" /\ pass[Len(n) + 2] = "passthrough"
      BY <1>2
    <2> HIDE DEF init, pass
    <2>2. QED
      BY <2>1
  <1>20. Expanded(init) /\ Expanded(pass)
    <2>1. "__init__" \in Parts /\ "passthrough" \in Parts
      BY DEF Parts, Appended
    <2>2. QED
      BY <1>2, <2>1, CallExpanded
  <1> HIDE DEF W, node, init, pass
  <1>7. r[init] < r[pass] /\ \A x \in New : r[x] \in Nat
    BY <1>6
  <1> HIDE DEF r
  <1>8. \A e \in params : /\ IsEdge(e) /\ e.dst \in New
                          /\ \E d \in g.edges : d.dst = n /\ d.src = e.src
    <2> SUFFICES ASSUME NEW e \in params
                 PROVE  IsEdge(e) /\ e.dst \in New /\ \E x \in g.edges : x.dst = n /\ x.src = e.src
      OBVIOUS
    <2>1. PICK d \in ParamsInto(g, n) : \E s \in New : e = [d EXCEPT !.dst = s]
      OBVIOUS
    <2>2. PICK s \in New : e = [d EXCEPT !.dst = s]
      BY <2>1
    <2>3. d \in g.edges /\ d.dst = n /\ IsEdge(d)
      BY DEF ParamsInto, Into, Shape
    <2> HIDE DEF New, params
    <2>4. e = Edge(d.src, s, d.pos, d.out)
      BY <2>2, <2>3, EdgeIs
    <2>5. QED
      BY <2>3, <2>4, EdgeIs
  <1>9. \A e \in out : IsEdge(e) /\ e.src = pass /\ \E d \in g.edges : d.src = n /\ d.dst = e.dst
    BY EdgeIs DEF From
  <1>21. Feeds(g, n, New, A, f)
    <2>1. ASSUME NEW d \in ParamsInto(g, n)
          PROVE  \E y \in params : y.src = d.src /\ y.out = d.out /\ y.dst \in New
      <3>1. PICK s \in New : [d EXCEPT !.dst = s] \in params
        OBVIOUS
      <3>2. IsEdge(d)
        BY DEF ParamsInto, Into, Shape
      <3> HIDE DEF params, New
      <3>3. [d EXCEPT !.dst = s] = Edge(d.src, s, d.pos, d.out)
        BY <3>2, EdgeIs
      <3>4. QED
        BY <3>1, <3>3 DEF Edge
    <2>2. ASSUME NEW d \in E
          PROVE  \E y \in taken(E) : y.src = d.src /\ y.out = d.out /\ y.dst \in New
      <3>1. Edge(d.src, pass, "1", d.out) \in taken(E)
        OBVIOUS
      <3> HIDE DEF taken
      <3>2. QED
        BY <3>1 DEF Edge
    <2>3. ASSUME NEW d \in Into(g, n), d \notin ParamsInto(g, n), d \notin E PROVE Unread(g, d)
      <3>1. d \in DataInto(g, n) /\ d.dst = n
        BY <2>3 DEF DataInto, Into
      <3>2. Guardrail(g, n)
        BY DEF Guardrail
      <3>3. QED
        BY <1>1, <2>3, <3>1, <3>2 DEF Unread
    <2>4. /\ \A y \in params : y.dst \in New
          /\ \A y \in taken(E) : y.dst \in New
          /\ Edge(init, pass, "0", 0).dst \in New
      <3>1. \A y \in taken(E) : y.dst = pass
        BY EdgeIs
      <3>2. QED
        BY <1>8, <3>1, EdgeIs
    <2>5. /\ out = {f[d] : d \in From(g, n)}
          /\ \A d \in From(g, n) : f[d].src = pass /\ f[d].dst = d.dst
      BY EdgeIs
    <2>6. pass \in New
      OBVIOUS
    <2> HIDE DEF params, taken, out, f, New
    <2>7. /\ \A y \in A : y.dst \in New \/ \E d \in From(g, n) : y = f[d]
          /\ \A d \in From(g, n) : f[d] \in A /\ f[d].src \in New /\ f[d].dst = d.dst
      BY <2>4, <2>5, <2>6
    <2>8. taken(E) \subseteq A /\ params \subseteq A
      OBVIOUS
    <2> HIDE DEF A
    <2>9. QED
      BY <2>1, <2>2, <2>3, <2>7, <2>8 DEF Feeds
  <1> HIDE DEF f
  <1>10. \A e \in taken(E) : IsEdge(e) /\ e.dst = pass /\ \E d \in g.edges : d.dst = n /\ d.src = e.src
    BY EdgeIs DEF DataInto, Into
  <1> HIDE DEF params, out, taken
  <1>11. (\A e \in A : IsEdge(e)) /\ \A e \in A : Hangs(g, n, New, r, e)
    BY <1>7, <1>8, <1>9, <1>10, EdgeIs DEF Hangs
  <1>12. /\ "kind" \in DOMAIN op /\ op.kind = "operator" /\ op.name # "dorian.io.dataset"
         /\ "kind" \in DOMAIN snippet /\ snippet.kind = "snippet"
    <2>1. g.nodes[n].name # "dorian.io.dataset"
      BY DEF Interface
    <2>2. QED
      BY <2>1, NodeIs
  <1>13. Nodes(b) = Nodes(g) \ {n} /\ Shape(b) /\ \A x \in Nodes(b) : b.nodes[x] = g.nodes[x]
    BY MinusIs
  <1>14. h = Plus(m, At(pass, snippet), A)
    BY <1>1
  <1>15. m = Plus(b, At(init, op), none) /\ \A e \in none : IsEdge(e)
    OBVIOUS
  <1> HIDE DEF A, op, snippet, b, m, none
  <1>16. /\ Shape(m) /\ Nodes(m) = Nodes(b) \cup {init} /\ m.edges = b.edges \cup none
         /\ m.nodes[init] = op /\ \A x \in Nodes(b) \ {init} : m.nodes[x] = b.nodes[x]
    BY <1>12, <1>13, <1>15, PlusOne
  <1>17. /\ Shape(h) /\ Nodes(h) = Nodes(m) \cup {pass} /\ h.edges = m.edges \cup A
         /\ h.nodes[pass] = snippet /\ \A x \in Nodes(m) \ {pass} : h.nodes[x] = m.nodes[x]
    BY <1>11, <1>12, <1>14, <1>16, PlusOne
  <1>18. Replaces(g, h, n, W, New, A)
    <2>1. Nodes(h) = (Nodes(g) \ {n}) \cup New /\ h.edges = Minus(g, {n}).edges \cup A /\ New # {}
      BY <1>13, <1>16, <1>17 DEF b, none
    <2>2. \A x \in Nodes(g) \ {n} : h.nodes[x] = g.nodes[x]
      BY <1>5, <1>13, <1>16, <1>17
    <2>3. \A x \in New : h.nodes[x].kind # "group"
      BY <1>6, <1>12, <1>16, <1>17
    <2>4. QED
      BY <1>4, <1>17, <2>1, <2>2, <2>3 DEF Replaces
  <1>22. \A x \in New : ~TakesNothing(h, x) /\ ~Guardrail(h, x)
    <2>1. h.nodes[init] = op /\ h.nodes[pass] = snippet /\ init \in Nodes(h) /\ pass \in Nodes(h)
      BY <1>6, <1>16, <1>17
    <2>2. QED
      BY <1>12, <1>20, <2>1, TakingIs DEF Is
  <1>23. ~Is(g, n, "parameter")
    BY DEF Is
  <1> HIDE DEF New
  <1>19. QED
    BY <1>3, <1>7, <1>11, <1>18, <1>21, <1>22, <1>23, Replaced, ReplacedWires

\* _expand_compound_operator: whatever its interface and its wires, a class gives way to the
\* chain of its methods, a sound pipeline stays sound, and every wire that is read is left.
THEOREM ClassExpanded ==
  ASSUME NEW g, Shape(g), Ids(g), NEW n \in Classes(g), NEW h \in ExpandCompound(g, n)
  PROVE  n \in Nodes(g) /\ Kept(g, h) /\ Wired(g, h, n)
  <1>1. /\ n \in Nodes(g) /\ Len(Methods(Interface(g.nodes[n].name))) >= 2
        /\ Is(g, n, "operator") /\ ~Expanded(n)
    BY DEF Classes, Candidates, Is
  <1>2. CASE Interface(g.nodes[n].name) = "Guardrail"
    <2>1. h \in ExpandGuardrail(g, n)
      BY <1>2 DEF ExpandCompound
    <2>2. QED
      BY <1>1, <1>2, <2>1, GuardrailExpanded
  <1>3. CASE Interface(g.nodes[n].name) # "Guardrail"
    <2>1. h = ExpandChain(g, n)
      BY <1>3 DEF ExpandCompound
    <2>2. Kept(g, ExpandChain(g, n)) /\ Wired(g, ExpandChain(g, n), n)
      BY <1>1, <1>3, ChainExpanded
    <2>3. QED
      BY <1>1, <2>1, <2>2
  <1>4. QED
    BY <1>2, <1>3

\* _flatten_groups: a group gives way to its calls, a sound pipeline stays sound, and every
\* wire is left.
THEOREM GroupFlattened ==
  ASSUME NEW g, Shape(g), Ids(g), NEW n \in Nodes(g), n = <<n[1]>>, WellBuilt(n, g.nodes[n]),
         Is(g, n, "group")
  PROVE  Kept(g, Flatten(g, n)) /\ Wired(g, Flatten(g, n), n)
  <1> DEFINE group == g.nodes[n]
             children == DOMAIN group.children
             calls == [nodes |-> group.children, edges |-> group.inner]
             init == n \o <<"cx", "__init__">>
             inward(e) ==
               IF e.pos \in DOMAIN group.ins
               THEN {Edge(e.src, group.ins[e.pos][1], group.ins[e.pos][2], e.out)}
               ELSE IF init \in DOMAIN group.children THEN {[e EXCEPT !.dst = init]} ELSE {}
             outward(e) ==
               IF e.out \in DOMAIN group.outs
               THEN Edge(group.outs[e.out][1], e.dst, e.pos, group.outs[e.out][2])
               ELSE Edge(group.last, e.dst, e.pos, 0)
             coming == UNION {inward(e) : e \in Into(g, n)}
             going == {outward(e) : e \in From(g, n)}
             b == Minus(g, {n})
             E == group.inner \cup coming \cup going
             h == Flatten(g, n)
             W == {<<"cx", c[3]>> : c \in children}
             f == [d \in From(g, n) |-> outward(d)]
  <1>1. h = Plus(b, group.children, E)
    BY DEF Flatten
  <1>2. /\ Nodes(calls) = children /\ calls.edges = group.inner
        /\ IsFiniteSet(children) /\ Closed(calls) /\ NoLoop(calls)
    <2>1. Nodes(calls) = children /\ calls.edges = group.inner
      BY DEF Nodes
    <2>2. IsFiniteSet(Nodes(calls)) /\ Sound(calls)
      BY DEF WellBuilt
    <2> HIDE DEF calls, children
    <2>3. QED
      BY <2>1, <2>2, SoundMeans
  <1>3. \A c \in children : /\ c = n \o <<"cx", c[3]>> /\ Untagged(c[3])
                            /\ "kind" \in DOMAIN group.children[c]
                            /\ group.children[c].kind # "group"
                            /\ \/ group.children[c].kind = "snippet"
                               \/ /\ group.children[c].kind = "operator"
                                  /\ group.children[c].name # "dorian.io.dataset"
    BY DEF WellBuilt, Is, Nodes, Platform
  <1>4. \A e \in group.inner : IsEdge(e) /\ e.src \in children /\ e.dst \in children
    <2>1. \A e \in group.inner : IsEdge(e)
      BY DEF WellBuilt, IsEdge
    <2>2. QED
      BY <1>2, <2>1 DEF Closed
  <1>5. /\ \A p \in DOMAIN group.ins : group.ins[p][1] \in children
        /\ \A o \in DOMAIN group.outs : group.outs[o][1] \in children
        /\ group.last \in children /\ init \in children
    BY DEF WellBuilt, Nodes
  <1>6. Words(W, 2) /\ \A w \in W : \A i \in 1..2 : w[i] \notin EncoderTags
    <2> DEFINE T == {c[3] : c \in children}
    <2>1. T \subseteq Parts /\ T \cap EncoderTags = {}
      BY <1>3 DEF Untagged, Parts, Tags, EncoderTags
    <2>2. W = {<<"cx", t>> : t \in T}
      OBVIOUS
    <2> HIDE DEF T
    <2>3. QED
      BY <2>1, <2>2, TwoWords
  <1>7. children = {n \o w : w \in W}
    <2>1. \A c \in children : c = n \o <<"cx", c[3]>>
      BY <1>3
    <2> HIDE DEF children
    <2>2. {n \o w : w \in W} = {n \o <<"cx", c[3]>> : c \in children}
      OBVIOUS
    <2>3. QED
      BY <2>1, <2>2
  <1>19. \A c \in children : Expanded(c)
    <2>1. \A c \in children : c = n \o <<"cx", c[3]>> /\ c[3] \in Parts
      BY <1>3 DEF Untagged, Parts
    <2>2. n \in Seq(Parts)
      BY DEF Ids
    <2> HIDE DEF children
    <2>3. QED
      BY <2>1, <2>2, CallExpanded
  <1>8. children \cap Nodes(g) = {}
    <2> HIDE DEF W, children
    <2>1. \A w \in W : n \o w \notin Nodes(g)
      BY <1>6, FreshIds
    <2>2. QED
      BY <1>7, <2>1
  <1>9. \A e \in coming : /\ IsEdge(e) /\ e.dst \in children
                          /\ \E d \in g.edges : d.dst = n /\ d.src = e.src
    <2> SUFFICES ASSUME NEW d \in Into(g, n), NEW e \in inward(d)
                 PROVE  /\ IsEdge(e) /\ e.dst \in children
                        /\ \E x \in g.edges : x.dst = n /\ x.src = e.src
      OBVIOUS
    <2>1. d \in g.edges /\ d.dst = n /\ IsEdge(d)
      BY DEF Into, Shape
    <2> HIDE DEF children, calls, init, coming, going, E, W, f, outward, b, h
    <2>2. \E c \in children : \E p, o : e = Edge(d.src, c, p, o)
      <3>1. /\ init \in children
            /\ \A p \in DOMAIN group.ins : group.ins[p][1] \in children
        BY <1>5
      <3>2. \/ /\ d.pos \in DOMAIN group.ins
               /\ e = Edge(d.src, group.ins[d.pos][1], group.ins[d.pos][2], d.out)
            \/ e = [d EXCEPT !.dst = init]
        BY <3>1 DEF children
      <3> HIDE DEF inward, group
      <3>3. CASE e = [d EXCEPT !.dst = init]
        <4>1. e = Edge(d.src, init, d.pos, d.out)
          BY <2>1, <3>3, EdgeIs
        <4>2. QED
          BY <3>1, <4>1
      <3>4. QED
        BY <3>1, <3>2, <3>3
    <2> HIDE DEF children, inward
    <2>3. QED
      BY <2>1, <2>2, EdgeIs
  <1>10. \A e \in going : /\ IsEdge(e) /\ e.src \in children
                          /\ \E d \in g.edges : d.src = n /\ d.dst = e.dst
    <2> SUFFICES ASSUME NEW d \in From(g, n)
                 PROVE  LET e == outward(d)
                        IN  /\ IsEdge(e) /\ e.src \in children
                            /\ \E x \in g.edges : x.src = n /\ x.dst = e.dst
      OBVIOUS
    <2>1. d \in g.edges /\ d.src = n
      BY DEF From
    <2>2. \E c \in children : \E p, o : outward(d) = Edge(c, d.dst, p, o)
      BY <1>5
    <2> HIDE DEF children, outward
    <2>3. QED
      BY <2>1, <2>2, EdgeIs
  <1>20. Feeds(g, n, children, E, f)
    <2>1. ASSUME NEW d \in Into(g, n)
          PROVE  \E y \in coming : y.src = d.src /\ y.out = d.out /\ y.dst \in children
      <3> HIDE DEF children, calls, going, E, W, f, outward, b, h
      <3>1. \E c \in children : \E p : Edge(d.src, c, p, d.out) \in inward(d)
        <4>1. CASE d.pos \in DOMAIN group.ins
          <5>1. Edge(d.src, group.ins[d.pos][1], group.ins[d.pos][2], d.out) \in inward(d)
            BY <4>1
          <5> HIDE DEF inward, children
          <5>2. QED
            BY <1>5, <4>1, <5>1
        <4>2. CASE d.pos \notin DOMAIN group.ins
          <5>1. [d EXCEPT !.dst = init] \in inward(d)
            BY <1>5, <4>2 DEF children
          <5>2. IsEdge(d)
            BY DEF Into, Shape
          <5>3. [d EXCEPT !.dst = init] = Edge(d.src, init, d.pos, d.out)
            BY <5>2, EdgeIs
          <5> HIDE DEF inward, children, init
          <5>4. QED
            BY <1>5, <5>1, <5>3
        <4> HIDE DEF inward
        <4>3. QED
          BY <4>1, <4>2
      <3> HIDE DEF inward
      <3>2. PICK c \in children : \E p : Edge(d.src, c, p, d.out) \in inward(d)
        BY <3>1
      <3>3. PICK p : Edge(d.src, c, p, d.out) \in inward(d)
        BY <3>2
      <3>4. Edge(d.src, c, p, d.out) \in coming
        BY <3>3
      <3> HIDE DEF coming
      <3>5. QED
        BY <3>4 DEF Edge
    <2>2. ASSUME NEW d \in From(g, n) PROVE outward(d).src \in children /\ outward(d).dst = d.dst
      <3>1. \E c \in children : \E p, o : outward(d) = Edge(c, d.dst, p, o)
        BY <1>5
      <3> HIDE DEF children, outward
      <3>2. QED
        BY <3>1, EdgeIs
    <2>3. \A y \in group.inner : y.dst \in children
      BY <1>4
    <2>4. \A y \in coming : y.dst \in children
      BY <1>9
    <2> HIDE DEF children, outward, coming
    <2>5. \A d \in From(g, n) : f[d] = outward(d)
      OBVIOUS
    <2>6. going = {outward(d) : d \in From(g, n)}
      OBVIOUS
    <2> HIDE DEF f, going
    <2>7. QED
      BY <2>1, <2>2, <2>3, <2>4, <2>5, <2>6 DEF Feeds
  <1> HIDE DEF coming, going, f
  <1>11. /\ Nodes(b) = Nodes(g) \ {n} /\ Shape(b) /\ \A x \in Nodes(b) : b.nodes[x] = g.nodes[x]
         /\ b.edges = {e \in g.edges : e.src # n /\ e.dst # n}
    BY MinusIs
  <1>12. Shape(h)
    <2>1. \A e \in E : IsEdge(e)
      BY <1>4, <1>9, <1>10
    <2> HIDE DEF b, h, E
    <2>2. QED
      BY <1>1, <1>2, <1>3, <1>11, <2>1, PlusShape
  <1> HIDE DEF b, h
  <1>13. /\ Nodes(h) = (Nodes(g) \ {n}) \cup children
         /\ h.edges = {e \in g.edges : e.src # n /\ e.dst # n} \cup E
         /\ \A x \in children : h.nodes[x] = group.children[x]
         /\ \A x \in Nodes(g) \ {n} : h.nodes[x] = g.nodes[x]
    <2> HIDE DEF E
    <2>1. /\ Nodes(h) = children \cup Nodes(b) /\ h.edges = b.edges \cup E
          /\ \A x \in children : h.nodes[x] = group.children[x]
          /\ \A x \in Nodes(b) \ children : h.nodes[x] = b.nodes[x]
      BY <1>1, PlusIs
    <2>2. QED
      BY <1>8, <1>11, <2>1
  <1>15. ASSUME Sound(g) PROVE Sound(h)
    <2>1. Closed(g) /\ NoLoop(g)
      BY <1>15, SoundMeans DEF Shape
    <2>2. \A d \in g.edges : d.src # d.dst
      BY <2>1, NoSelfLoop DEF Wire
    <2> DEFINE image == [x \in Nodes(h) |-> IF x \in children THEN n ELSE x]
    <2> HIDE DEF children
    <2>3. image \in [Nodes(h) -> Nodes(g)] /\ n \notin children /\ n \notin Nodes(h)
      BY <1>8, <1>13
    <2>4. ASSUME NEW e \in h.edges
          PROVE  /\ e.src \in Nodes(h) /\ e.dst \in Nodes(h)
                 /\ \/ e.src \in children /\ e.dst \in children /\ e \in group.inner
                    \/ image[e.src] # image[e.dst] /\ Wire(g, image[e.src], image[e.dst])
      <3>1. CASE e \in g.edges /\ e.src # n /\ e.dst # n
        BY <1>8, <1>13, <2>1, <2>2, <3>1 DEF Closed, Wire
      <3>2. CASE e \in group.inner
        BY <1>4, <1>13, <3>2
      <3>3. CASE e \in coming
        BY <1>8, <1>9, <1>13, <2>1, <2>2, <3>3 DEF Closed, Wire
      <3>4. CASE e \in going
        BY <1>8, <1>10, <1>13, <2>1, <2>2, <3>4 DEF Closed, Wire
      <3>5. QED
        BY <1>13, <3>1, <3>2, <3>3, <3>4
    <2>5. ASSUME NEW T \in SUBSET Nodes(h), T # {}, \A x, y \in T : image[x] = image[y]
          PROVE  \E t \in T : First(h, T, t)
      <3>1. CASE T \subseteq children
        <4>1. PICK t \in T : First(calls, T, t)
          BY <1>2, <2>5, <3>1 DEF NoLoop
        <4>2. ASSUME NEW e \in h.edges, e.src \in T, e.dst = t PROVE FALSE
          <5>1. image[e.src] = image[e.dst]
            BY <2>5, <4>2
          <5>2. e \in calls.edges
            BY <2>4, <5>1
          <5>3. QED
            BY <4>1, <4>2, <5>2 DEF First
        <4>3. QED
          BY <4>2 DEF First
      <3>2. ASSUME NEW t \in T, t \notin children PROVE First(h, T, t)
        <4>1. \A e \in h.edges : e.src \in T /\ e.dst = t => image[e.src] = image[e.dst]
          BY <2>5
        <4>2. QED
          BY <2>4, <3>2, <4>1 DEF First
      <3>3. QED
        BY <3>1, <3>2
    <2> HIDE DEF image
    <2>6. Closed(h) /\ NoLoop(h)
      <3>1. \A e \in h.edges : /\ e.src \in Nodes(h) /\ e.dst \in Nodes(h)
                               /\ image[e.src] = image[e.dst] \/ Wire(g, image[e.src], image[e.dst])
        <4>1. \A x, y \in children : image[x] = image[y]
          BY <1>13 DEF image
        <4>2. QED
          BY <2>4, <4>1
      <3>2. QED
        BY <2>1, <2>3, <2>5, <3>1, Projection
    <2>7. QED
      BY <1>12, <2>6, SoundMeans DEF Shape
  <1>16. \A x \in Nodes(h) : Is(h, x, "group") => x \in Nodes(g) /\ h.nodes[x] = g.nodes[x]
    BY <1>3, <1>13 DEF Is
  <1>17. Nodes(h) # {}
    BY <1>5, <1>13
  <1>21. Replaces(g, h, n, W, children, E)
    <2>1. Minus(g, {n}).edges = {e \in g.edges : e.src # n /\ e.dst # n}
      BY MinusIs
    <2>2. \A x \in children : h.nodes[x].kind # "group"
      BY <1>3, <1>13
    <2>3. children # {}
      BY <1>5
    <2> HIDE DEF children, E, W
    <2>4. QED
      BY <1>7, <1>12, <1>13, <2>1, <2>2, <2>3 DEF Replaces
  <1>14. Ids(h) /\ (NoEncoderIds(g) => NoEncoderIds(h))
    <2> HIDE DEF children, E, W
    <2>1. QED
      BY <1>6, <1>21, ReplacesIds
  <1>22. \A x \in children : ~TakesNothing(h, x) /\ ~Guardrail(h, x)
    <2> SUFFICES ASSUME NEW x \in children PROVE ~TakesNothing(h, x) /\ ~Guardrail(h, x)
      OBVIOUS
    <2>1. /\ x \in Nodes(h) /\ Expanded(x)
          /\ \/ h.nodes[x].kind = "snippet"
             \/ h.nodes[x].kind = "operator" /\ h.nodes[x].name # "dorian.io.dataset"
      BY <1>3, <1>13, <1>19
    <2>2. QED
      BY <2>1, TakingIs DEF Is
  <1>23. Wired(g, h, n)
    <2>1. ~Is(g, n, "parameter")
      BY DEF Is
    <2> HIDE DEF children, E, W
    <2>2. QED
      BY <1>6, <1>20, <1>21, <1>22, <2>1, ReplacedWires
  <1>18. QED
    BY <1>12, <1>14, <1>15, <1>16, <1>17, <1>23 DEF Kept, h

\* The ids of a pipeline that has not been expanded: those of the canvas, and those that the
\* rewrites give out.
Given(x) ==
  /\ x \in Seq(Parts)
  /\ \/ Len(x) = 1 /\ Untagged(x[1])
     \/ /\ Len(x) = 2 /\ x[2] \notin EncoderTags
        /\ x[1] \in {"guard", "preprocessor", "random_state", "fix"}
     \/ Len(x) = 2 /\ Untagged(x[1]) /\ x[2] \in {"dense", "label_encoder"}
     \/ /\ Len(x) = 3 /\ x[1] \in {"token", "handle_unknown"}
        /\ \A i \in 2..3 : x[i] \notin EncoderTags

\* A graph without loops, whose dangling edges are those at the nodes D.
NearlySound(g, D) == NoLoop(g) /\ \A e \in Dangling(g) : {e.src, e.dst} \cap D # {}

\* A sound pipeline is one, and it is sound when D is empty.
LEMMA NearlySoundIs ==
  ASSUME NEW g, Shape(g), NEW D
  PROVE  (Sound(g) => NearlySound(g, D)) /\ (D = {} /\ NearlySound(g, D) => Sound(g))
  BY SoundMeans DEF NearlySound, Shape, Closed, Dangling

\* What the engine makes of a pipeline: it has no groups, one parameter more, and no edge
\* dangles but those at the groups.
LEMMA AddedInEngine ==
  ASSUME NEW g, Shape(g), NEW matches \in SUBSET (Nodes(g) \ Groups(g)), NEW param, NEW value,
         <<"fix", param>> \notin Nodes(g)
  PROVE  LET p == <<"fix", param>>
             h == AddInEngine(g, matches, param, value)
         IN  /\ Shape(h) /\ Nodes(h) = (Nodes(g) \ Groups(g)) \cup {p}
             /\ \A x \in Nodes(h) : ~Is(h, x, "group")
             /\ Sound(g) => NearlySound(h, Groups(g))
  <1> DEFINE p == <<"fix", param>>
             node == Parameter(param, "str", value)
             E == {Edge(p, n, param, 0) : n \in matches}
             k == WithoutGroups(g)
             h == AddInEngine(g, matches, param, value)
  <1>1. /\ DOMAIN k = {"nodes", "edges"} /\ k.edges = g.edges
        /\ Nodes(k) = Nodes(g) \ Groups(g)
        /\ \A x \in Nodes(k) : k.nodes[x] = g.nodes[x]
    BY DEF WithoutGroups, Nodes
  <1> HIDE DEF k
  <1>2. IsFiniteSet(Nodes(k))
    BY <1>1, FS_Subset DEF Shape
  <1>3. Shape(k)
    BY <1>1, <1>2 DEF Shape
  <1>4. "kind" \in DOMAIN node /\ node.kind = "parameter" /\ \A e \in E : IsEdge(e)
    BY NodeIs, EdgeIs
  <1>5. h = Plus(k, At(p, node), E)
    BY DEF AddInEngine, k
  <1> HIDE DEF node, E, h, p
  <1>6. /\ Shape(h) /\ Nodes(h) = Nodes(k) \cup {p} /\ h.edges = g.edges \cup E
        /\ h.nodes[p] = node /\ \A x \in Nodes(k) \ {p} : h.nodes[x] = k.nodes[x]
    BY <1>1, <1>3, <1>4, <1>5, PlusOne
  <1>7. \A x \in Nodes(h) : ~Is(h, x, "group")
    BY <1>1, <1>4, <1>6 DEF Is, Groups
  <1>8. p \notin Nodes(g)
    BY DEF p
  <1>9. \A e \in E : e.src = p /\ e.dst \in matches
    BY EdgeIs DEF E
  <1>10. ASSUME Closed(g), NoLoop(g) PROVE NoLoop(h)
    <2> SUFFICES ASSUME NEW S \in SUBSET Nodes(h), S # {} PROVE \E n \in S : First(h, S, n)
      BY DEF NoLoop
    <2>1. CASE p \in S
      <3>1. First(h, S, p)
        BY <1>6, <1>8, <1>9, <1>10 DEF First, Closed
      <3>2. QED
        BY <2>1, <3>1
    <2>2. CASE p \notin S
      <3>1. S \in SUBSET Nodes(g)
        BY <1>1, <1>6, <2>2
      <3>2. PICK n \in S : First(g, S, n)
        BY <1>10, <3>1 DEF NoLoop
      <3>3. First(h, S, n)
        BY <1>6, <1>9, <2>2, <3>2 DEF First
      <3>4. QED
        BY <3>3
    <2>3. QED
      BY <2>1, <2>2
  <1>11. ASSUME Closed(g), NEW e \in Dangling(h) PROVE {e.src, e.dst} \cap Groups(g) # {}
    <2>1. e \in g.edges
      BY <1>1, <1>6, <1>9, <1>11 DEF Dangling
    <2>2. QED
      BY <1>1, <1>6, <1>11, <2>1 DEF Dangling, Closed
  <1>12. Sound(g) => NearlySound(h, Groups(g))
    BY <1>10, <1>11, SoundMeans DEF NearlySound, Shape
  <1>13. QED
    BY <1>1, <1>6, <1>7, <1>12 DEF h, p

Unexpanded == {"canvas", "rewriting", "rewritten", "parse"}
Validated == {"dataset", "state", "encoding", "compound", "printout",
              "post_expansion_validation", "vault", "guards", "ready"}

\* While a mitigation rewrites the pipeline: the ids that its remaining matches will give
\* out are free, and what it has inserted is no match.
Rewriting ==
  /\ rule \in Mitigations /\ rule[1] \in Rewrites
  /\ \A x \in Nodes(graph) : Given(x)
  /\ \A m \in Nodes(canvas) \ processed : Made(m[1]) \cap Nodes(graph) = {}
  /\ \A x \in Nodes(graph) \ Nodes(canvas) :
        Is(graph, x, "operator") => ~Begins(graph.nodes[x].name, rule[2])

PreparationInv ==
  /\ canvas \in Canvases
  /\ Shape(graph) /\ Ids(graph)
  /\ stage \in Validated => Sound(graph)
  /\ Sound(canvas) => NearlySound(graph, Dropped)
  /\ stage \in Validated => Nodes(graph) # {}
  /\ stage \in Unexpanded =>
       \A n \in Nodes(graph) :
         Is(graph, n, "group")
           => n \in Nodes(canvas) /\ graph.nodes[n] = canvas.nodes[n] /\ n \notin Dropped
  /\ stage \in Unexpanded \cup {"validation", "dataset", "state"} => NoEncoderIds(graph)
  /\ stage = "encoding" => Encodes(graph) \/ NoEncoderIds(graph)
  /\ stage = "canvas" => graph = canvas
  /\ stage = "rewriting" => Rewriting

\* Tags are parts of ids.
LEMMA TagsInParts == \A t \in Tags : t \in Parts
  BY DEF Parts

\* An id of the canvas is no tag.
LEMMA UntaggedIs ==
  ASSUME NEW s, Untagged(s)
  PROVE  s \in Parts /\ s \notin Tags /\ s \notin EncoderTags
  BY DEF Untagged, Parts, Tags, EncoderTags

\* An id of three parts.
LEMMA TripleIs ==
  ASSUME NEW t \in Parts, NEW u \in Parts, NEW v \in Parts
  PROVE  /\ <<t, u, v>> \in Seq(Parts) /\ Len(<<t, u, v>>) = 3
         /\ <<t, u, v>>[1] = t /\ <<t, u, v>>[2] = u /\ <<t, u, v>>[3] = v
  OBVIOUS

\* What a rewrite gives out is an id of a pipeline that has not been expanded.
LEMMA MadeGiven ==
  ASSUME NEW s, Untagged(s)
  PROVE  \A x \in Made(s) : Given(x) /\ Len(x) > 1
  <1>1. s \in Parts /\ s \notin EncoderTags
    BY UntaggedIs
  <1>2. \A t \in {"guard", "preprocessor", "random_state"} : Given(<<t, s>>) /\ Len(<<t, s>>) > 1
    <2> SUFFICES ASSUME NEW t \in {"guard", "preprocessor", "random_state"}
                 PROVE  Given(<<t, s>>) /\ Len(<<t, s>>) > 1
      OBVIOUS
    <2>1. t \in Parts
      BY TagsInParts DEF Tags
    <2>2. <<t, s>> \in Seq(Parts) /\ Len(<<t, s>>) = 2 /\ <<t, s>>[1] = t /\ <<t, s>>[2] = s
      BY <1>1, <2>1, PairIs
    <2> DEFINE x == <<t, s>>
    <2> HIDE DEF x
    <2>3. x \in Seq(Parts) /\ Len(x) = 2 /\ x[1] = t /\ x[2] = s
      BY <2>2 DEF x
    <2>4. Given(x) /\ Len(x) > 1
      BY <1>1, <2>3 DEF Given
    <2>5. QED
      BY <2>4 DEF x
  <1>3. \A t \in {"dense", "label_encoder"} : Given(<<s, t>>) /\ Len(<<s, t>>) > 1
    <2> SUFFICES ASSUME NEW t \in {"dense", "label_encoder"}
                 PROVE  Given(<<s, t>>) /\ Len(<<s, t>>) > 1
      OBVIOUS
    <2>1. t \in Parts
      BY TagsInParts DEF Tags
    <2>2. <<s, t>> \in Seq(Parts) /\ Len(<<s, t>>) = 2 /\ <<s, t>>[1] = s /\ <<s, t>>[2] = t
      BY <1>1, <2>1, PairIs
    <2> DEFINE x == <<s, t>>
    <2> HIDE DEF x
    <2>3. x \in Seq(Parts) /\ Len(x) = 2 /\ x[1] = s /\ x[2] = t
      BY <2>2 DEF x
    <2>4. Given(x) /\ Len(x) > 1
      BY <2>3 DEF Given
    <2>5. QED
      BY <2>4 DEF x
  <1>4. \A t \in {"token", "handle_unknown"} : \A u \in {"guard", "preprocessor"} :
           Given(<<t, u, s>>) /\ Len(<<t, u, s>>) > 1
    <2> SUFFICES ASSUME NEW t \in {"token", "handle_unknown"}, NEW u \in {"guard", "preprocessor"}
                 PROVE  Given(<<t, u, s>>) /\ Len(<<t, u, s>>) > 1
      OBVIOUS
    <2>1. t \in Parts /\ u \in Parts /\ u \notin EncoderTags
      BY TagsInParts DEF Tags, EncoderTags
    <2>2. /\ <<t, u, s>> \in Seq(Parts) /\ Len(<<t, u, s>>) = 3
          /\ <<t, u, s>>[1] = t /\ <<t, u, s>>[2] = u /\ <<t, u, s>>[3] = s
      BY <1>1, <2>1, TripleIs
    <2> DEFINE x == <<t, u, s>>
    <2> HIDE DEF x
    <2>3. x \in Seq(Parts) /\ Len(x) = 3 /\ x[1] = t /\ x[2] = u /\ x[3] = s
      BY <2>2 DEF x
    <2>4. \A i \in 2..3 : i = 2 \/ i = 3
      OBVIOUS
    <2>5. Given(x) /\ Len(x) > 1
      BY <1>1, <2>1, <2>3, <2>4 DEF Given
    <2>6. QED
      BY <2>5 DEF x
  <1>5. QED
    BY <1>2, <1>3, <1>4 DEF Made

\* Two nodes of the canvas get different ids.
LEMMA MadeApart ==
  ASSUME NEW s, NEW t, Untagged(s), Untagged(t), s # t
  PROVE  Made(s) \cap Made(t) = {}
  <1>1. \A u \in Tags : u # s /\ u # t
    BY UntaggedIs
  <1>2. QED
    BY <1>1 DEF Made, Tags

\* Such ids obey the rule of the ids, and none is of an encoder.
LEMMA GivenIds ==
  ASSUME NEW g, \A x \in Nodes(g) : Given(x)
  PROVE  Ids(g) /\ NoEncoderIds(g)
  <1>1. \A x \in Nodes(g) : x \in Seq(Parts) /\ Len(x) \in 1..3
    BY DEF Given
  <1>2. ASSUME NEW x \in Nodes(g), NEW y \in Nodes(g), Extends(y, x)
        PROVE  y[Len(x) + 1] \in SideTags
    <2>1. Given(x) /\ Given(y) /\ Len(x) < Len(y) /\ y[1] = x[1]
      BY <1>1, <1>2 DEF Extends
    <2>7. (Len(x) = 1 /\ (Len(y) = 2 \/ Len(y) = 3)) \/ (Len(x) = 2 /\ Len(y) = 3)
      <3>1. Len(x) \in 1..3 /\ Len(y) \in 1..3
        BY <1>1
      <3> DEFINE a == Len(x)
                 b == Len(y)
      <3>2. a \in 1..3 /\ b \in 1..3 /\ a < b
        BY <2>1, <3>1
      <3> HIDE DEF a, b
      <3>3. (a = 1 /\ (b = 2 \/ b = 3)) \/ (a = 2 /\ b = 3)
        BY <3>2
      <3>4. QED
        BY <3>3 DEF a, b
    <2>2. \A u \in {"guard", "preprocessor", "random_state", "fix", "token",
                    "handle_unknown"} : ~Untagged(u)
      BY DEF Untagged, Tags
    <2>3. CASE Len(x) = 1
      <3>1. Untagged(x[1])
        BY <2>1, <2>3 DEF Given
      <3>4. y[1] \notin {"guard", "preprocessor", "random_state", "fix", "token",
                         "handle_unknown"}
        <4> DEFINE t == x[1]
        <4>1. Untagged(t) /\ y[1] = t
          BY <2>1, <3>1
        <4> HIDE DEF t
        <4>2. QED
          BY <2>2, <4>1
      <3>2. Len(y) = 2 /\ y[2] \in {"dense", "label_encoder"}
        <4>1. Given(y) /\ Len(y) # 1
          BY <2>1, <2>3, <2>7
        <4>2. \/ Len(y) = 1 \/ y[1] \in {"guard", "preprocessor", "random_state", "fix"}
              \/ Len(y) = 2 /\ y[2] \in {"dense", "label_encoder"}
              \/ y[1] \in {"token", "handle_unknown"}
          BY <4>1 DEF Given
        <4>3. QED
          BY <3>4, <4>1, <4>2
      <3>3. QED
        BY <2>3, <3>2 DEF SideTags
    <2>4. CASE Len(x) = 2
      <3>1. Len(y) = 3 /\ y[1] \in {"token", "handle_unknown"}
        <4>1. Given(y) /\ Len(y) = 3
          BY <2>1, <2>4, <2>7
        <4>2. QED
          BY <4>1 DEF Given
      <3>2. x[1] \in {"guard", "preprocessor", "random_state", "fix"} \/ Untagged(x[1])
        BY <2>1, <2>4 DEF Given
      <3>3. QED
        BY <2>1, <2>2, <3>1, <3>2
    <2>5. QED
      BY <2>3, <2>4, <2>7
  <1>3. ASSUME NEW y \in Nodes(g), NEW i \in 2..Len(y) PROVE y[i] \notin EncoderTags
    <2>1. Given(y) /\ Len(y) \in 1..3
      BY <1>1
    <2>2. CASE Len(y) = 1
      BY <2>2
    <2>3. CASE Len(y) = 2
      <3>1. i = 2
        BY <2>3
      <3>2. QED
        BY <2>1, <2>3, <3>1 DEF Given, EncoderTags
    <2>4. CASE Len(y) = 3
      <3>1. i \in 2..3
        BY <2>4
      <3>2. QED
        BY <2>1, <2>4, <3>1 DEF Given
    <2>5. QED
      BY <2>1, <2>2, <2>3, <2>4
  <1>4. Ids(g)
    <2>1. \A k \in 1..3 : k > 0
      OBVIOUS
    <2>2. QED
      BY <1>1, <1>2, <2>1 DEF Ids
  <1>5. QED
    BY <1>3, <1>4 DEF NoEncoderIds

\* What a drawn pipeline is.
LEMMA DrawnIs ==
  ASSUME NEW g, WellDrawn(g)
  PROVE  /\ Shape(g)
         /\ \A n \in Nodes(g) : /\ n = <<n[1]>> /\ Untagged(n[1]) /\ Len(n) = 1 /\ Given(n)
                                /\ Is(g, n, "group") => WellBuilt(n, g.nodes[n])
  <1>1. Shape(g)
    BY DEF WellDrawn, Shape, IsEdge
  <1>2. ASSUME NEW n \in Nodes(g)
        PROVE  n = <<n[1]>> /\ Untagged(n[1]) /\ Len(n) = 1 /\ Given(n)
    <2>1. n = <<n[1]>> /\ Untagged(n[1])
      BY DEF WellDrawn
    <2>2. n[1] \in Parts
      BY <2>1, UntaggedIs
    <2> DEFINE s == n[1]
    <2>3. <<s>> \in Seq(Parts) /\ Len(<<s>>) = 1
      BY <2>2, SingletonIs
    <2>4. n \in Seq(Parts) /\ Len(n) = 1
      BY <2>1, <2>3
    <2>5. QED
      BY <2>1, <2>4 DEF Given
  <1>3. QED
    BY <1>1, <1>2 DEF WellDrawn

\* The canvas has the shape and the ids that the invariant asks for.
LEMMA CanvasGiven ==
  ASSUME canvas \in Canvases
  PROVE  /\ Shape(canvas) /\ Ids(canvas) /\ NoEncoderIds(canvas)
         /\ \A n \in Nodes(canvas) : /\ n = <<n[1]>> /\ Untagged(n[1]) /\ Len(n) = 1 /\ Given(n)
                                     /\ Is(canvas, n, "group") => WellBuilt(n, canvas.nodes[n])
  BY DrawnIs, GivenIds, ConstantsAssumption

\* Every initial state satisfies the invariant.
LEMMA InvInit == Init => PreparationInv
  <1> SUFFICES ASSUME Init PROVE PreparationInv
    OBVIOUS
  <1>1. canvas \in Canvases /\ graph = canvas /\ stage = "canvas"
    BY DEF Init
  <1>2. stage \notin Validated /\ stage # "encoding" /\ stage # "rewriting"
    BY <1>1 DEF Validated
  <1>3. Shape(graph) /\ Ids(graph) /\ NoEncoderIds(graph)
    BY <1>1, CanvasGiven
  <1>4. Sound(canvas) => NearlySound(graph, Dropped)
    BY <1>1, <1>3, NearlySoundIs
  <1>5. Dropped = {}
    BY DEF Init, NoRule, AddOnly, Dropped
  <1>6. QED
    BY <1>1, <1>2, <1>3, <1>4, <1>5 DEF PreparationInv, Is

\* A step that leaves the graph alone.
LEMMA StageEntered ==
  ASSUME PreparationInv, UNCHANGED <<canvas, graph, rule>>,
         stage' \in Validated => Sound(graph) /\ Nodes(graph) # {},
         stage' \in Unexpanded => stage \in Unexpanded,
         stage' \in Unexpanded \cup {"validation", "dataset", "state"}
           => stage \in Unexpanded \cup {"validation", "dataset", "state"},
         stage' = "encoding" => stage \in {"state", "encoding"},
         stage' \notin {"canvas", "rewriting"}
  PROVE  PreparationInv'
  BY DEF PreparationInv, Is, Dropped

\* A step that makes a sound pipeline of a sound one: the pipeline was validated, or the
\* engine has dropped nothing.
LEMMA StaysNearlySound ==
  ASSUME PreparationInv, Dropped' = Dropped, canvas' = canvas, Shape(graph'),
         Sound(graph) => Sound(graph'), stage \in Validated \/ Dropped = {}
  PROVE  Sound(canvas') => NearlySound(graph', Dropped')
  <1>1. Shape(graph) /\ (stage \in Validated => Sound(graph))
        /\ (Sound(canvas) => NearlySound(graph, Dropped))
    BY DEF PreparationInv
  <1>2. Sound(canvas) => Sound(graph)
    BY <1>1, NearlySoundIs
  <1>3. QED
    BY <1>2, NearlySoundIs

\* A step that expands a node within its stage.
LEMMA NodeExpanded ==
  ASSUME PreparationInv, UNCHANGED <<canvas, stage, rule>>, Kept(graph, graph'),
         stage \notin {"canvas", "rewriting", "encoding"}, stage \in Validated \/ Dropped = {}
  PROVE  PreparationInv'
  <1>1. Dropped' = Dropped
    BY DEF Dropped
  <1>2. Sound(canvas') => NearlySound(graph', Dropped')
    BY <1>1, StaysNearlySound DEF Kept
  <1>3. QED
    BY <1>1, <1>2 DEF PreparationInv, Kept, Is

\* A step that changes nothing preserves it.
LEMMA StutterKeeps ==
  ASSUME PreparationInv, UNCHANGED vars
  PROVE  PreparationInv'
  BY DEF PreparationInv, Rewriting, vars, Is, Dropped

\* The id of a parameter that several operators have in common.
LEMMA FixGiven ==
  ASSUME NEW u \in {"penalty", "class_weight"}
  PROVE  Given(<<"fix", u>>) /\ Len(<<"fix", u>>) = 2
  <1> DEFINE t == "fix"
             p == <<t, u>>
  <1>1. t \in Parts /\ u \in Parts
    BY DEF Parts, Tags, Appended
  <1>2. u \notin EncoderTags /\ t = "fix"
    BY DEF EncoderTags
  <1> HIDE DEF t
  <1>3. p \in Seq(Parts) /\ Len(p) = 2 /\ p[1] = t /\ p[2] = u
    BY <1>1, PairIs
  <1> HIDE DEF p
  <1>4. Given(p) /\ Len(p) = 2
    BY <1>2, <1>3 DEF Given
  <1>5. QED
    BY <1>4 DEF p, t

\* A mitigation that is accepted: what is drawn has none of the ids of a rewrite.
LEMMA AcceptKeeps ==
  ASSUME PreparationInv, Accept
  PROVE  PreparationInv'
  <1>1. PICK m \in Mitigations :
          /\ rule' = m
          /\ IF m[1] = Fix
             THEN /\ graph' \in ChangeParameter(graph, m[2], "penalty", "l2")
                  /\ Enter("rewritten")
             ELSE IF m[1] \in AddOnly
             THEN /\ graph' = AddInEngine(graph, Named(m[2]), "class_weight", "balanced")
                  /\ Enter("rewritten")
             ELSE Enter("rewriting") /\ UNCHANGED graph
    BY DEF Accept
  <1>2. stage = "canvas" /\ canvas' = canvas /\ graph = canvas /\ canvas \in Canvases
    BY DEF Accept, PreparationInv
  <1>3. /\ Shape(graph)
        /\ \A n \in Nodes(graph) : /\ n = <<n[1]>> /\ Untagged(n[1]) /\ Len(n) = 1 /\ Given(n)
    BY <1>2, CanvasGiven
  <1>4. CASE m[1] = Fix
    <2> DEFINE p == <<"fix", "penalty">>
    <2>1. p \notin Nodes(graph) /\ Given(p)
      BY <1>3, FixGiven
    <2>2. Outcome(graph, graph', {p}, {})
      BY <1>1, <1>3, <1>4, <2>1, ParameterChanged
    <2>3. Shape(graph') /\ \A x \in Nodes(graph') : Given(x)
      BY <1>3, <2>1, <2>2 DEF Outcome
    <2>4. Ids(graph') /\ NoEncoderIds(graph')
      BY <2>3, GivenIds
    <2>5. stage' = "rewritten"
      BY <1>1, <1>4 DEF Enter
    <2>6. Dropped' = {}
      BY <1>1, <1>4 DEF Dropped, AddOnly, Fix
    <2>7. Sound(canvas') => NearlySound(graph', Dropped')
      BY <1>2, <2>2, <2>3, NearlySoundIs DEF Outcome
    <2>8. \A x \in Nodes(graph') :
             Is(graph', x, "group")
               => x \in Nodes(canvas') /\ graph'.nodes[x] = canvas'.nodes[x] /\ x \notin Dropped'
      BY <1>2, <2>2, <2>6 DEF Outcome
    <2>9. QED
      BY <1>2, <2>3, <2>4, <2>5, <2>7, <2>8 DEF PreparationInv, Validated
  <1>5. CASE m[1] # Fix /\ m[1] \in AddOnly
    <2> DEFINE p == <<"fix", "class_weight">>
    <2>1. p \notin Nodes(graph) /\ Given(p)
      BY <1>3, FixGiven
    <2>2. Named(m[2]) \in SUBSET (Nodes(graph) \ Groups(graph))
      BY DEF Named, Groups
    <2>3. graph' = AddInEngine(graph, Named(m[2]), "class_weight", "balanced") /\ stage' = "rewritten"
      BY <1>1, <1>5 DEF Enter
    <2>4. /\ Shape(graph') /\ Nodes(graph') = (Nodes(graph) \ Groups(graph)) \cup {p}
          /\ \A x \in Nodes(graph') : ~Is(graph', x, "group")
          /\ Sound(graph) => NearlySound(graph', Groups(graph))
      <3> DEFINE M == Named(m[2])
      <3> HIDE DEF M
      <3>1. QED
        BY <1>3, <2>1, <2>2, <2>3, AddedInEngine DEF M
    <2>5. Ids(graph') /\ NoEncoderIds(graph')
      BY <1>3, <2>1, <2>4, GivenIds
    <2>6. Dropped' = Groups(graph)
      BY <1>1, <1>2, <1>5 DEF Dropped
    <2>7. QED
      BY <1>2, <2>3, <2>4, <2>5, <2>6 DEF PreparationInv, Validated
  <1>6. CASE m[1] # Fix /\ m[1] \notin AddOnly
    <2>1. graph' = graph /\ stage' = "rewriting" /\ processed' = {}
      BY <1>1, <1>6 DEF Enter
    <2>2. rule' \in Mitigations /\ rule'[1] \in Rewrites
      BY <1>1, <1>6, ConstantsAssumption
    <2>3. ASSUME NEW n \in Nodes(canvas) PROVE Made(n[1]) \cap Nodes(graph) = {}
      <3>1. \A x \in Made(n[1]) : Len(x) > 1
        BY <1>2, <1>3, MadeGiven
      <3>2. ASSUME NEW x \in Nodes(graph), x \in Made(n[1]) PROVE FALSE
        <4> DEFINE a == Len(x)
        <4>1. a = 1 /\ a > 1
          BY <1>3, <3>1, <3>2
        <4> HIDE DEF a
        <4>2. QED
          BY <4>1
      <3>3. QED
        BY <3>2
    <2>4. Rewriting'
      BY <1>2, <1>3, <2>1, <2>2, <2>3 DEF Rewriting
    <2>5. Dropped' = {}
      BY <1>1, <1>6 DEF Dropped
    <2>6. Sound(canvas') => NearlySound(graph', Dropped')
      BY <1>2, <1>3, <2>1, NearlySoundIs
    <2>7. QED
      BY <1>2, <2>1, <2>4, <2>5, <2>6 DEF PreparationInv, Unexpanded, Validated, Is
  <1>7. QED
    BY <1>4, <1>5, <1>6

\* What a rewrite of a match is.
LEMMA MatchIs ==
  ASSUME PreparationInv, stage = "rewriting", NEW n \in Named(rule[2]) \ processed
  PROVE  /\ Matched(graph, n) /\ Is(graph, n, "operator") /\ n \in Nodes(canvas)
         /\ Rewriting /\ \A i \in Inserts(rule[1]) : ~Begins(i, rule[2])
  <1>1. Rewriting /\ canvas \in Canvases /\ Shape(graph)
    BY DEF PreparationInv
  <1>2. Is(graph, n, "operator") /\ Begins(graph.nodes[n].name, rule[2]) /\ n \in Nodes(graph)
    BY DEF Named, Is
  <1>3. n \in Nodes(canvas)
    BY <1>1, <1>2 DEF Rewriting
  <1>4. Matched(graph, n)
    BY <1>1, <1>2, <1>3, CanvasGiven DEF Rewriting, Matched
  <1>5. rule = <<rule[1], rule[2]>> /\ rule \in Mitigations /\ rule[1] \in Rewrites
    BY <1>1, ConstantsAssumption DEF Rewriting
  <1>6. \A i \in Inserts(rule[1]) : ~Begins(i, rule[2])
    <2> DEFINE a == rule[1]
               b == rule[2]
    <2>1. <<a, b>> \in Mitigations /\ a \in Rewrites
      BY <1>5
    <2> HIDE DEF a, b
    <2>2. \A i \in Inserts(a) : ~Begins(i, b)
      <3>1. /\ a = "insert-ordinal-encoder-before" => ~Begins("OrdinalEncoder", b)
            /\ a = "resampling" => ~Begins("SMOTE", b)
            /\ a \in {"output-guardrail", "input-guardrail"} => ~Begins("ToxicityGuard", b)
        BY <2>1, ConstantsAssumption
      <3>2. QED
        BY <2>1, <3>1 DEF Inserts
    <2>3. QED
      BY <2>2 DEF a, b
  <1>7. QED
    BY <1>1, <1>2, <1>3, <1>4, <1>6

\* What a rewrite adds, at most, and that what it adds is no match.
LEMMA RewriteIs ==
  ASSUME PreparationInv, Rewrite
  PROVE  \E n \in Named(rule[2]) \ processed :
           /\ processed' = processed \cup {n}
           /\ \E names : Outcome(graph, graph', Made(n[1]), names)
           /\ \A x \in Nodes(graph') \ Nodes(canvas) :
                Is(graph', x, "operator") => ~Begins(graph'.nodes[x].name, rule[2])
  <1>1. PICK n \in Named(rule[2]) \ processed : /\ processed' = processed \cup {n}
                                                /\ graph' \in Apply(rule[1], graph, n)
    BY DEF Rewrite
  <1>2. stage = "rewriting"
    BY DEF Rewrite
  <1>3. /\ Matched(graph, n) /\ Is(graph, n, "operator") /\ n \in Nodes(canvas)
        /\ Rewriting /\ \A i \in Inserts(rule[1]) : ~Begins(i, rule[2])
    BY <1>2, MatchIs
  <1>4. \A x \in Nodes(graph) \ Nodes(canvas) :
          Is(graph, x, "operator") => ~Begins(graph.nodes[x].name, rule[2])
    BY <1>3 DEF Rewriting
  <1>5. CASE rule[1] = "robust-scaling"
    <2>1. graph' = ReplaceNode(graph, n, "RobustScaler")
      BY <1>1, <1>5 DEF Apply
    <2>2. Shape(graph)
      BY <1>3 DEF Matched
    <2> DEFINE names == {graph'.nodes[n].name}
    <2>3. /\ Outcome(graph, graph', {}, names)
          /\ Nodes(graph') = Nodes(graph)
          /\ \A x \in Nodes(graph) \ {n} : graph'.nodes[x] = graph.nodes[x]
      BY <1>3, <2>1, <2>2, NodeReplaced
    <2> HIDE DEF names
    <2>4. Outcome(graph, graph', Made(n[1]), names)
      BY <2>3, OutcomeWider
    <2>5. \A x \in Nodes(graph') \ Nodes(canvas) :
             Is(graph', x, "operator") => ~Begins(graph'.nodes[x].name, rule[2])
      BY <1>3, <1>4, <2>3 DEF Is
    <2>6. QED
      BY <1>1, <2>4, <2>5
  <1>6. CASE rule[1] # "robust-scaling"
    <2>1. rule[1] \in Rewrites
      BY <1>3 DEF Rewriting
    <2>2. Outcome(graph, graph', Made(n[1]), Inserts(rule[1]))
      BY <1>1, <1>3, <1>6, <2>1, Applied
    <2>3. \A x \in Nodes(graph') \ Nodes(canvas) :
             Is(graph', x, "operator") => ~Begins(graph'.nodes[x].name, rule[2])
      <3> SUFFICES ASSUME NEW x \in Nodes(graph') \ Nodes(canvas), Is(graph', x, "operator")
                   PROVE  ~Begins(graph'.nodes[x].name, rule[2])
        OBVIOUS
      <3>1. \/ graph'.nodes[x].name \in Inserts(rule[1])
            \/ x \in Nodes(graph) /\ graph'.nodes[x] = graph.nodes[x]
        BY <2>2 DEF Outcome
      <3>2. QED
        BY <1>3, <1>4, <3>1 DEF Is
    <2>4. QED
      BY <1>1, <2>2, <2>3
  <1>7. QED
    BY <1>5, <1>6

\* A rewrite uses up a node of the canvas, and leaves the others their ids.
LEMMA RewriteKeeps ==
  ASSUME PreparationInv, Rewrite
  PROVE  PreparationInv'
  <1> DEFINE Done(n, names) ==
               /\ processed' = processed \cup {n}
               /\ Outcome(graph, graph', Made(n[1]), names)
               /\ \A x \in Nodes(graph') \ Nodes(canvas) :
                    Is(graph', x, "operator") => ~Begins(graph'.nodes[x].name, rule[2])
  <1>0. PICK n \in Named(rule[2]) \ processed : \E names : Done(n, names)
    BY RewriteIs
  <1>1. PICK names : Done(n, names)
    BY <1>0
  <1>2. stage = "rewriting" /\ UNCHANGED <<canvas, rule, stage>> /\ canvas \in Canvases
    BY DEF Rewrite, PreparationInv
  <1>3. n \in Nodes(canvas) /\ Untagged(n[1]) /\ Rewriting
    BY <1>2, MatchIs DEF Matched
  <1>4. \A x \in Nodes(graph') : Given(x)
    <2>1. \A x \in Made(n[1]) : Given(x)
      BY <1>3, MadeGiven
    <2>2. QED
      BY <1>1, <1>3, <2>1 DEF Outcome, Rewriting
  <1>5. Shape(graph') /\ Ids(graph') /\ NoEncoderIds(graph')
    BY <1>1, <1>4, GivenIds DEF Outcome
  <1>6. ASSUME NEW m \in Nodes(canvas) \ (processed \cup {n})
        PROVE  Made(m[1]) \cap Nodes(graph') = {}
    <2>1. m = <<m[1]>> /\ n = <<n[1]>> /\ Untagged(m[1])
      BY <1>2, <1>3, CanvasGiven
    <2>2. m[1] # n[1]
      BY <2>1
    <2>3. Made(m[1]) \cap Made(n[1]) = {}
      BY <1>3, <2>1, <2>2, MadeApart
    <2>4. Made(m[1]) \cap Nodes(graph) = {}
      BY <1>3 DEF Rewriting
    <2>5. QED
      BY <1>1, <2>3, <2>4 DEF Outcome
  <1>7. Rewriting'
    BY <1>1, <1>2, <1>3, <1>4, <1>6 DEF Rewriting
  <1>8. Dropped = {} /\ Dropped' = {}
    BY <1>2, <1>3 DEF Dropped, AddOnly, Rewriting, Rewrites
  <1>9. Sound(canvas') => NearlySound(graph', Dropped')
    BY <1>1, <1>2, <1>5, <1>8, StaysNearlySound DEF Outcome
  <1>10. \A x \in Nodes(graph') :
           Is(graph', x, "group")
             => x \in Nodes(canvas) /\ graph'.nodes[x] = canvas.nodes[x] /\ x \notin Dropped'
    <2>1. stage \in Unexpanded
      BY <1>2 DEF Unexpanded
    <2>2. \A x \in Nodes(graph) : Is(graph, x, "group")
                                     => x \in Nodes(canvas) /\ graph.nodes[x] = canvas.nodes[x]
      BY <2>1 DEF PreparationInv
    <2>3. QED
      BY <1>1, <1>8, <2>2 DEF Outcome, Is
  <1>11. QED
    BY <1>2, <1>5, <1>7, <1>9, <1>10 DEF PreparationInv, Validated

\* A group, a dataset, a state parameter, a class or a printout of the pipeline gives way to
\* what it stands for; a state parameter with a key that is not allowed stays.
Unfold == FlattenGroup \/ ExpandADataset \/ ExpandAState \/ ExpandAClass \/ ExpandAPrintout

LEMMA UnfoldIs ==
  ASSUME PreparationInv, Unfold
  PROVE  /\ UNCHANGED <<canvas, rule, stage, submitted>>
         /\ stage \in {"parse", "dataset", "state", "compound", "printout"}
         /\ stage \in Validated \/ Dropped = {}
         /\ \/ graph' = graph
            \/ \E n \in Nodes(graph) : Kept(graph, graph') /\ Wired(graph, graph', n)
  <1>1. /\ Shape(graph) /\ Ids(graph)
        /\ \A n \in Nodes(graph) : "kind" \in DOMAIN graph.nodes[n]
    BY DEF PreparationInv, Shape
  <1>2. \A name \in Platform : \A n \in Named(name) :
          n \in Nodes(graph) /\ Is(graph, n, "operator") /\ graph.nodes[n].name = name
    BY <1>1, ConstantsAssumption DEF Named, Is, Begins
  <1>3. CASE FlattenGroup
    <2>1. PICK n \in Nodes(graph) : graph.nodes[n].kind = "group" /\ graph' = Flatten(graph, n)
      BY <1>3 DEF FlattenGroup
    <2>2. stage = "parse" /\ UNCHANGED <<canvas, rule, stage, submitted>>
      BY <1>3 DEF FlattenGroup
    <2>3. stage \in Unexpanded /\ canvas \in Canvases /\ Is(graph, n, "group")
      BY <1>1, <2>1, <2>2 DEF Unexpanded, PreparationInv, Is
    <2>4. n \in Nodes(canvas) /\ graph.nodes[n] = canvas.nodes[n] /\ n \notin Dropped
      BY <2>3 DEF PreparationInv
    <2>7. Dropped = {}
      BY <2>1, <2>4 DEF Dropped, Groups
    <2>5. n = <<n[1]>> /\ WellBuilt(n, graph.nodes[n])
      BY <2>3, <2>4, CanvasGiven DEF Is
    <2>6. QED
      BY <1>1, <2>1, <2>2, <2>3, <2>5, <2>7, GroupFlattened
  <1>4. CASE ExpandADataset
    <2>1. PICK n \in DatasetRefs : Match("dataset", n, {ExpandDataset(graph, n)})
      BY <1>4 DEF ExpandADataset
    <2>2. n \in Nodes(graph) /\ Is(graph, n, "operator") /\ TakesNothing(graph, n)
      BY <1>2 DEF DatasetRefs, TakesNothing, Platform
    <2>3. Kept(graph, ExpandDataset(graph, n)) /\ Wired(graph, ExpandDataset(graph, n), n)
      BY <1>1, <2>2, DatasetExpanded
    <2>4. QED
      BY <2>1, <2>2, <2>3 DEF Match, Validated
  <1>5. CASE ExpandAState
    <2>1. PICK n \in StateRefs : graph' = ExpandState(graph, n)
      BY <1>5 DEF ExpandAState
    <2>2. n \in Nodes(graph) /\ IsState(graph, n)
      BY DEF StateRefs
    <2>3. stage = "state" /\ UNCHANGED <<canvas, rule, stage, submitted>>
      BY <1>5 DEF ExpandAState
    <2>4. QED
      BY <1>1, <2>1, <2>2, <2>3, StateExpanded DEF Validated
  <1>6. CASE ExpandAClass
    <2>1. PICK n \in Classes(graph) \ Unsorted : Match("compound", n, ExpandCompound(graph, n))
      BY <1>6 DEF ExpandAClass
    <2>2. graph' \in ExpandCompound(graph, n) /\ stage = "compound"
          /\ UNCHANGED <<canvas, rule, stage, submitted>>
      BY <2>1 DEF Match
    <2>3. QED
      BY <1>1, <2>2, ClassExpanded DEF Validated
  <1>7. CASE ExpandAPrintout
    <2>1. PICK n \in Named("dorian.io.printout") : Match("printout", n, {ExpandPrintout(graph, n)})
      BY <1>7 DEF ExpandAPrintout
    <2>2. Kept(graph, ExpandPrintout(graph, n)) /\ Wired(graph, ExpandPrintout(graph, n), n)
      BY <1>1, <1>2, PrintoutExpanded DEF Platform
    <2>3. n \in Nodes(graph)
      BY <1>2 DEF Platform
    <2>4. QED
      BY <2>1, <2>2, <2>3 DEF Match, Validated
  <1>8. QED
    BY <1>3, <1>4, <1>5, <1>6, <1>7 DEF Unfold

\* These steps preserve the invariant.
LEMMA UnfoldKeeps ==
  ASSUME PreparationInv, Unfold
  PROVE  PreparationInv'
  <1>1. /\ UNCHANGED <<canvas, rule, stage>>
        /\ stage \notin {"canvas", "rewriting", "encoding"}
        /\ stage \in Validated \/ Dropped = {}
        /\ graph' = graph \/ Kept(graph, graph')
    BY UnfoldIs
  <1>2. CASE graph' = graph
    BY <1>1, <1>2 DEF PreparationInv, Is, Dropped
  <1>3. QED
    BY <1>1, <1>2, NodeExpanded

\* The encoder of a split: no guardrail takes it, and it is inserted or nothing changes.
LEMMA EncodeIs ==
  ASSUME PreparationInv, EncodeASplit
  PROVE  /\ stage = "encoding" /\ UNCHANGED <<canvas, rule, stage, submitted>>
         /\ \/ graph' = graph
            \/ \E n \in Nodes(graph) :
                 /\ ~Guardrail(graph, n)
                 /\ Encodes(graph') /\ Ids(graph')
                 /\ Outcome(graph, graph', {n \o <<t>> : t \in EncoderTags}, AnyName(graph'))
                 /\ Slipped(graph, graph', n, {n \o <<t>> : t \in EncoderTags})
  <1>1. PICK n \in Unencoded : Match("encoding", n, InsertEncoder(graph, n))
    BY DEF EncodeASplit
  <1>2. n \in Nodes(graph) /\ graph.nodes[n].name = "train_test_split"
    BY ConstantsAssumption DEF Unencoded, Named, Begins
  <1>3. stage = "encoding" /\ UNCHANGED <<canvas, rule, stage, submitted>>
        /\ graph' \in InsertEncoder(graph, n)
    BY <1>1 DEF Match
  <1>4. Shape(graph) /\ Ids(graph) /\ (Encodes(graph) \/ NoEncoderIds(graph))
    BY <1>3 DEF PreparationInv
  <1>5. ~Guardrail(graph, n)
    BY <1>2 DEF Guardrail, Interface
  <1>6. QED
    BY <1>2, <1>3, <1>4, <1>5, EncoderInserted

\* An encoder is inserted once, as its ids are free only once.
LEMMA EncodeKeeps ==
  ASSUME PreparationInv, EncodeASplit
  PROVE  PreparationInv'
  <1>1. stage = "encoding" /\ UNCHANGED <<canvas, rule, stage>>
    BY EncodeIs
  <1>2. stage \notin Unexpanded \cup {"validation", "dataset", "state", "canvas", "rewriting"}
    BY <1>1 DEF Unexpanded
  <1>3. Dropped' = Dropped /\ stage \in Validated
    BY <1>1 DEF Dropped, Validated
  <1>4. CASE graph' = graph
    BY <1>1, <1>2, <1>4, <1>3 DEF PreparationInv
  <1>5. ASSUME NEW New, NEW names, Encodes(graph'), Ids(graph'), Outcome(graph, graph', New, names)
        PROVE  PreparationInv'
    <2>1. Sound(canvas') => NearlySound(graph', Dropped')
      BY <1>1, <1>5, <1>3, StaysNearlySound DEF Outcome
    <2>2. QED
      BY <1>1, <1>2, <1>5, <1>3, <2>1 DEF PreparationInv, Outcome
  <1>6. QED
    BY <1>4, <1>5, EncodeIs

\* A pipeline that is not sound, or empty, does not pass _validate_pipeline.
LEMMA ValidateKeeps ==
  ASSUME PreparationInv, ValidateParsed \/ ValidateExpanded
  PROVE  PreparationInv'
  <1>1. CASE ValidateParsed
    <2>1. stage = "validation" /\ UNCHANGED <<canvas, graph, rule>>
      BY <1>1 DEF ValidateParsed, Validate
    <2>2. \/ stage' = "dataset" /\ Nodes(graph) # {} /\ Sound(graph)
          \/ stage' = "failed"
      BY <1>1 DEF ValidateParsed, Validate, Enter, Fail, Valid
    <2>3. QED
      BY <2>1, <2>2, StageEntered DEF Unexpanded, Validated
  <1>2. CASE ValidateExpanded
    <2>1. stage = "post_expansion_validation" /\ UNCHANGED <<canvas, graph, rule>>
      BY <1>2 DEF ValidateExpanded, Validate
    <2>2. stage' = "vault" \/ stage' = "failed"
      BY <1>2 DEF ValidateExpanded, Validate, Enter, Fail
    <2>3. Sound(graph) /\ Nodes(graph) # {}
      BY <2>1 DEF PreparationInv, Validated
    <2>4. QED
      BY <2>1, <2>2, <2>3, StageEntered DEF Unexpanded
  <1>3. QED
    BY <1>1, <1>2

\* Resolving the vault references changes parameters only.
LEMMA VaultKeeps ==
  ASSUME PreparationInv, ResolveVault
  PROVE  PreparationInv'
  <1>1. stage = "vault" /\ UNCHANGED <<canvas, rule>>
    BY DEF ResolveVault
  <1>2. Shape(graph) /\ Ids(graph) /\ Sound(graph) /\ Nodes(graph) # {}
    BY <1>1 DEF PreparationInv, Validated
  <1>3. CASE stage' = "failed" /\ graph' = graph
    BY <1>1, <1>2, <1>3, StageEntered DEF Unexpanded
  <1>4. CASE /\ stage' = "guards"
             /\ graph' = [graph EXCEPT !.nodes =
                  [n \in Nodes(graph) |->
                     IF n \in EnvParams THEN [@[n] EXCEPT !.dtype = "string"] ELSE @[n]]]
    <2>1. \A n \in EnvParams : Is(graph, n, "parameter")
      BY DEF EnvParams
    <2>2. Outcome(graph, graph', {}, {})
      BY <1>2, <1>4, <2>1, VaultResolved
    <2>3. Shape(graph') /\ Nodes(graph') # {} /\ Sound(graph') /\ Nodes(graph') \subseteq Nodes(graph)
      BY <1>2, <2>2 DEF Outcome
    <2>4. Ids(graph')
      BY <1>2, <2>3 DEF Ids
    <2>5. stage' \notin Unexpanded \cup {"validation", "dataset", "state", "encoding"}
      BY <1>4 DEF Unexpanded
    <2>6. stage' # "canvas" /\ stage' # "rewriting" /\ canvas \in Canvases
      BY <1>4 DEF PreparationInv
    <2>7. Dropped' = Dropped /\ stage \in Validated
      BY <1>1 DEF Dropped, Validated
    <2>8. Sound(canvas') => NearlySound(graph', Dropped')
      BY <1>1, <2>3, <2>7, StaysNearlySound
    <2>9. QED
      BY <1>1, <2>3, <2>4, <2>5, <2>6, <2>8 DEF PreparationInv
  <1>5. QED
    BY <1>3, <1>4 DEF ResolveVault, Enter, Fail

\* The steps that only enter the next stage.
LEMMA EntryKeeps ==
  ASSUME PreparationInv,
         \/ StoreRewritten \/ Submit \/ Parsed \/ DatasetsExpanded \/ StatesExpanded
         \/ SplitsEncoded \/ ExpansionRaises \/ ClassesExpanded \/ PrintoutsExpanded \/ Guards
  PROVE  PreparationInv'
  <1>1. UNCHANGED <<canvas, graph, rule>>
    BY DEF StoreRewritten, Submit, Parsed, DatasetsExpanded, StatesExpanded, SplitsEncoded,
           ExpansionRaises, ClassesExpanded, PrintoutsExpanded, Guards, NoMatch
  <1>2. \/ stage = "rewriting" /\ stage' = "rewritten"
        \/ stage \in {"canvas", "rewritten"} /\ stage' = "parse"
        \/ stage = "parse" /\ stage' = "validation"
        \/ stage = "dataset" /\ stage' = "state"
        \/ stage = "state" /\ stage' = "encoding"
        \/ stage = "encoding" /\ stage' = "compound"
        \/ stage = "compound" /\ stage' \in {"printout", "failed"}
        \/ stage = "printout" /\ stage' = "post_expansion_validation"
        \/ stage = "guards" /\ stage' \in {"ready", "failed"}
    BY DEF StoreRewritten, Submit, Parsed, DatasetsExpanded, StatesExpanded, SplitsEncoded,
           ExpansionRaises, ClassesExpanded, PrintoutsExpanded, Guards, NoMatch, Enter, Fail
  <1>3. stage' \in Validated => stage \in Validated
    BY <1>2 DEF Validated
  <1>4. stage' \in Validated => Sound(graph) /\ Nodes(graph) # {}
    BY <1>3 DEF PreparationInv
  <1>5. QED
    BY <1>1, <1>2, <1>4, StageEntered DEF Unexpanded

\* Every step preserves the invariant.
LEMMA InvNext ==
  ASSUME PreparationInv, [Next]_vars
  PROVE  PreparationInv'
  <1>1. CASE Accept
    BY <1>1, AcceptKeeps
  <1>2. CASE Rewrite
    BY <1>2, RewriteKeeps
  <1>3. CASE Unfold
    BY <1>3, UnfoldKeeps
  <1>5. CASE EncodeASplit
    BY <1>5, EncodeKeeps
  <1>6. CASE ValidateParsed \/ ValidateExpanded
    BY <1>6, ValidateKeeps
  <1>7. CASE ResolveVault
    BY <1>7, VaultKeeps
  <1>8. CASE \/ StoreRewritten \/ Submit \/ Parsed \/ DatasetsExpanded \/ StatesExpanded
             \/ SplitsEncoded \/ ExpansionRaises \/ ClassesExpanded \/ PrintoutsExpanded \/ Guards
    BY <1>8, EntryKeeps
  <1>9. CASE UNCHANGED vars
    BY <1>9, StutterKeeps
  <1>10. QED
    BY <1>1, <1>2, <1>3, <1>5, <1>6, <1>7, <1>8, <1>9 DEF Next, Prepare, Unfold

\* The invariant holds of every behaviour (apply_mitigation, run_pipeline steps 1 to 3).
THEOREM PreparationInvariant == Spec => []PreparationInv
  <1>1. Init => PreparationInv
    BY InvInit
  <1>2. PreparationInv /\ [Next]_vars => PreparationInv'
    BY InvNext
  <1>3. QED
    BY <1>1, <1>2, PTL DEF Spec

\* No rewrite and no expansion closes a cycle in a sound pipeline, whatever is drawn, whichever
\* mitigation is accepted and in whatever order the matches of a rule come, and no edge of it
\* dangles but at a group that the engine dropped; past validation no edge dangles at all and
\* nothing waits for itself, up to the execution.
THEOREM SoundTheorem == Spec => []GraphStaysSound
  <1>1. PreparationInv => GraphStaysSound
    <2> SUFFICES ASSUME PreparationInv PROVE GraphStaysSound
      OBVIOUS
    <2>1. IsFiniteSet(Nodes(graph)) /\ (Sound(canvas) => NearlySound(graph, Dropped))
      BY DEF PreparationInv, Shape
    <2>2. Acyclic(graph) <=> NoLoop(graph)
      BY <2>1, AcyclicIsNoLoop
    <2>3. stage \in Validated => Sound(graph)
      BY DEF PreparationInv
    <2>4. QED
      BY <2>1, <2>2, <2>3 DEF GraphStaysSound, NearlySound, Validated
  <1>2. QED
    BY <1>1, PreparationInvariant, PTL

\* What each node of a pipeline takes its arguments from.
Upstream(g) == [n \in Nodes(g) |-> {e.src : e \in Into(g, n)}]

\* A pipeline that a run can walk: there is something to execute, every argument comes from
\* a node of it, and whatever is left has a node that waits for nothing that is left.
Walkable(g) ==
  /\ IsFiniteSet(Nodes(g)) /\ Nodes(g) # {}
  /\ Upstream(g) \in [Nodes(g) -> SUBSET Nodes(g)]
  /\ \A left \in SUBSET Nodes(g) : left # {} => \E n \in left : Upstream(g)[n] \cap left = {}

\* What run_pipeline hands to the executor can be walked to its end: this is what RunLifecycle
\* and the engines take for granted of the pipelines they get.
THEOREM ReadyIsWalkable == Spec => [](stage = "ready" => Walkable(graph))
  <1>1. ASSUME PreparationInv, stage = "ready" PROVE Walkable(graph)
    <2>1. Shape(graph) /\ Sound(graph) /\ Nodes(graph) # {}
      BY <1>1 DEF PreparationInv, Validated
    <2>2. IsFiniteSet(Nodes(graph)) /\ Closed(graph) /\ NoLoop(graph)
      BY <2>1, SoundMeans DEF Shape
    <2>3. Upstream(graph) \in [Nodes(graph) -> SUBSET Nodes(graph)]
      BY <2>2 DEF Upstream, Into, Closed
    <2>4. ASSUME NEW left \in SUBSET Nodes(graph), left # {}
          PROVE  \E n \in left : Upstream(graph)[n] \cap left = {}
      <3>1. PICK n \in left : First(graph, left, n)
        BY <2>2, <2>4 DEF NoLoop
      <3>2. Upstream(graph)[n] \cap left = {}
        BY <3>1 DEF Upstream, Into, First
      <3>3. QED
        BY <3>2
    <2>5. QED
      BY <2>1, <2>2, <2>3, <2>4 DEF Walkable
  <1>2. PreparationInv => (stage = "ready" => Walkable(graph))
    BY <1>1
  <1>3. QED
    BY <1>2, PreparationInvariant, PTL

\* sync_apply rewrites nodes of the canvas only, each at most once, and so comes to an end.
THEOREM RewritingEnds == Spec => [](stage = "rewriting" => processed \subseteq Nodes(canvas))
  <1> DEFINE I == stage = "rewriting" => processed \subseteq Nodes(canvas)
  <1>1. Init => I
    BY DEF Init
  <1>2. ASSUME PreparationInv, I, [Next]_vars PROVE I'
    <2>1. CASE Rewrite
      <3>1. stage = "rewriting" /\ UNCHANGED <<canvas, stage>>
        BY <2>1 DEF Rewrite
      <3>2. PICK n \in Named(rule[2]) \ processed : processed' = processed \cup {n}
        BY <1>2, <2>1, RewriteIs
      <3>3. n \in Nodes(canvas)
        BY <1>2, <3>1, MatchIs
      <3>4. QED
        BY <1>2, <3>1, <3>2, <3>3
    <2>2. CASE Accept
      BY <2>2 DEF Accept, Enter
    <2>3. CASE stage' # "rewriting"
      BY <2>3
    <2>4. CASE UNCHANGED vars
      BY <1>2, <2>4 DEF vars
    <2>5. ASSUME StoreRewritten \/ Submit \/ Prepare PROVE stage' # "rewriting"
      BY <2>5 DEF StoreRewritten, Submit, Prepare, FlattenGroup, Parsed, ValidateParsed, Validate,
         ExpandADataset, DatasetsExpanded, ExpandAState, StatesExpanded, EncodeASplit,
         SplitsEncoded, ExpandAClass, ExpansionRaises, ClassesExpanded, ExpandAPrintout,
         PrintoutsExpanded, ValidateExpanded, ResolveVault, Guards, Match, NoMatch, Enter, Fail
    <2>6. QED
      BY <1>2, <2>1, <2>2, <2>3, <2>4, <2>5 DEF Next
  <1>3. QED
    BY <1>1, <1>2, PreparationInvariant, PTL DEF Spec

(***************************************************************************)
(* The wires of a run.                                                     *)
(***************************************************************************)
\* x has become of e and leads to what can still be e's destination.
Follows(s, g, x, e) ==
  /\ StandsFor(g, x, e)
  /\ x.dst = e.dst \/ x.dst \notin Nodes(s)
  /\ Is(s, e.src, "parameter") => Is(g, x.src, "parameter")

\* What is left of s, the pipeline that was submitted, while g is made of it: the nodes that
\* are still there are as they were and their ids are not given out again, those that were
\* made drop no wire, and a guardrail has no more inputs than it had.
Carried(s, g) ==
  /\ \A y \in Nodes(s) : y \in Seq(Parts)
  /\ NoEncoderIds(s)
  /\ \A x \in Nodes(g), y \in Nodes(s) : Extends(y, x) => y[Len(x) + 1] \in SideTags
  /\ \A x \in Nodes(g) \cap Nodes(s) : g.nodes[x] = s.nodes[x]
  /\ \A x \in Nodes(g) \ Nodes(s) : ~TakesNothing(g, x) /\ ~Guardrail(g, x)
  /\ \A x \in Nodes(g) \cap Nodes(s) : Guardrail(g, x) /\ Single(s, x) => Single(g, x)
  /\ \A e \in s.edges \ Dangling(s) : Unread(s, e) \/ \E x \in g.edges : Follows(s, g, x, e)

\* No id of the pipeline that was submitted is given out again.
LEMMA WordsApart ==
  ASSUME NEW s, NEW g, Carried(s, g), Ids(g), NEW n \in Nodes(g), NEW x \in Seq(Parts),
         Extends(x, n), x[Len(n) + 1] \notin SideTags
  PROVE  /\ x \notin Nodes(s)
         /\ \A y \in Nodes(s) : ~Extends(y, x)
  <1>1. \A y \in Nodes(s) : Extends(y, n) => y[Len(n) + 1] \in SideTags
    BY DEF Carried
  <1>2. ASSUME NEW y \in Nodes(s), Extends(y, x) PROVE FALSE
    <2>1. y \in Seq(Parts) /\ n \in Seq(Parts)
      BY DEF Carried, Ids
    <2>2. Len(y) \in Nat /\ Len(x) \in Nat /\ Len(n) \in Nat
      BY <2>1, LenProperties
    <2>3. /\ Len(n) < Len(x) /\ Len(x) < Len(y)
          /\ \A i \in 1..Len(n) : x[i] = n[i]
          /\ \A i \in 1..Len(x) : y[i] = x[i]
      BY <1>2 DEF Extends
    <2>4. Extends(y, n) /\ y[Len(n) + 1] = x[Len(n) + 1]
      BY <2>2, <2>3 DEF Extends
    <2>5. QED
      BY <1>1, <2>4
  <1>3. QED
    BY <1>1, <1>2

\* An expansion of n loses no wire.
LEMMA WiredCarries ==
  ASSUME NEW s, NEW g, Carried(s, g), Ids(g), NEW n \in Nodes(g), NEW h, Wired(g, h, n)
  PROVE  Carried(s, h)
  <1>1. PICK New :
          /\ Nodes(h) = (Nodes(g) \ {n}) \cup New
          /\ \A x \in Nodes(g) \ {n} : h.nodes[x] = g.nodes[x]
          /\ \A x \in New : /\ x \in Seq(Parts) /\ Extends(x, n) /\ x[Len(n) + 1] \notin SideTags
                            /\ ~TakesNothing(h, x) /\ ~Guardrail(h, x)
          /\ \A d \in g.edges : d.src # n /\ d.dst # n => d \in h.edges
          /\ \A d \in g.edges : d.src = n /\ d.dst # n =>
               \E y \in h.edges : /\ y.src \in New /\ y.dst = d.dst
                                  /\ Is(g, n, "parameter") => Is(h, y.src, "parameter")
          /\ \A d \in g.edges : d.dst = n => \/ Unread(g, d)
                                             \/ \E y \in h.edges : /\ y.src = d.src /\ y.out = d.out
                                                                   /\ y.dst \in New
          /\ \A m \in Nodes(g) \ {n} : Single(g, m) => Single(h, m)
          /\ Is(g, n, "parameter") => TakesNothing(g, n)
    BY DEF Wired
  <1>2. \A x \in New : x \notin Nodes(s) /\ \A y \in Nodes(s) : ~Extends(y, x)
    BY <1>1, WordsApart
  <1>3. \A x \in New : Of(x) = Of(n)
    <2> SUFFICES ASSUME NEW x \in New PROVE Of(x) = Of(n)
      OBVIOUS
    <2>1. n \in Seq(Parts) /\ Len(n) > 0 /\ Len(n) \in Nat
      BY LenProperties DEF Ids
    <2>2. 1 \in 1..Len(n) /\ Extends(x, n)
      BY <1>1, <2>1
    <2>3. QED
      BY <2>2 DEF Extends, Of
  <1>4. \A x \in Nodes(h), y \in Nodes(s) : Extends(y, x) => y[Len(x) + 1] \in SideTags
    BY <1>1, <1>2 DEF Carried
  <1>5. \A x \in Nodes(h) \cap Nodes(s) : x \in Nodes(g) \ {n} /\ h.nodes[x] = s.nodes[x]
    BY <1>1, <1>2 DEF Carried
  <1>6. \A x \in Nodes(g) \ {n} : /\ TakesNothing(h, x) <=> TakesNothing(g, x)
                                  /\ Guardrail(h, x) <=> Guardrail(g, x)
                                  /\ \A kind : Is(h, x, kind) <=> Is(g, x, kind)
    BY <1>1 DEF TakesNothing, Guardrail, IsState, Is
  <1>7. \A x \in Nodes(h) \ Nodes(s) : ~TakesNothing(h, x) /\ ~Guardrail(h, x)
    BY <1>1, <1>6 DEF Carried
  <1>8. \A x \in Nodes(h) \cap Nodes(s) : Guardrail(h, x) /\ Single(s, x) => Single(h, x)
    BY <1>1, <1>5, <1>6 DEF Carried
  <1>9. ASSUME NEW e \in s.edges \ Dangling(s), ~Unread(s, e), NEW x \in g.edges, Follows(s, g, x, e)
        PROVE  \E y \in h.edges : Follows(s, h, y, e)
    <2>1. /\ Of(x.src) = Of(e.src) /\ Of(x.dst) = Of(e.dst)
          /\ e.src \in Nodes(g) => x.src = e.src /\ x.out = e.out
          /\ x.dst = e.dst \/ x.dst \notin Nodes(s)
          /\ Is(s, e.src, "parameter") => Is(g, x.src, "parameter")
          /\ e.src \in Nodes(s) /\ e.dst \in Nodes(s)
      BY <1>9 DEF Follows, StandsFor, Dangling
    <2>2. e.src \in Nodes(h) => e.src \in Nodes(g) \ {n}
      BY <1>5, <2>1
    <2>3. CASE x.src # n /\ x.dst # n
      <3>1. x \in h.edges
        BY <1>1, <2>3
      <3>2. Is(g, x.src, "parameter") => Is(h, x.src, "parameter")
        BY <1>6, <2>3 DEF Is
      <3>3. QED
        BY <2>1, <2>2, <3>1, <3>2 DEF Follows, StandsFor
    <2>4. CASE x.src = n /\ x.dst # n
      <3>1. PICK y \in h.edges : /\ y.src \in New /\ y.dst = x.dst
                                 /\ Is(g, n, "parameter") => Is(h, y.src, "parameter")
        BY <1>1, <2>4
      <3>2. e.src \notin Nodes(h)
        BY <2>1, <2>2, <2>4
      <3>3. QED
        BY <1>3, <2>1, <2>4, <3>1, <3>2 DEF Follows, StandsFor
    <2>5. CASE x.dst = n
      <3>1. ~TakesNothing(g, n)
        <4>1. CASE n \in Nodes(s)
          <5>1. e.dst = n /\ g.nodes[n] = s.nodes[n]
            BY <2>1, <2>5, <4>1 DEF Carried
          <5>2. TakesNothing(g, n) => TakesNothing(s, n)
            BY <4>1, <5>1 DEF TakesNothing, IsState, Is
          <5>3. QED
            BY <1>9, <5>1, <5>2 DEF Unread
        <4>2. CASE n \notin Nodes(s)
          BY <4>2 DEF Carried
        <4>3. QED
          BY <4>1, <4>2
      <3>2. ~Unread(g, x)
        <4> SUFFICES ASSUME Guardrail(g, n), x \in DataInto(g, n), \E d \in DataInto(g, n) : d # x
                     PROVE  FALSE
          BY <2>5, <3>1 DEF Unread
        <4>1. n \in Nodes(s)
          BY DEF Carried
        <4>2. e.dst = n /\ g.nodes[n] = s.nodes[n] /\ Guardrail(s, n)
          BY <2>1, <2>5, <4>1 DEF Carried, Guardrail, Is
        <4>3. ~Single(s, n)
          BY <4>1 DEF Carried, Single
        <4>4. CASE e \in DataInto(s, n)
          <5>1. \A d \in DataInto(s, n) : d = e
            BY <1>9, <4>2, <4>4 DEF Unread
          <5>2. QED
            BY <4>3, <5>1 DEF Single
        <4>5. CASE e \notin DataInto(s, n)
          <5>1. Is(s, e.src, "parameter")
            BY <4>2, <4>5 DEF DataInto, ParamsInto, Into
          <5>2. Is(g, x.src, "parameter")
            BY <2>1, <5>1
          <5>3. QED
            BY <5>2 DEF DataInto, ParamsInto, Into
        <4>6. QED
          BY <4>4, <4>5
      <3>3. PICK y \in h.edges : y.src = x.src /\ y.out = x.out /\ y.dst \in New
        BY <1>1, <2>5, <3>2
      <3>4. ASSUME Is(s, e.src, "parameter") PROVE Is(h, y.src, "parameter")
        <4>1. Is(g, x.src, "parameter") /\ x.src \in Nodes(g)
          BY <2>1, <3>4 DEF Is
        <4>2. x.src # n
          BY <1>1, <3>1, <4>1
        <4>3. QED
          BY <1>6, <3>3, <4>1, <4>2
      <3>5. QED
        BY <1>2, <1>3, <2>1, <2>2, <2>5, <3>3, <3>4 DEF Follows, StandsFor
    <2>6. QED
      BY <2>3, <2>4, <2>5
  <1>10. \A e \in s.edges \ Dangling(s) : Unread(s, e) \/ \E y \in h.edges : Follows(s, h, y, e)
    BY <1>9 DEF Carried
  <1>11. QED
    BY <1>4, <1>5, <1>7, <1>8, <1>10 DEF Carried

\* An encoder in front of n loses no wire.
LEMMA SlippedCarries ==
  ASSUME NEW s, NEW g, Carried(s, g), Ids(g), NEW n \in Nodes(g), ~Guardrail(g, n), NEW h,
         Slipped(g, h, n, {n \o <<t>> : t \in EncoderTags})
  PROVE  Carried(s, h)
  <1> DEFINE word(t) == n \o <<t>>
             New == {word(t) : t \in EncoderTags}
  <1>0. ASSUME NEW t \in EncoderTags
        PROVE  /\ Of(word(t)) = Of(n) /\ word(t) \notin Nodes(s)
               /\ \A y \in Nodes(s) : ~Extends(y, word(t))
    <2> DEFINE w == <<t>>
               x == n \o w
               k == Len(n) + 1
    <2>1. n \in Seq(Parts) /\ Len(n) > 0 /\ Len(n) \in Nat /\ t \in Parts
      BY LenProperties DEF Ids, EncoderTags, Parts, Tags
    <2>2. w \in Seq(Parts) /\ Len(w) = 1 /\ w[1] = t
      BY <2>1, SingletonIs
    <2> HIDE DEF w
    <2>3. Len(x) = k /\ x[k] = t /\ \A i \in 1..Len(n) : x[i] = n[i]
      <3>1. Len(x) = Len(n) + Len(w)
        BY <2>1, <2>2, ConcatProperties
      <3>2. Extends(x, n) /\ x[k] = w[1]
        BY <2>1, <2>2, Concatenated
      <3>3. QED
        BY <2>2, <3>1, <3>2 DEF Extends
    <2> HIDE DEF x
    <2>4. x[1] = n[1]
      BY <2>1, <2>3
    <2>5. ASSUME NEW y \in Nodes(s), Len(y) >= k, y[k] = t PROVE FALSE
      <3>1. y \in Seq(Parts) /\ Len(y) \in Nat /\ \A i \in 2..Len(y) : y[i] \notin EncoderTags
        BY LenProperties DEF Carried, NoEncoderIds
      <3>2. k \in 2..Len(y)
        BY <2>1, <2>5, <3>1
      <3>3. QED
        BY <2>5, <3>1, <3>2
    <2>6. x \notin Nodes(s)
      BY <2>1, <2>3, <2>5
    <2>7. ASSUME NEW y \in Nodes(s), Extends(y, x) PROVE FALSE
      <3>1. y \in Seq(Parts) /\ Len(y) \in Nat
        BY LenProperties DEF Carried
      <3>2. k < Len(y) /\ y[k] = x[k]
        BY <2>1, <2>3, <2>7 DEF Extends
      <3>3. QED
        BY <2>1, <2>3, <2>5, <3>1, <3>2
    <2>8. QED
      BY <2>4, <2>6, <2>7 DEF Of, x, w
  <1>2. Slipped(g, h, n, New)
    OBVIOUS
  <1> HIDE DEF word
  <1>1. \A x \in New : Of(x) = Of(n) /\ x \notin Nodes(s) /\ \A y \in Nodes(s) : ~Extends(y, x)
    BY <1>0
  <1> HIDE DEF New
  <1>3. /\ Nodes(h) = Nodes(g) \cup New
        /\ \A x \in Nodes(g) : h.nodes[x] = g.nodes[x]
        /\ \A x \in New : ~TakesNothing(h, x) /\ ~Guardrail(h, x)
    BY <1>2 DEF Slipped
  <1>4. \A x \in Nodes(g) : /\ TakesNothing(h, x) <=> TakesNothing(g, x)
                            /\ Guardrail(h, x) <=> Guardrail(g, x)
                            /\ \A kind : Is(h, x, kind) <=> Is(g, x, kind)
    BY <1>3 DEF TakesNothing, Guardrail, IsState, Is
  <1>5. \A x \in Nodes(h), y \in Nodes(s) : Extends(y, x) => y[Len(x) + 1] \in SideTags
    BY <1>1, <1>3 DEF Carried
  <1>6. \A x \in Nodes(h) \cap Nodes(s) : x \in Nodes(g) /\ h.nodes[x] = s.nodes[x]
    BY <1>1, <1>3 DEF Carried
  <1>7. \A x \in Nodes(h) \ Nodes(s) : ~TakesNothing(h, x) /\ ~Guardrail(h, x)
    BY <1>3, <1>4 DEF Carried
  <1>8. ASSUME NEW x \in Nodes(h) \cap Nodes(s), Guardrail(h, x), Single(s, x) PROVE Single(h, x)
    <2>1. x \in Nodes(g) /\ Guardrail(g, x) /\ Single(g, x) /\ x # n /\ x \notin New
      BY <1>1, <1>4, <1>6, <1>8 DEF Carried
    <2>2. ASSUME NEW d \in DataInto(h, x) PROVE d \in DataInto(g, x)
      <3>1. d \in g.edges /\ d.dst = x /\ ~Is(h, d.src, "parameter")
        BY <1>2, <2>1 DEF Slipped, DataInto, ParamsInto, Into
      <3>2. ~Is(g, d.src, "parameter")
        BY <1>4, <3>1 DEF Is
      <3>3. QED
        BY <3>1, <3>2 DEF DataInto, ParamsInto, Into
    <2>3. QED
      BY <2>1, <2>2 DEF Single
  <1>9. ASSUME NEW e \in s.edges \ Dangling(s), NEW x \in g.edges, Follows(s, g, x, e)
        PROVE  \E y \in h.edges : Follows(s, h, y, e)
    <2>1. /\ Of(x.src) = Of(e.src) /\ Of(x.dst) = Of(e.dst)
          /\ e.src \in Nodes(g) => x.src = e.src /\ x.out = e.out
          /\ x.dst = e.dst \/ x.dst \notin Nodes(s)
          /\ Is(s, e.src, "parameter") => Is(g, x.src, "parameter")
          /\ e.src \in Nodes(s)
      BY <1>9 DEF Follows, StandsFor, Dangling
    <2>2. e.src \in Nodes(h) => e.src \in Nodes(g)
      BY <1>6, <2>1
    <2>3. Is(g, x.src, "parameter") => Is(h, x.src, "parameter")
      BY <1>4 DEF Is
    <2>4. CASE x \in h.edges
      BY <2>1, <2>2, <2>3, <2>4 DEF Follows, StandsFor
    <2>5. CASE x.dst = n /\ \E y \in h.edges : y.src = x.src /\ y.out = x.out /\ y.dst \in New
      <3>1. PICK y \in h.edges : y.src = x.src /\ y.out = x.out /\ y.dst \in New
        BY <2>5
      <3>2. Of(y.dst) = Of(e.dst) /\ y.dst \notin Nodes(s)
        BY <1>1, <2>1, <2>5, <3>1
      <3>3. QED
        BY <2>1, <2>2, <2>3, <3>1, <3>2 DEF Follows, StandsFor
    <2>6. QED
      BY <1>2, <2>4, <2>5 DEF Slipped
  <1>10. \A e \in s.edges \ Dangling(s) : Unread(s, e) \/ \E y \in h.edges : Follows(s, h, y, e)
    BY <1>9 DEF Carried
  <1>11. QED
    BY <1>5, <1>6, <1>7, <1>8, <1>10 DEF Carried

\* What has been submitted is all there.
LEMMA SubmittedCarries ==
  ASSUME NEW g, Ids(g), NoEncoderIds(g)
  PROVE  Carried(g, g)
  BY DEF Carried, Follows, StandsFor, Ids, Single

Expanding == {"parse", "validation", "dataset", "state", "encoding", "compound", "printout",
              "post_expansion_validation", "vault"}

\* Up to the vault references, each step finds what the next ones need; they change no wire.
WireInv ==
  /\ stage \in Expanding => Carried(submitted, graph)
  /\ stage \in {"guards", "ready"} =>
       \A e \in submitted.edges \ Dangling(submitted) :
         Unread(submitted, e) \/ \E x \in graph.edges : StandsFor(graph, x, e)

\* A step that enters a stage.
LEMMA WiresEntered ==
  ASSUME WireInv, UNCHANGED <<graph, submitted>>,
         \/ stage \in Expanding /\ stage' \in Expanding
         \/ stage \in {"guards", "ready"} /\ stage' \in {"guards", "ready"}
         \/ stage' \notin Expanding \cup {"guards", "ready"}
  PROVE  WireInv'
  <1>1. Expanding \cap {"guards", "ready"} = {}
    BY DEF Expanding
  <1>2. QED
    BY <1>1 DEF WireInv, Carried, Follows, StandsFor, Unread, TakesNothing, Guardrail, IsState, Is,
      Dangling, DataInto, ParamsInto, Into, Single, Nodes, NoEncoderIds

\* A step that makes another graph within its stage.
LEMMA WiresTurned ==
  ASSUME WireInv, UNCHANGED <<stage, submitted>>, stage \in Expanding,
         Carried(submitted, graph) => Carried(submitted, graph')
  PROVE  WireInv'
  <1>1. stage' \notin {"guards", "ready"} /\ Carried(submitted', graph')
    BY DEF WireInv, Expanding
  <1>2. QED
    BY <1>1 DEF WireInv

\* Resolving the vault references changes no wire.
LEMMA WiresResolved ==
  ASSUME PreparationInv, WireInv, ResolveVault
  PROVE  WireInv'
  <1>1. stage = "vault" /\ submitted' = submitted
    BY DEF ResolveVault
  <1>2. CASE stage' = "failed" /\ graph' = graph
    BY <1>1, <1>2, WiresEntered DEF Expanding
  <1>3. CASE /\ stage' = "guards"
             /\ graph' = [graph EXCEPT !.nodes =
                  [n \in Nodes(graph) |->
                     IF n \in EnvParams THEN [@[n] EXCEPT !.dtype = "string"] ELSE @[n]]]
    <2>1. graph'.edges = graph.edges /\ Nodes(graph') = Nodes(graph)
      BY <1>3 DEF PreparationInv, Shape, Nodes
    <2>2. Carried(submitted, graph)
      BY <1>1 DEF WireInv, Expanding
    <2>3. ASSUME NEW e \in submitted.edges \ Dangling(submitted), ~Unread(submitted, e)
          PROVE  \E x \in graph'.edges : StandsFor(graph', x, e)
      <3>1. PICK x \in graph.edges : StandsFor(graph, x, e)
        BY <2>2, <2>3 DEF Carried, Follows
      <3>2. QED
        BY <2>1, <3>1 DEF StandsFor
    <2>4. stage' \notin Expanding
      BY <1>3 DEF Expanding
    <2>5. QED
      BY <1>1, <2>3, <2>4 DEF WireInv
  <1>4. QED
    BY <1>2, <1>3 DEF ResolveVault, Enter, Fail

\* Every step of the preparation keeps the wires.
LEMMA WiresNext ==
  ASSUME PreparationInv, WireInv, [Next]_vars
  PROVE  WireInv'
  <1>1. CASE Accept \/ Rewrite \/ StoreRewritten
    <2>1. stage' \in {"rewriting", "rewritten"}
      BY <1>1 DEF Accept, Rewrite, StoreRewritten, Enter
    <2>2. QED
      BY <2>1 DEF WireInv, Expanding
  <1>2. CASE Submit
    <2>1. /\ stage \in {"canvas", "rewritten"} /\ stage' = "parse"
          /\ submitted' = graph /\ graph' = graph
      BY <1>2 DEF Submit, Enter
    <2>2. Ids(graph) /\ NoEncoderIds(graph)
      BY <2>1 DEF PreparationInv, Unexpanded
    <2>3. Carried(submitted', graph')
      BY <2>1, <2>2, SubmittedCarries
    <2>4. QED
      BY <2>1, <2>3 DEF WireInv
  <1>3. CASE Unfold
    <2>1. /\ UNCHANGED <<stage, submitted>> /\ stage \in Expanding
          /\ graph' = graph \/ \E n \in Nodes(graph) : Wired(graph, graph', n)
      BY <1>3, UnfoldIs DEF Expanding
    <2>2. Ids(graph)
      BY DEF PreparationInv
    <2>3. Carried(submitted, graph) => Carried(submitted, graph')
      BY <2>1, <2>2, WiredCarries
    <2>4. QED
      BY <2>1, <2>3, WiresTurned
  <1>4. CASE EncodeASplit
    <2>1. /\ UNCHANGED <<stage, submitted>> /\ stage \in Expanding
          /\ \/ graph' = graph
             \/ \E n \in Nodes(graph) :
                  ~Guardrail(graph, n) /\ Slipped(graph, graph', n, {n \o <<t>> : t \in EncoderTags})
      BY <1>4, EncodeIs DEF Expanding
    <2>2. Ids(graph)
      BY DEF PreparationInv
    <2>3. Carried(submitted, graph) => Carried(submitted, graph')
      BY <2>1, <2>2, SlippedCarries
    <2>4. QED
      BY <2>1, <2>3, WiresTurned
  <1>5. CASE ResolveVault
    BY <1>5, WiresResolved
  <1>6. CASE \/ Parsed \/ ValidateParsed \/ DatasetsExpanded \/ StatesExpanded \/ SplitsEncoded
             \/ ExpansionRaises \/ ClassesExpanded \/ PrintoutsExpanded \/ ValidateExpanded \/ Guards
    <2>1. UNCHANGED <<graph, submitted>>
      BY <1>6 DEF Parsed, ValidateParsed, DatasetsExpanded, StatesExpanded, SplitsEncoded,
         ExpansionRaises, ClassesExpanded, PrintoutsExpanded, ValidateExpanded, Guards, Validate, NoMatch
    <2>2. \/ stage' = "failed"
          \/ stage = "guards" /\ stage' = "ready"
          \/ stage = "parse" /\ stage' = "validation"
          \/ stage = "validation" /\ stage' = "dataset"
          \/ stage = "dataset" /\ stage' = "state"
          \/ stage = "state" /\ stage' = "encoding"
          \/ stage = "encoding" /\ stage' = "compound"
          \/ stage = "compound" /\ stage' = "printout"
          \/ stage = "printout" /\ stage' = "post_expansion_validation"
          \/ stage = "post_expansion_validation" /\ stage' = "vault"
      BY <1>6 DEF Parsed, ValidateParsed, DatasetsExpanded, StatesExpanded, SplitsEncoded,
         ExpansionRaises, ClassesExpanded, PrintoutsExpanded, ValidateExpanded, Guards, Validate,
         NoMatch, Enter, Fail
    <2>3. \/ stage \in Expanding /\ stage' \in Expanding
          \/ stage \in {"guards", "ready"} /\ stage' \in {"guards", "ready"}
          \/ stage' \notin Expanding \cup {"guards", "ready"}
      BY <2>2 DEF Expanding
    <2>4. QED
      BY <2>1, <2>3, WiresEntered
  <1>7. CASE UNCHANGED vars
    <2>1. UNCHANGED <<stage, graph, submitted>>
      BY <1>7 DEF vars
    <2>2. QED
      BY <2>1, WiresEntered
  <1>8. QED
    BY <1>1, <1>2, <1>3, <1>4, <1>5, <1>6, <1>7 DEF Next, Prepare, Unfold

\* Whatever is drawn, accepted and submitted, and in whatever order the matches come: each
\* wire between two nodes of the submitted pipeline has something made of its source feed
\* something made of its destination when the run starts, with the output it named if the
\* source is still there. Gone are only the wires into what gives way to a source and, but
\* for one, those into a guardrail (the stages of run_pipeline from parsing to the guards).
THEOREM WiresTheorem == Spec => []NoWireIsLost
  <1>1. Init => WireInv
    BY DEF Init, WireInv, Expanding
  <1>2. PreparationInv /\ WireInv /\ [Next]_vars => WireInv'
    BY WiresNext
  <1>3. WireInv => NoWireIsLost
    BY DEF WireInv, NoWireIsLost
  <1>4. QED
    BY <1>1, <1>2, <1>3, PreparationInvariant, PTL DEF Spec
=============================================================================
