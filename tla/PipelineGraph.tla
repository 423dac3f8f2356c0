---------------------------- MODULE PipelineGraph ----------------------------
(***************************************************************************)
(* Pipelines as graphs (dag.py, pipeline/dag_analysis.py) and what the     *)
(* knowledge base says of the operators they use (interfaces.kb). A node   *)
(* is named by a sequence of strings: a node of the canvas by one of them, *)
(* a node that an expansion makes of n by n and what the code appends to   *)
(* its id. The edges are a set, and where the code takes the first edge of *)
(* its list any of the edges in question may be meant: the canvas keeps    *)
(* them in the order they were drawn.                                      *)
(***************************************************************************)
EXTENDS Integers, Sequences, FiniteSets

\* A position is a number, coerced from text by the code, or the name of a port.
NumberAt == [p \in {"0", "1", "2"} |-> IF p = "0" THEN 0 ELSE IF p = "1" THEN 1 ELSE 2]
Numeric(p) == p \in DOMAIN NumberAt

Edge(s, d, p, o) == [src |-> s, dst |-> d, pos |-> p, out |-> o]

\* The dtype of a parameter counts only when it is "state" or "env".
Operator(name) == [kind |-> "operator", name |-> name]
Snippet(name) == [kind |-> "snippet", name |-> name]
Parameter(name, dtype, value) ==
  [kind |-> "parameter", name |-> name, dtype |-> dtype, value |-> value]

\* One node under its id, to be added to a graph.
At(n, node) == [x \in {n} |-> node]

Nodes(g) == DOMAIN g.nodes
Is(g, n, kind) == n \in Nodes(g) /\ g.nodes[n].kind = kind
From(g, n) == {e \in g.edges : e.src = n}
Into(g, n) == {e \in g.edges : e.dst = n}
ParamsInto(g, n) == {e \in Into(g, n) : Is(g, e.src, "parameter")}
DataInto(g, n) == Into(g, n) \ ParamsInto(g, n)

WithEdges(g, E) == [g EXCEPT !.edges = E]
\* g with more nodes, or without some and the edges at them.
Plus(g, new, E) ==
  [nodes |-> [n \in DOMAIN new \cup Nodes(g) |-> IF n \in DOMAIN new THEN new[n] ELSE g.nodes[n]],
   edges |-> g.edges \cup E]
Minus(g, gone) ==
  [nodes |-> [n \in Nodes(g) \ gone |-> g.nodes[n]],
   edges |-> {e \in g.edges : e.src \notin gone /\ e.dst \notin gone}]

(***************************************************************************)
(* What the knowledge base says of an operator.                            *)
(***************************************************************************)
Interface(name) ==
  CASE name \in {"StandardScaler", "RobustScaler", "OrdinalEncoder"} -> "Transformer"
    [] name = "SelectKBest"        -> "SupervisedTransformer"
    [] name = "SGDClassifier"      -> "Estimator"
    [] name = "chat.completion"    -> "LLM"
    [] name = "ToxicityGuard"      -> "Guardrail"
    [] OTHER                       -> "Function"

Methods(interface) ==
  CASE interface \in {"Transformer", "SupervisedTransformer"} -> <<"__init__", "fit", "transform">>
    [] interface = "Estimator"   -> <<"__init__", "fit", "predict">>
    [] interface = "LLM"         -> <<"__init__", "chat.send">>
    [] interface = "Guardrail"   -> <<"__init__", "validate">>
    [] OTHER                     -> <<>>

Inputs(interface) ==
  CASE interface = "Transformer" -> {"X", "X_test"}
    [] interface \in {"Estimator", "SupervisedTransformer"} -> {"X", "y", "X_test"}
    [] interface = "LLM"         -> {"messages"}
    [] interface = "Guardrail"   -> {"data"}
    [] OTHER                     -> {}

\* The methods that consume an input; each takes it at the position of its own name.
Consumers(interface, input) ==
  CASE interface \in {"Transformer", "SupervisedTransformer"} /\ input = "X" -> {"fit", "transform"}
    [] interface = "SupervisedTransformer" /\ input = "y" -> {"fit"}
    [] interface = "Estimator" /\ input \in {"X", "y"}    -> {"fit"}
    [] interface = "Estimator" /\ input = "X_test"        -> {"predict"}
    [] interface = "LLM" /\ input = "messages"            -> {"chat.send"}
    [] OTHER                                              -> {}

\* The method that takes a parameter when it is not the constructor.
ParamMethod(interface, p) ==
  IF interface = "LLM" /\ p \in {"model", "temperature"} THEN "chat.send" ELSE "__init__"

MethodNames == {"fit", "transform", "predict", "chat.send", "validate"}
DataMethods == {"fit", "transform", "predict"}

\* A node made by the expansion of an operator carries the tag "_cx_" in its id.
Expanded(n) == \E i \in 1..Len(n) : n[i] = "cx"

\* Operators that stand for something the platform fills in.
Platform == {"dorian.io.dataset", "dorian.io.printout"}

(***************************************************************************)
(* _validate_pipeline: no dangling edge, no cycle, and no method node      *)
(* without data.                                                           *)
(***************************************************************************)
Dangling(g) == {e \in g.edges : e.src \notin Nodes(g) \/ e.dst \notin Nodes(g)}

\* f applied to S as often as g has nodes.
Repeated(g, f, S) ==
  LET image[k \in 0..Cardinality(Nodes(g))] == IF k = 0 THEN S ELSE f[image[k - 1]]
  IN  image[Cardinality(Nodes(g))]

\* Nothing is left when the nodes that nothing left precedes are taken away over and over.
Acyclic(g) ==
  LET preceded == [S \in SUBSET Nodes(g) |-> {n \in S : \E e \in Into(g, n) : e.src \in S}]
  IN  Repeated(g, preceded, Nodes(g)) = {}

Sound(g) == Dangling(g) = {} /\ Acyclic(g)

MethodsFed(g) ==
  \A n \in Nodes(g) :
    Expanded(n) /\ g.nodes[n].kind = "operator" /\ g.nodes[n].name \in DataMethods
      => \E e \in DataInto(g, n) : e.pos # "0"

Valid(g) == Sound(g) /\ MethodsFed(g)

\* The nodes that S leads to.
After(g, S) ==
  LET step == [T \in SUBSET Nodes(g) |-> T \cup {e.dst : e \in {x \in g.edges : x.src \in T}}]
  IN  Repeated(g, step, S)

(***************************************************************************)
(* _flatten_groups: a group of the canvas gives way to its children.       *)
(***************************************************************************)
Flatten(g, n) ==
  LET group == g.nodes[n]
      init == n \o <<"cx", "__init__">>
      inward(e) ==
        IF e.pos \in DOMAIN group.ins
        THEN {Edge(e.src, group.ins[e.pos][1], group.ins[e.pos][2], e.out)}
        ELSE IF init \in DOMAIN group.children THEN {[e EXCEPT !.dst = init]} ELSE {}
      outward(e) ==
        IF e.out \in DOMAIN group.outs
        THEN Edge(group.outs[e.out][1], e.dst, e.pos, group.outs[e.out][2])
        ELSE Edge(group.last, e.dst, e.pos, 0)
  IN  Plus(Minus(g, {n}), group.children,
           group.inner \cup (UNION {inward(e) : e \in Into(g, n)})
                       \cup {outward(e) : e \in From(g, n)})
=============================================================================
