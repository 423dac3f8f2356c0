-------------------------- MODULE PipelineRewrites --------------------------
(***************************************************************************)
(* The rewrites that a mitigation makes of a pipeline                      *)
(* (pipeline/mitigation_rewrites.py, the documents of seed_rewrites.py).   *)
(* An operator that takes the first edge of a list yields a set of graphs, *)
(* one for each edge that may come first.                                  *)
(***************************************************************************)
EXTENDS PipelineGraph

\* The id of a node added for the matched node n: a fresh one in the code.
Fresh(n, name) == <<name>> \o n

\* n -> x becomes n -> through -> x
RerouteOutgoing(g, n, through) ==
  LET moved == {e \in From(g, n) : e.dst # through}
  IN  WithEdges(g, (g.edges \ moved) \cup {Edge(through, e.dst, e.pos, 0) : e \in moved})

\* x -> n becomes x -> through -> n, for one port of n or for its feature inputs. The
\* knowledge base gives every port of these interfaces its name as its position.
RerouteIncoming(g, n, through, anchor) ==
  LET inputs == Inputs(Interface(g.nodes[n].name))
      wanted(p) == IF anchor # "any" THEN p = anchor
                   ELSE inputs = {} \/ p \in inputs \cap {"X", "X_test"}
      moved == {e \in DataInto(g, n) : e.src # through /\ wanted(e.pos)}
  IN  WithEdges(g, (g.edges \ moved) \cup {[e EXCEPT !.dst = through] : e \in moved})

ReplaceNode(g, n, name) == [g EXCEPT !.nodes[n].name = name]

Satellites(g, n, name) == {e.src : e \in {x \in ParamsInto(g, n) : g.nodes[x.src].name = name}}

SetParamValue(g, n, name, value) ==
  IF Satellites(g, n, name) = {} THEN {g}
  ELSE {[g EXCEPT !.nodes[p].value = value] : p \in Satellites(g, n, name)}

ParamToSnippet(g, n, name) ==
  IF Satellites(g, n, name) = {} THEN {g}
  ELSE {[g EXCEPT !.nodes[p] = Snippet(name)] : p \in Satellites(g, n, name)}

WireParam(g, n, name, value) ==
  LET p == Fresh(n, name)
  IN  Plus(g, At(p, Parameter(name, "str", value)), {Edge(p, n, name, 0)})

\* A seed that is wired already is the user's.
ForceRandomState(g, n) ==
  IF \E e \in ParamsInto(g, n) : e.pos = "random_state" THEN g
  ELSE WireParam(g, n, "random_state", "seed")

DuplicateDataKwarg(g, n, position, kwarg) ==
  LET sources == {e \in DataInto(g, n) : e.pos = position}
  IN  IF sources = {} \/ \E e \in Into(g, n) : e.pos = kwarg THEN {g}
      ELSE {WithEdges(g, g.edges \cup {[e EXCEPT !.pos = kwarg]}) : e \in sources}

InsertDenseConverter(g, n) ==
  LET dense == n \o <<"dense">>
  IN  IF DataInto(g, n) = {} THEN {g}
      ELSE {Plus(WithEdges(g, g.edges \ {e}), At(dense, Snippet("to_dense")),
                 {Edge(e.src, dense, "0", e.out), Edge(dense, n, e.pos, 0)}) : e \in DataInto(g, n)}

\* Every reader of the source of y reads the encoder, which reads one of its outputs.
InsertLabelEncoder(g, n) ==
  LET encoder == n \o <<"label_encoder">>
      y == {e \in DataInto(g, n) : e.pos \in {"1", "2", "y", "y_train"}}
      through(s, first) ==
        Plus(WithEdges(g, g.edges \ From(g, s)), At(encoder, Snippet("label_encoder")),
             {Edge(s, encoder, "0", first.out)}
               \cup {Edge(encoder, e.dst, e.pos, 0) : e \in From(g, s)})
  IN  IF y = {} THEN {g} ELSE UNION {{through(e.src, f) : f \in From(g, e.src)} : e \in y}

\* _splice_preprocessor_on_x_edge: every edge from the X source into n, at a numbered
\* position, passes through pre, and the placeholder pre -> n goes.
SpliceOnX(g, n, pre) ==
  LET numbered == {e \in DataInto(g, n) : e.src # pre /\ Numeric(e.pos)}
      lowest == {e \in numbered : \A d \in numbered : NumberAt[e.pos] <= NumberAt[d.pos]}
      spliced(x) ==
        LET moved == {e \in numbered : e.src = x.src}
        IN  WithEdges(g, (g.edges \ (moved \cup {e \in From(g, pre) : e.dst = n}))
                           \cup {Edge(pre, n, e.pos, 0) : e \in moved}
                           \cup {Edge(x.src, pre, "0", x.out)})
  IN  IF numbered = {} THEN {g} ELSE {spliced(x) : x \in lowest}

Splitters(g) ==
  {s \in Nodes(g) : g.nodes[s].kind = "operator" /\ g.nodes[s].name = "train_test_split"}

\* Whatever leads to the splitter is put after it (faulty).
InsertXPreprocessorUnguarded(g, n, pre) ==
  IF Splitters(g) = {} THEN SpliceOnX(g, n, pre)
  ELSE {WithEdges(g, (g.edges \ {e \in From(g, s) : e.dst # pre /\ e.out \in {0, 1}})
                       \cup {[e EXCEPT !.src = pre] :
                               e \in {x \in From(g, s) : x.dst # pre /\ x.out \in {0, 1}}}
                       \cup {Edge(s, pre, "X_train", 0), Edge(s, pre, "X_test", 1)}) :
          s \in Splitters(g)}

\* insert_x_preprocessor: pre takes over the splitter's X outputs (X_train is 0, X_test 1,
\* y_train 2), unless there is no splitter or pre leads to it.
InsertXPreprocessor(g, n, pre) ==
  LET wrapped(s) ==
        LET moved == {e \in From(g, s) : e.dst # pre /\ e.out \in {0, 1}}
        IN  WithEdges(g, (g.edges \ moved)
                           \cup {[e EXCEPT !.src = pre] : e \in moved}
                           \cup {Edge(s, pre, "X_train", 0), Edge(s, pre, "y_train", 2),
                                 Edge(s, pre, "X_test", 1)})
  IN  IF Splitters(g) = {} THEN SpliceOnX(g, n, pre)
      ELSE UNION {IF s \in After(g, {pre}) THEN SpliceOnX(g, n, pre) ELSE {wrapped(s)} :
                    s \in Splitters(g)}

\* apply_parameter_change_to_dag: sets one parameter of the operators named name, or gives
\* them one in common.
ChangeParameter(g, name, param, value) ==
  LET targets == {n \in Nodes(g) : g.nodes[n].kind = "operator" /\ g.nodes[n].name = name}
      wired == {e.src : e \in {x \in UNION {ParamsInto(g, n) : n \in targets} : x.pos = param}}
  IN  IF targets = {} THEN {g}
      ELSE IF wired # {} THEN {[g EXCEPT !.nodes[p].value = value] : p \in wired}
      ELSE LET p == <<"fix", param>>
           IN  {Plus(g, At(p, Parameter(param, "str", value)), {Edge(p, n, param, 0) : n \in targets})}

(***************************************************************************)
(* compile_rewrite_rule: the transformations of a document, in order, at   *)
(* the matched node n.                                                     *)
(***************************************************************************)
\* The transformation "Add" of an operator o with one parameter.
AddOperator(g, n, o, name, param, dtype, edges) ==
  LET p == Fresh(o, param)
  IN  Plus(Plus(g, At(o, Operator(name)), edges), At(p, Parameter(param, dtype, "HF_TOKEN")),
           {Edge(p, o, param, 0)})

Rewrites == {"output-guardrail", "input-guardrail", "robust-scaling", "force-random-state",
             "stratified-splitting", "resampling", "insert-ordinal-encoder-before",
             "insert-dense-converter-before", "insert-label-encoder-before",
             "fix-sgd-penalty-int", "fix-score-func-callable"}

Apply(rewrite, g, n) ==
  LET guard == Fresh(n, "guard")
      preprocessor == Fresh(n, "preprocessor")
      before(o) == {Edge(o, n, "0", 0)}
  IN  CASE rewrite = "output-guardrail" ->
             {RerouteOutgoing(
                AddOperator(g, n, guard, "ToxicityGuard", "token", "env", {Edge(n, guard, "0", 0)}),
                n, guard)}
        [] rewrite = "input-guardrail" ->
             {RerouteIncoming(
                AddOperator(g, n, guard, "ToxicityGuard", "token", "env", before(guard)),
                n, guard, "messages")}
        [] rewrite = "robust-scaling" -> {ReplaceNode(g, n, "RobustScaler")}
        [] rewrite = "force-random-state" -> {ForceRandomState(g, n)}
        [] rewrite = "stratified-splitting" -> DuplicateDataKwarg(g, n, "1", "stratify")
        [] rewrite = "resampling" ->
             {RerouteIncoming(Plus(g, At(guard, Operator("SMOTE")), before(guard)), n, guard, "any")}
        [] rewrite = "insert-ordinal-encoder-before" ->
             InsertXPreprocessor(
               AddOperator(g, n, preprocessor, "OrdinalEncoder", "handle_unknown", "str",
                           before(preprocessor)),
               n, preprocessor)
        [] rewrite = "insert-dense-converter-before" -> InsertDenseConverter(g, n)
        [] rewrite = "insert-label-encoder-before" -> InsertLabelEncoder(g, n)
        [] rewrite = "fix-sgd-penalty-int" -> SetParamValue(g, n, "penalty", "l2")
        [] OTHER -> ParamToSnippet(g, n, "score_func")

(***************************************************************************)
(* A document that only adds nodes and edges runs in the Rust engine       *)
(* (_make_pipeline_apply_fn), for all matches at once, and the parameter   *)
(* it adds has one id. The way there and back keeps operators, parameters, *)
(* snippets and every edge: a group is gone, the edges at it are not.      *)
(***************************************************************************)
AddOnly == {"class-weight-balancing"}

Groups(g) == {n \in Nodes(g) : g.nodes[n].kind = "group"}
WithoutGroups(g) == [nodes |-> [n \in Nodes(g) \ Groups(g) |-> g.nodes[n]], edges |-> g.edges]

AddInEngine(g, matches, param, value) ==
  LET p == <<"fix", param>>
  IN  Plus(WithoutGroups(g), At(p, Parameter(param, "str", value)),
           {Edge(p, n, param, 0) : n \in matches})
=============================================================================
