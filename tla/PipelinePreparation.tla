------------------------ MODULE PipelinePreparation ------------------------
(***************************************************************************)
(* From the pipeline on the canvas to the one that is executed             *)
(* (risk_checks.py apply_mitigation, mitigation_apply.py, transforms.py    *)
(* sync_apply, execution.py run_pipeline steps 1 to 3). The user may       *)
(* accept a mitigation, which rewrites every operator of a name and        *)
(* stores the result unchecked; a run flattens, validates, expands and     *)
(* validates again. A rule is applied to one match at a time, in the order *)
(* of the document's nodes, which may be any; a match that leaves the      *)
(* pipeline as it is is no step here, except where it is the last one.     *)
(***************************************************************************)
EXTENDS PipelineExpansion, PipelineRewrites

CONSTANTS
  Canvases,      \* pipelines that users draw
  Mitigations,   \* pairs of a rewrite and the name of the operator it is accepted for
  LongerNames    \* pairs of names of operators, the first of which begins with the other

NoRule == <<"none", "none">>
Fix == "parameter_change"

\* What the code writes into the id of a node it adds; an id of the canvas is a UUID.
Tags == {"guard", "token", "preprocessor", "handle_unknown", "random_state", "fix",
         "dense", "label_encoder", "encoder", "unknown_value"}
Untagged(s) == s \in STRING \ Tags

\* build_group: the calls of a class, under ids that extend the group's.
WellBuilt(n, group) ==
  LET calls == [nodes |-> group.children, edges |-> group.inner]
  IN  /\ IsFiniteSet(Nodes(calls)) /\ Sound(calls)
      /\ \A c \in Nodes(calls) : /\ c = n \o <<"cx", c[3]>> /\ Untagged(c[3])
                                /\ "kind" \in DOMAIN calls.nodes[c]
                                /\ \/ Is(calls, c, "snippet")
                                   \/ Is(calls, c, "operator") /\ calls.nodes[c].name \notin Platform
      /\ n \o <<"cx", "__init__">> \in Nodes(calls)
      /\ \A e \in group.inner : e = Edge(e.src, e.dst, e.pos, e.out)
      /\ \A p \in DOMAIN group.ins : group.ins[p][1] \in Nodes(calls)
      /\ \A o \in DOMAIN group.outs : group.outs[o][1] \in Nodes(calls)
      /\ group.last \in Nodes(calls)

\* What the editor stores. The wiring is up to the user.
WellDrawn(g) ==
  /\ DOMAIN g = {"nodes", "edges"} /\ IsFiniteSet(Nodes(g))
  /\ \A e \in g.edges : e = Edge(e.src, e.dst, e.pos, e.out)
  /\ \A n \in Nodes(g) : /\ n = <<n[1]>> /\ Untagged(n[1])
                         /\ "kind" \in DOMAIN g.nodes[n]
                         /\ Is(g, n, "group") => WellBuilt(n, g.nodes[n])

\* A pattern is the escaped name of an operator and has no end (compile_rewrite_rule,
\* _re_match).
Begins(name, start) == name = start \/ <<name, start>> \in LongerNames

ASSUME ConstantsAssumption ==
  /\ \A g \in Canvases : WellDrawn(g)
  /\ Mitigations \subseteq (Rewrites \cup AddOnly \cup {Fix}) \X STRING
  \* no operator's name begins with that of a rule of a run
  /\ \A l \in LongerNames : l[2] \notin Platform \cup {"train_test_split"}
  \* a rewrite is not accepted for an operator that it inserts: sync_apply would not end
  /\ \A m \in Mitigations :
       /\ m[1] = "insert-ordinal-encoder-before" => ~Begins("OrdinalEncoder", m[2])
       /\ m[1] = "resampling" => ~Begins("SMOTE", m[2])
       /\ m[1] \in {"output-guardrail", "input-guardrail"} => ~Begins("ToxicityGuard", m[2])

VARIABLES
  canvas,      \* the pipeline that was drawn
  session,     \* what the session holds: a dataset, a profile with categorical features,
               \* the user's vault passphrase
  graph,       \* the pipeline
  rule,        \* the accepted mitigation
  processed,   \* nodes that the rule being applied has matched
  stage,       \* the step that is next
  submitted,   \* the pipeline as the run received it
  failure      \* the stage a failed run reports

vars == <<canvas, session, graph, rule, processed, stage, submitted, failure>>

Running == {"parse", "validation", "dataset", "state", "encoding", "compound", "printout",
            "post_expansion_validation", "vault", "guards"}
Stages == {"canvas", "rewriting", "rewritten", "ready", "failed"} \cup Running

Init ==
  /\ canvas \in Canvases
  /\ session \in [dataset : BOOLEAN, categorical : BOOLEAN, vault : BOOLEAN]
  /\ graph = canvas /\ submitted = canvas
  /\ rule = NoRule
  /\ processed = {}
  /\ stage = "canvas"
  /\ failure = "none"

Enter(next) == /\ stage' = next
               /\ processed' = {}
Fail(reported) == /\ stage' = "failed"
                  /\ failure' = reported
                  /\ UNCHANGED processed

Named(name) ==
  {n \in Nodes(graph) : graph.nodes[n].kind = "operator" /\ Begins(graph.nodes[n].name, name)}

-----------------------------------------------------------------------------
(* A mitigation. *)

Accept ==
  /\ stage = "canvas"
  /\ \E m \in Mitigations :
       /\ Named(m[2]) # {}
       /\ rule' = m
       /\ IF m[1] = Fix
          THEN /\ graph' \in ChangeParameter(graph, m[2], "penalty", "l2")
               /\ Enter("rewritten")
          ELSE IF m[1] \in AddOnly
          THEN /\ graph' = AddInEngine(graph, Named(m[2]), "class_weight", "balanced")
               /\ Enter("rewritten")
          ELSE /\ Enter("rewriting")
               /\ UNCHANGED graph
  /\ UNCHANGED <<canvas, session, submitted, failure>>

\* sync_apply: a match that has not been processed.
Rewrite ==
  /\ stage = "rewriting"
  /\ \E n \in Named(rule[2]) \ processed :
       /\ processed' = processed \cup {n}
       /\ graph' \in Apply(rule[1], graph, n)
  /\ UNCHANGED <<canvas, session, rule, stage, submitted, failure>>

\* apply_mitigation stores the result.
StoreRewritten ==
  /\ stage = "rewriting"
  /\ Named(rule[2]) \subseteq processed
  /\ Enter("rewritten")
  /\ UNCHANGED <<canvas, session, graph, rule, submitted, failure>>

-----------------------------------------------------------------------------
(* A run. *)

Submit ==
  /\ stage \in {"canvas", "rewritten"}
  /\ Enter("parse")
  /\ submitted' = graph
  /\ UNCHANGED <<canvas, session, graph, rule, failure>>

\* _parse_pipeline
FlattenGroup ==
  /\ stage = "parse"
  /\ \E n \in Nodes(graph) : /\ graph.nodes[n].kind = "group"
                             /\ graph' = Flatten(graph, n)
  /\ UNCHANGED <<canvas, session, rule, processed, stage, submitted, failure>>

Parsed ==
  /\ stage = "parse"
  /\ \A n \in Nodes(graph) : graph.nodes[n].kind # "group"
  /\ Enter("validation")
  /\ UNCHANGED <<canvas, session, graph, rule, submitted, failure>>

Validate(at, ok, next) ==
  /\ stage = at
  /\ IF ok THEN Enter(next) /\ UNCHANGED failure ELSE Fail(at)
  /\ UNCHANGED <<canvas, session, graph, rule, submitted>>

ValidateParsed == Validate("validation", Nodes(graph) # {} /\ Valid(graph), "dataset")
ValidateExpanded == Validate("post_expansion_validation", Valid(graph), "vault")

\* A rule of the stage "at" applied to its match n, and the end of that stage.
Match(at, n, outcomes) ==
  /\ stage = at
  /\ graph' \in outcomes
  /\ processed' = processed \cup {n}
  /\ UNCHANGED <<canvas, session, rule, stage, submitted, failure>>

NoMatch(at, matches, next) ==
  /\ stage = at
  /\ matches = {}
  /\ Enter(next)
  /\ UNCHANGED <<canvas, session, graph, rule, submitted, failure>>

\* expand_dataset_refs
DatasetRefs == IF session.dataset THEN Named("dorian.io.dataset") ELSE {}
ExpandADataset == \E n \in DatasetRefs : Match("dataset", n, {ExpandDataset(graph, n)})
DatasetsExpanded == NoMatch("dataset", DatasetRefs, "state")

\* expand_state_refs starts over as long as a state parameter is left: it keeps no
\* record of those it could not expand.
StateRefs == {n \in Nodes(graph) : IsState(graph, n)}
ExpandAState ==
  /\ stage = "state"
  /\ \E n \in StateRefs : graph' = ExpandState(graph, n)
  /\ UNCHANGED <<canvas, session, rule, processed, stage, submitted, failure>>
StatesExpanded == NoMatch("state", StateRefs, "encoding")

\* sync_apply forgets which nodes it has matched (faulty).
UnencodedAgain == IF session.categorical THEN Named("train_test_split") ELSE {}

\* expand_categorical_encoding
Unencoded == IF session.categorical THEN Named("train_test_split") \ processed ELSE {}
EncodeASplit == \E n \in Unencoded : Match("encoding", n, InsertEncoder(graph, n))
SplitsEncoded == NoMatch("encoding", Unencoded, "compound")

\* expand_compound_operators: sorting the data edges of a candidate may raise, which the
\* run reports as a failed expansion.
Unsorted == {n \in Candidates(graph) : Unsortable(graph, n)}
ExpandAClass == \E n \in Classes(graph) \ Unsorted : Match("compound", n, ExpandCompound(graph, n))
ExpansionRaises ==
  /\ stage = "compound"
  /\ Unsorted # {}
  /\ Fail("expansion")
  /\ UNCHANGED <<canvas, session, graph, rule, submitted>>
ClassesExpanded == NoMatch("compound", Classes(graph) \cup Unsorted, "printout")

\* expand_printout_nodes
ExpandAPrintout ==
  \E n \in Named("dorian.io.printout") : Match("printout", n, {ExpandPrintout(graph, n)})
PrintoutsExpanded == NoMatch("printout", Named("dorian.io.printout"), "post_expansion_validation")

EnvParams == {n \in Nodes(graph) : Is(graph, n, "parameter") /\ graph.nodes[n].dtype = "env"}

\* resolve_vault_references: a variable may be missing from the vault.
ResolveVault ==
  /\ stage = "vault"
  /\ \/ /\ session.vault \/ EnvParams = {}
        /\ graph' = [graph EXCEPT !.nodes =
             [n \in Nodes(graph) |-> IF n \in EnvParams THEN [@[n] EXCEPT !.dtype = "string"] ELSE @[n]]]
        /\ Enter("guards")
        /\ UNCHANGED failure
     \/ /\ EnvParams # {}
        /\ Fail("vault_resolution")
        /\ UNCHANGED graph
  /\ UNCHANGED <<canvas, session, rule, submitted>>

\* The guards after expansion: nothing is left for the platform to fill in.
Unresolved == StateRefs \cup UNION {Named(name) : name \in Platform}
Guards ==
  /\ stage = "guards"
  /\ IF Unresolved = {} THEN Enter("ready") /\ UNCHANGED failure ELSE Fail("expansion")
  /\ UNCHANGED <<canvas, session, graph, rule, submitted>>

Prepare ==
  \/ FlattenGroup \/ Parsed \/ ValidateParsed
  \/ ExpandADataset \/ DatasetsExpanded \/ ExpandAState \/ StatesExpanded
  \/ EncodeASplit \/ SplitsEncoded
  \/ ExpandAClass \/ ExpansionRaises \/ ClassesExpanded
  \/ ExpandAPrintout \/ PrintoutsExpanded
  \/ ValidateExpanded \/ ResolveVault \/ Guards

Next == Accept \/ Rewrite \/ StoreRewritten \/ Submit \/ Prepare

Spec == Init /\ [][Next]_vars

\* The thread of a run goes on; whether the user submits is up to the user.
FairSpec == Spec /\ WF_vars(Prepare)

-----------------------------------------------------------------------------
(* Properties. *)

\* The groups that were lost on the way through the engine.
Dropped == IF rule[1] \in AddOnly THEN Groups(canvas) ELSE {}

\* No rewrite and no expansion makes a sound pipeline unsound: rewiring closes no cycle, also
\* when an encoder is put upstream of the splitter that feeds it (insert_x_preprocessor's
\* cycle guard), and leaves no edge at a node that is gone, except at a group that the engine
\* drops; a pipeline with such an edge does not pass validation.
GraphStaysSound ==
  /\ Sound(canvas) =>
       /\ Acyclic(graph)
       /\ \A e \in Dangling(graph) : {e.src, e.dst} \cap Dropped # {}
  /\ stage \in {"dataset", "state", "encoding", "compound", "ready"} => Sound(graph)

\* What the splitter sets aside for testing reaches no fit: the expansion sends X_test past
\* fit to a call of its own. Accepting the label encoder is the exception, it reads one
\* output of the splitter for all.
TrainingSeesNoTestData ==
  stage = "ready" /\ rule[1] # "insert-label-encoder-before" =>
    LET tested == {e.dst : e \in {x \in graph.edges : /\ x.src \in Splitters(graph)
                                                      /\ x.out \in {1, 3}}}
    IN  \A n \in After(graph, tested) :
          graph.nodes[n].kind = "operator" => graph.nodes[n].name # "fit"

\* The expansion of a canvas node and the node share the first part of the id.
Of(n) == n[1]

\* x is what has become of e.
StandsFor(g, x, e) ==
  /\ Of(x.src) = Of(e.src) /\ Of(x.dst) = Of(e.dst)
  /\ e.src \in Nodes(g) => x.src = e.src /\ x.out = e.out

\* A dataset and a state parameter give way to what takes no input, and a guardrail keeps one
\* of the inputs it guards.
TakesNothing(g, n) ==
  IsState(g, n) \/ (Is(g, n, "operator") /\ g.nodes[n].name = "dorian.io.dataset")
Guardrail(g, n) ==
  Is(g, n, "operator") /\ ~Expanded(n) /\ Interface(g.nodes[n].name) = "Guardrail"
Unread(g, e) ==
  \/ TakesNothing(g, e.dst)
  \/ /\ Guardrail(g, e.dst) /\ e \in DataInto(g, e.dst)
     /\ \E d \in DataInto(g, e.dst) : d # e

\* Every wire between two nodes of the pipeline that was submitted is in the one that is
\* executed: something made of its source feeds something made of its destination, and the
\* same output of the source does when that was not expanded. Only what the destination
\* does not read is gone.
NoWireIsLost ==
  stage = "ready" =>
    \A e \in submitted.edges \ Dangling(submitted) :
      Unread(submitted, e) \/ \E x \in graph.edges : StandsFor(graph, x, e)

KnownState(g) ==
  \A n \in Nodes(g) : IsState(g, n) => g.nodes[n].value \in StateKeys

\* A submitted run is prepared or fails, unless it names a state key that is not allowed.
PreparationEnds ==
  (stage \in Running /\ KnownState(submitted)) ~> (stage \in {"ready", "failed"})
=============================================================================
