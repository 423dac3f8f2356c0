-------------------------- MODULE PipelineExpansion --------------------------
(***************************************************************************)
(* The expansions a run makes of a pipeline before it executes it          *)
(* (pipeline/transforms.py, state.py, printout.py): each replaces one      *)
(* matched node.                                                           *)
(***************************************************************************)
EXTENDS PipelineGraph

\* _expand_dataset: a file loader, and a snippet that splits X from y when the y port
\* of the dataset is used.
ExpandDataset(g, n) ==
  LET loader == n \o <<"loader">>
      fpath == n \o <<"fpath">>
      split == n \o <<"split_xy">>
      columns == {n \o <<"features">>, n \o <<"target">>}
      load == Plus(Plus(Minus(g, {n}), At(loader, Operator("read_csv")), {}),
                   At(fpath, Parameter("fpath", "str", "file")),
                   {Edge(fpath, loader, "0", 0)})
  IN  IF \A e \in From(g, n) : e.out # 1
      THEN WithEdges(load, load.edges \cup {[e EXCEPT !.src = loader] : e \in From(g, n)})
      ELSE Plus(Plus(load, At(split, Snippet("split_xy")), {}),
                [c \in columns |-> Parameter(c[Len(c)], "eval", "columns")],
                {Edge(loader, split, "0", 0)}
                  \cup {Edge(c, split, c[Len(c)], 0) : c \in columns}
                  \cup {Edge(split, e.dst, e.pos, IF e.out = 1 THEN 1 ELSE 0) : e \in From(g, n)})

StateKeys == {"dataset.features", "dataset.target"}

IsState(g, n) == Is(g, n, "parameter") /\ g.nodes[n].dtype = "state"

\* _expand_state: a key outside the allow-list leaves the graph unchanged.
ExpandState(g, n) ==
  LET value == n \o <<"state">>
  IN  IF g.nodes[n].value \notin StateKeys THEN g
      ELSE Plus(Minus(g, {n}), At(value, Parameter(g.nodes[n].value, "eval", "value")),
                {[e EXCEPT !.src = value] : e \in From(g, n)})

Encodes(g) == \E n \in Nodes(g) : g.nodes[n].kind = "operator" /\ g.nodes[n].name = "OrdinalEncoder"

\* _insert_encoder: an encoder before the splitter, which reads X at position 0.
InsertEncoder(g, n) ==
  LET encoder == n \o <<"encoder">>
      options == {n \o <<"handle_unknown">>, n \o <<"unknown_value">>}
      x == {e \in DataInto(g, n) : e.pos = "0"}
  IN  IF Encodes(g) \/ x = {} THEN {g}
      ELSE {Plus(Plus(WithEdges(g, g.edges \ {e}), At(encoder, Operator("OrdinalEncoder")), {}),
                 [o \in options |-> Parameter(o[Len(o)], "str", "default")],
                 {Edge(e.src, encoder, "0", e.out), Edge(encoder, n, "0", 0)}
                   \cup {Edge(o, encoder, o[Len(o)], 0) : o \in options}) : e \in x}

\* _expand_printout
ExpandPrintout(g, n) ==
  LET shown == n \o <<"printout">>
  IN  Plus(Minus(g, {n}), At(shown, Snippet("printout")),
           {[e EXCEPT !.dst = shown] : e \in Into(g, n)}
             \cup {[e EXCEPT !.src = shown] : e \in From(g, n)})

(***************************************************************************)
(* _expand_compound_operator: a class becomes the chain of its methods.    *)
(***************************************************************************)
\* An operator the rule looks at: neither a method nor made by an expansion.
Candidates(g) ==
  {n \in Nodes(g) : /\ g.nodes[n].kind = "operator"
                    /\ g.nodes[n].name \notin MethodNames
                    /\ ~Expanded(n)}

Classes(g) == {n \in Candidates(g) : Len(Methods(Interface(g.nodes[n].name))) >= 2}

\* The rule sorts the data edges by position: a number and a name do not compare.
Unsortable(g, n) ==
  \E d, e \in DataInto(g, n) : Numeric(d.pos) /\ ~Numeric(e.pos)

\* A guardrail is its constructor and a snippet that hands the first input on.
ExpandGuardrail(g, n) ==
  LET init == n \o <<"cx", "__init__">>
      pass == n \o <<"cx", "passthrough">>
      \* the sorted edges begin with one of these
      first == {e \in DataInto(g, n) :
                  \A d \in DataInto(g, n) : Numeric(e.pos) /\ Numeric(d.pos)
                                              => NumberAt[e.pos] <= NumberAt[d.pos]}
      taken(E) ==
        Plus(Plus(Minus(g, {n}), At(init, Operator(g.nodes[n].name)), {}),
             At(pass, Snippet("passthrough")),
             {Edge(init, pass, "0", 0)}
               \cup {Edge(e.src, pass, "1", e.out) : e \in E}
               \cup {[e EXCEPT !.dst = IF g.nodes[e.src].name \in {"token", "device"}
                                       THEN init ELSE pass] : e \in ParamsInto(g, n)}
               \cup {Edge(pass, e.dst, e.pos, 0) : e \in From(g, n)})
  IN  IF first = {} THEN {taken({})} ELSE {taken({e}) : e \in first}

\* The input of the interface that a position names, with the "_train" aliases.
InputAt(interface, p) ==
  IF p \in Inputs(interface) THEN p
  ELSE IF p = "X_train" /\ "X" \in Inputs(interface) THEN "X"
  ELSE IF p = "y_train" /\ "y" \in Inputs(interface) THEN "y"
  ELSE "unknown"

\* The input that no method consumes gets no call of its own (faulty).
NoOrphans(g, n) == {}

\* Inputs that no method consumes and that are wired: a second call of the last method
\* takes each.
Orphans(g, n) ==
  LET interface == Interface(g.nodes[n].name)
      methods == Methods(interface)
  IN  {i \in Inputs(interface) : /\ Consumers(interface, i) = {}
                                 /\ methods[Len(methods)] # "predict"
                                 /\ \E e \in DataInto(g, n) : e.pos = i}

\* An input that no method consumes goes nowhere (faulty).
RouteConsumed(g, n, e) ==
  LET interface == Interface(g.nodes[n].name)
      input == InputAt(interface, e.pos)
  IN  {Edge(e.src, n \o <<"cx", m>>, input, e.out) : m \in Consumers(interface, input)}

\* _route_data_edges_by_kb: to every method that consumes the input, to the call made
\* for an orphan, or else to the first method after the constructor.
RouteData(g, n, e) ==
  LET interface == Interface(g.nodes[n].name)
      input == InputAt(interface, e.pos)
      node(m) == n \o <<"cx", m>>
  IN  IF Consumers(interface, input) # {}
      THEN {Edge(e.src, node(m), input, e.out) : m \in Consumers(interface, input)}
      ELSE IF input \in Orphans(g, n)
      THEN {Edge(e.src, node(input), "1", e.out)}
      ELSE {Edge(e.src, node(Methods(interface)[2]), e.pos, e.out)}

\* A method returns the instance (0) and its result (1). _route_outgoing_edges: the
\* knowledge base names its ports, so that no port number is an orphan's and every
\* edge leaves from the last method.
ExpandChain(g, n) ==
  LET interface == Interface(g.nodes[n].name)
      methods == Methods(interface)
      last == methods[Len(methods)]
      node(m) == n \o <<"cx", m>>
      called(m) == IF m = "__init__" THEN Operator(g.nodes[n].name)
                   ELSE Operator(IF m \in MethodNames THEN m ELSE last)
      calls == {methods[i] : i \in 1..Len(methods)} \cup Orphans(g, n)
  IN  Plus(Minus(g, {n}),
           [id \in {node(m) : m \in calls} |-> called(id[Len(id)])],
           {Edge(node(methods[i]), node(methods[i + 1]), "0", 0) : i \in 1..Len(methods) - 1}
             \cup {Edge(node(last), node(i), "0", 0) : i \in Orphans(g, n)}
             \cup (UNION {RouteData(g, n, e) : e \in DataInto(g, n)})
             \cup {[e EXCEPT !.dst = node(ParamMethod(interface, g.nodes[e.src].name))] :
                     e \in ParamsInto(g, n)}
             \cup {Edge(node(last), e.dst, e.pos, 1) : e \in From(g, n)})

ExpandCompound(g, n) ==
  IF Interface(g.nodes[n].name) = "Guardrail" THEN ExpandGuardrail(g, n) ELSE {ExpandChain(g, n)}
=============================================================================
