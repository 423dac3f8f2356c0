----------------------- MODULE MCPipelinePreparation -----------------------
(* Pipelines and mitigations for TLC. *)
EXTENDS PipelinePreparation, TLC

Data == <<"data">> :> Operator("dorian.io.dataset")
Split == <<"split">> :> Operator("train_test_split")
Classifier == <<"clf">> :> Operator("SGDClassifier")
Score == (<<"score">> :> Operator("accuracy_score")) @@ (<<"show">> :> Operator("dorian.io.printout"))
Penalty == <<"penalty">> :> Parameter("penalty", "str", "1")

\* X and y of the dataset into the splitter, and the score of a classifier.
Loaded == {Edge(<<"data">>, <<"split">>, "0", 0), Edge(<<"data">>, <<"split">>, "1", 1)}
Scored == {Edge(<<"split">>, <<"score">>, "0", 3), Edge(<<"clf">>, <<"score">>, "1", 0),
           Edge(<<"score">>, <<"show">>, "0", 0)}

\* As the editor draws it: the edges end at named ports.
Tabular ==
  [nodes |-> Data @@ Split @@ Classifier @@ Score @@ Penalty
               @@ (<<"scaler">> :> Operator("StandardScaler")),
   edges |-> Loaded \cup Scored \cup
     {Edge(<<"split">>, <<"scaler">>, "X", 0), Edge(<<"split">>, <<"scaler">>, "X_test", 1),
      Edge(<<"scaler">>, <<"clf">>, "X", 0), Edge(<<"scaler">>, <<"clf">>, "X_test", 1),
      Edge(<<"split">>, <<"clf">>, "y", 2), Edge(<<"penalty">>, <<"clf">>, "penalty", 0)}]

\* With the port names of the generated pipelines, a scaler before the splitter and a
\* supervised transformer after it.
Generated ==
  [nodes |-> Data @@ Split @@ Classifier @@ Score
               @@ (<<"scaler">> :> Operator("StandardScaler"))
               @@ (<<"select">> :> Operator("SelectKBest"))
               @@ (<<"k">> :> Parameter("score_func", "int", "2")),
   edges |-> Scored \cup
     {Edge(<<"data">>, <<"scaler">>, "X", 0), Edge(<<"scaler">>, <<"split">>, "0", 0),
      Edge(<<"data">>, <<"split">>, "1", 1), Edge(<<"k">>, <<"select">>, "score_func", 0),
      Edge(<<"split">>, <<"select">>, "X_train", 0), Edge(<<"split">>, <<"select">>, "X_test", 1),
      Edge(<<"split">>, <<"select">>, "y_train", 2), Edge(<<"select">>, <<"clf">>, "X_train", 0),
      Edge(<<"select">>, <<"clf">>, "X_test", 1), Edge(<<"split">>, <<"clf">>, "y_train", 2)}]

\* Imported, with numbered positions and no splitter.
Unsplit ==
  [nodes |-> Data @@ Classifier @@ (<<"scaler">> :> Operator("StandardScaler")),
   edges |-> {Edge(<<"data">>, <<"scaler">>, "0", 0), Edge(<<"scaler">>, <<"clf">>, "0", 0),
              Edge(<<"data">>, <<"clf">>, "1", 1), Edge(<<"scaler">>, <<"clf">>, "2", 0)}]

\* The classifier as a group of the editor, next to two that have no interface.
Grouped ==
  LET m(name) == <<"clf", "cx", name>>
  IN  [nodes |-> Data @@ Split @@ Score @@ Penalty @@
         (<<"lr">> :> Operator("LogisticRegression")) @@
         (<<"cv">> :> Operator("LogisticRegressionCV")) @@
         (<<"clf">> :>
            [kind |-> "group",
             children |-> (m("__init__") :> Operator("SGDClassifier"))
                            @@ (m("fit") :> Operator("fit")) @@ (m("predict") :> Operator("predict")),
             inner |-> {Edge(m("__init__"), m("fit"), "0", 0), Edge(m("fit"), m("predict"), "0", 0)},
             ins |-> ("X" :> <<m("fit"), "1">>) @@ ("y" :> <<m("fit"), "2">>)
                       @@ ("X_test" :> <<m("predict"), "1">>),
             outs |-> (0 :> <<m("predict"), 1>>),
             last |-> m("predict")]),
       edges |-> Loaded \cup Scored \cup
         {Edge(<<"split">>, <<"lr">>, "0", 0), Edge(<<"split">>, <<"cv">>, "0", 0),
          Edge(<<"split">>, <<"clf">>, "X", 0), Edge(<<"split">>, <<"clf">>, "X_test", 1),
          Edge(<<"split">>, <<"clf">>, "y", 2), Edge(<<"penalty">>, <<"clf">>, "penalty", 0)}]

\* A language model asked about columns of the dataset.
Chat(key) ==
  [nodes |-> Data @@ (<<"columns">> :> Parameter("dorian.io.state", "state", key))
               @@ (<<"prompt">> :> Snippet("prompt"))
               @@ (<<"chat">> :> Operator("chat.completion"))
               @@ (<<"t">> :> Parameter("temperature", "float", "1.0"))
               @@ (<<"show">> :> Operator("dorian.io.printout")),
   edges |-> {Edge(<<"data">>, <<"prompt">>, "0", 0), Edge(<<"columns">>, <<"prompt">>, "columns", 0),
              Edge(<<"prompt">>, <<"chat">>, "messages", 0), Edge(<<"t">>, <<"chat">>, "temperature", 0),
              Edge(<<"chat">>, <<"show">>, "0", 0)}]

\* Two snippets that wait for each other.
Cyclic ==
  [nodes |-> [n \in {<<"a">>, <<"b">>} |-> Snippet("step")],
   edges |-> {Edge(<<"a">>, <<"b">>, "0", 0), Edge(<<"b">>, <<"a">>, "0", 0)}]

\* Nothing.
Empty == [nodes |-> [n \in {} |-> Snippet("none")], edges |-> {}]

Drawn == {Tabular, Generated, Unsplit, Grouped, Chat("dataset.features"), Chat("dataset.size"),
          Cyclic, Empty}

AnyMitigation ==
  {<<r, "SGDClassifier">> :
     r \in {"force-random-state", "class-weight-balancing", "resampling", "fix-sgd-penalty-int",
            "insert-ordinal-encoder-before", "insert-dense-converter-before",
            "insert-label-encoder-before", Fix}}
  \cup {<<r, "LogisticRegression">> :
          r \in {"force-random-state", "class-weight-balancing", "resampling"}}
  \cup {<<r, "StandardScaler">> : r \in {"robust-scaling", "insert-ordinal-encoder-before"}}
  \cup {<<r, "chat.completion">> : r \in {"output-guardrail", "input-guardrail"}}
  \cup {<<"stratified-splitting", "train_test_split">>, <<"fix-score-func-callable", "SelectKBest">>}

Longer == {<<"LogisticRegressionCV", "LogisticRegression">>}
=============================================================================
