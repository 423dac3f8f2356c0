SPECIFICATION FairSpec
CONSTANTS
  n1 = n1
  n2 = n2
  n3 = n3
  Nodes <- ForkNodes
  Deps <- ForkDeps
INVARIANTS
  SuccessIsReal
  FailedRunIsSettled
  ReportsAgree
PROPERTIES
  RecordIsFinal
  NodesMoveLegally
  RunConcludes
CHECK_DEADLOCK FALSE
