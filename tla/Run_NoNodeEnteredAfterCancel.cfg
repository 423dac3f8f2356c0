SPECIFICATION Spec
CONSTANTS
  n1 = n1
  n2 = n2
  n3 = n3
  Nodes <- ForkNodes
  Deps <- ForkDeps
PROPERTY NoNodeEnteredAfterCancel
CHECK_DEADLOCK FALSE
