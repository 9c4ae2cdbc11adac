SPECIFICATION Spec
CONSTANTS
  Archives <- Everything
  Faults = {TRUE, FALSE}
INVARIANTS
  TypeOK
  InStep
  NothingSkipped
  NothingForeign
  VerdictRight
PROPERTIES
  NodesStay
  ImplementsWalk
  Terminates
CHECK_DEADLOCK FALSE
