SPECIFICATION Spec
CONSTANTS
  Ramdisks <- AllRamdisks
  Faults = {TRUE, FALSE}
INVARIANTS
  ChildrenInOrder
  DiagnosisTrue
PROPERTIES
  ImplementsPromise
  Decides
  Arrives
CHECK_DEADLOCK FALSE
