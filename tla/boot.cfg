SPECIFICATION Spec
CONSTANTS
  Names <- Paths
  Archives <- SomeArchives
  Images <- SomeImages
  Faults = {TRUE, FALSE}
  Bisects = {TRUE, FALSE}
INVARIANTS
  TypeOK
  DiagnosisTrue
  BisectSignal
PROPERTIES
  ImplementsPromise
  Decides
  Arrives
CHECK_DEADLOCK FALSE
