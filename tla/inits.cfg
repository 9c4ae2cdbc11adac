SPECIFICATION InitsSpec
CONSTANTS
  Versions = {"v3", "v4"}
  Faults = {TRUE, FALSE}
  EarlyFaults = TRUE
INVARIANTS
  OffIsLast
  LogConsistent
  OneTrace
PROPERTIES
  TakesRenamed
  SleepsForEver
CHECK_DEADLOCK FALSE
