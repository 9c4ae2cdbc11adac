SPECIFICATION Spec
CONSTANTS
  Archives <- Residues
  Faults = {FALSE}
INVARIANTS
  ContentExact
CHECK_DEADLOCK FALSE
