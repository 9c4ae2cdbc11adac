SPECIFICATION Spec
CONSTANTS
  Versions = {"v3", "v4"}
  Faults = {FALSE}
PROPERTIES
  FallbackFinds
CHECK_DEADLOCK FALSE
