SPECIFICATION Spec
CONSTANTS
  Names <- Paths
  Archives <- PlainArchives
  Images <- SomeImages
  Faults = {FALSE}
  Bisects = {FALSE}
PROPERTIES
  ReachesTWRP
CHECK_DEADLOCK FALSE
