SPECIFICATION Spec
CONSTANTS
  KB64 = 80
  DISTANCE_MAX = 79
  KB4 = 48
  GB1 = 320
  IndexLimit = 640
  IndexSpan = 1280
  MAX_INPUT_SIZE = 560
  Junk = 254
  Scenarios <- Rings
INVARIANTS
  RingSuffices
