SPECIFICATION Spec
CONSTANTS
  KB64 = 14
  DISTANCE_MAX = 13
  KB4 = 13
  GB1 = 16
  IndexLimit = 39
  IndexSpan = 84
  MAX_INPUT_SIZE = 25
  Sizes <- SomeSizes
  Buckets = 1
INVARIANTS
  CandidatesInHistory
  IndexFits
