SPECIFICATION CodecSpec
CONSTANTS
  KB64 = 80
  DISTANCE_MAX = 79
  KB4 = 48
  GB1 = 320
  IndexLimit = 1260
  IndexSpan = 2480
  MAX_INPUT_SIZE = 1180
  Junk = 254
  Buckets = 61
  Hash <- SomeHash
  Scenarios <- AllScenarios
  Plans <- AllPlans
INVARIANTS
  Exact
  RoundTrip
  Fits
  ReadsHistory
  
PROPERTIES
  StaysInside
  ImplementsIndexes
