SPECIFICATION ChainSpec
CONSTANTS
  Trees <- Ramdisks
  Manifests <- Lists
  Rank <- Order
  Stray <- Foreign
  Sources <- AllSources
  Inserts = {TRUE, FALSE}
INVARIANTS
  ParentsFirst
  NothingLost
  HandedOn
  RoundTrip
  InsertedBehindDev
  FindsDev
PROPERTIES
  ChainEnds
CHECK_DEADLOCK FALSE
