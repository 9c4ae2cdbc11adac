SPECIFICATION ChainSpec
CONSTANTS
  Trees <- SmallTrees
  Manifests <- Lists
  Rank <- Order
  Stray <- Foreign
  Sources = {}
  Inserts = {FALSE}
INVARIANTS
  Accepted
CHECK_DEADLOCK FALSE
