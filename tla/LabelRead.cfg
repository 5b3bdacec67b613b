SPECIFICATION Spec
CONSTANTS
  NLabels = 2
  BufLen = 17
  MaxDepth = 2
  Sizes <- MCSizes
  Lengths <- MCLengths
  Types <- MCTypes
  Counts <- MCCounts
INVARIANTS
  TypeOK
  ListsAreChains
PROPERTY EndsOutsideEmptyPairs
CHECK_DEADLOCK FALSE
