SPECIFICATION Spec
CONSTANTS
  NLabels = 2
  BufLen = 10
  MaxDepth = 2
  Sizes <- FewSizes
  Lengths <- MCLengths
  Types <- FewTypes
  Counts <- MCCounts
PROPERTY EveryLabelRead
CHECK_DEADLOCK FALSE
