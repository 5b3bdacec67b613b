\* Two runs, of which one cannot read the layout of the attributes.
CONSTANTS
  NFiles = 2
  Dataset <- OneDataset
  Target <- Apart
  Ancestors <- NoAncestors
  NBlocks <- Sizes
  Sized <- SizesOrNone
  Length <- HalfSizes
  NullBlocks <- NoNull
  Options <- OnlyDefault
  MaxRuns = 2
  Unknown = Unknown
  Absent = Absent
  Nowhere = Nowhere
  NoResult = NoResult
  NoReport = NoReport
  Truncated = Truncated
SPECIFICATION Spec
PROPERTY ExactStaysExact
CHECK_DEADLOCK FALSE
