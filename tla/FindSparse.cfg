\* The second file was extended without being written.
CONSTANTS
  NFiles = 2
  Dataset <- OneDataset
  Target <- Apart
  Ancestors <- NoAncestors
  NBlocks <- Sizes
  Sized <- SizesKnown
  Length <- Extended2
  NullBlocks <- NoNull
  Options <- OnlyDefault
  MaxRuns = 1
  Unknown = Unknown
  Absent = Absent
  Nowhere = Nowhere
  NoResult = NoResult
  NoReport = NoReport
  Truncated = Truncated
SPECIFICATION Spec
INVARIANT CompleteIsExact
CHECK_DEADLOCK FALSE
