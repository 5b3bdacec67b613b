\* One run; the path of the second file goes through the first.
CONSTANTS
  NFiles = 2
  Dataset <- OneDataset
  Target <- Apart
  Ancestors <- Nested
  NBlocks <- TwoBlocks
  Sized <- SizesKnown
  Length <- TwoHalfSizes
  NullBlocks <- NoNull
  Options <- OnlyDefault
  MaxRuns = 1
  Unknown = Unknown
  Absent = Absent
  Nowhere = Nowhere
  NoResult = NoResult
  NoReport = NoReport
  Truncated = Truncated
SPECIFICATION Spec
INVARIANT MainTreeVerified
CHECK_DEADLOCK FALSE
