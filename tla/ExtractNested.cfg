\* The path of the second file goes through the first; three commands, runs
\* that keep partial files apart or mix them, resume, and sorts.
CONSTANTS
  NFiles = 2
  Dataset <- OneDataset
  Target <- Apart
  Ancestors <- Nested
  NBlocks <- TwoBlocks
  Sized <- SizesKnown
  Length <- TwoHalfSizes
  NullBlocks <- NoNull
  Options <- NestedOptions
  MaxRuns = 3
  Unknown = Unknown
  Absent = Absent
  Nowhere = Nowhere
  NoResult = NoResult
  NoReport = NoReport
  Truncated = Truncated
SPECIFICATION Spec
INVARIANTS ReportMatchesDisk
PROPERTIES OnlyVerifiedPlaced CommandsEnd
CHECK_DEADLOCK FALSE
