\* Two files in two datasets, two and one blocks, the second one null on the
\* pool; three commands, runs that keep partial files apart, other options any.
CONSTANTS
  NFiles = 2
  Dataset <- TwoDatasets
  Target <- Apart
  Ancestors <- NoAncestors
  NBlocks <- Sizes
  Sized <- SizesOrNone
  Length <- HalfSizes
  NullBlocks <- Null2
  Options <- ApartOptions
  MaxRuns = 3
  Unknown = Unknown
  Absent = Absent
  Nowhere = Nowhere
  NoResult = NoResult
  NoReport = NoReport
  Truncated = Truncated
SPECIFICATION Spec
INVARIANTS TypeOK ReportMatchesDisk
PROPERTIES WholeStaysWhole WorkIsNotRedone
CHECK_DEADLOCK FALSE
