\* One run, two datasets, one interruption.
CONSTANTS
  NFiles = 2
  Dataset <- TwoDatasets
  Target <- Apart
  Ancestors <- NoAncestors
  NBlocks <- Sizes
  Sized <- SizesKnown
  Length <- HalfSizes
  NullBlocks <- Null2
  Options <- OnlyDefault
  MaxRuns = 1
  Unknown = Unknown
  Absent = Absent
  Nowhere = Nowhere
  NoResult = NoResult
  NoReport = NoReport
  Truncated = Truncated
SPECIFICATION Spec
PROPERTY ReportSurvives
CHECK_DEADLOCK FALSE
