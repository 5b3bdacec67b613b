\* Two datasets whose names differ by "/" and "_" only.
CONSTANTS
  NFiles = 2
  Dataset <- TwoDatasets
  Target <- Shared
  Ancestors <- SharedAncestors
  NBlocks <- Sizes
  Sized <- SizesKnown
  Length <- HalfSizes
  NullBlocks <- NoNull
  Options <- OnlyDefault
  MaxRuns = 1
  Unknown = Unknown
  Absent = Absent
  Nowhere = Nowhere
  NoResult = NoResult
  NoReport = NoReport
  Truncated = Truncated
SPECIFICATION Spec
INVARIANT ReportMatchesDisk
CHECK_DEADLOCK FALSE
