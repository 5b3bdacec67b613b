SPECIFICATION Spec
CONSTANTS
  NLevels <- MCNLevels
  NBlkptr <- MCNBlkptr
  Epb <- MCEpb
  Span <- MCSpan
  MaxBlkid <- MCMaxBlkid
  Holes <- MCHoles
  Entries <- MCEntries
  Weight <- MCWeight
  CacheMax = 2
  Outages <- MCOutages
  MaxGlitches = 3
  PerBlock <- MCPerBlock
  Dnodes <- MCDnodes
  ExtraSlots <- MCExtraSlots
INVARIANTS
  WalkTypeOK
  AnswerExact
  CacheAccounted
  PathKept
  WalkExact
