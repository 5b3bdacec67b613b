SPECIFICATION Spec
CONSTANTS
  Objects <- MCObjects
  MaxDepth <- MCMaxDepth
  Commands <- MCCommands
  Damages <- MCDamages
INVARIANTS
  TypeOK
  ReadableIsOffered
  NamesTrue
  PathsTell
  AttributesTrue
PROPERTY
  NamespaceEnds
