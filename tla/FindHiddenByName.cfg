SPECIFICATION Spec
CONSTANTS
  Objects <- MCObjects
  MaxDepth <- MCMaxDepth
  Commands <- MCCommands
  Damages <- MCDamages
INVARIANT NamedIsOffered
