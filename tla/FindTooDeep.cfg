SPECIFICATION Spec
CONSTANTS
  Objects <- MCObjects
  MaxDepth = 1
  Commands <- MCCommands
  Damages <- MCDamages
INVARIANT HiddenIsSaid
