SPECIFICATION Spec
CONSTANTS
  Media <- MCMedia
  Closed <- MCClosed
  Written <- MCWritten
  Tables <- MCTables
  BigEnough <- MCBigEnough
  Tree <- MCTree
  Time <- MCTime
  MosCopies <- MCMosCopies
  Parity <- MCParity
  Commands <- MCCommands
  Damages <- MCDamages
INVARIANTS
  TypeOK
  RightOrigin
  ReportedIsRead
  NoStrayDescriptor
  NewestReadable
  PromiseKept
CHECK_DEADLOCK FALSE
