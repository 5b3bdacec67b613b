SPECIFICATION Spec
CONSTANTS
  Media <- MCMedia
  Closed <- MCClosed
  Written <- MCWritten
  Tables <- MCTables
  BigEnough <- MCBigEnough
  Tree <- MCTree
  Time <- MCTime
  MosCopies <- MCMosCopies
  Parity <- MCParity
  Commands <- Raidz2Commands
  Damages <- NoDamages
INVARIANT PromiseAlwaysKept
CHECK_DEADLOCK FALSE
