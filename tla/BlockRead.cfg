\* raidz1 on 3 disks, two copies; blocks of one and of two sectors.
CONSTANTS
  DCols = 3
  NParity = 1
  SectorUnits = 2
  RotSectors = 4
  NCopies = 2
  Offset <- MCOffset
  Psizes = {2, 3}
  Checksums = {"computed", "off", "unsupported"}
SPECIFICATION Spec
INVARIANTS TypeOK NoInvention FindsIntactCopy MissingMeansLost RebuiltMeansRebuilt
PROPERTY ImplementsSource
CHECK_DEADLOCK FALSE
