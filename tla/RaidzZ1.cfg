\* raidz1 on 4 disks, 2 units of 512 bytes per sector.  Parity rotates every 3
\* sectors, so both orientations meet every alignment of the two blocks.
CONSTANTS
  DCols = 4
  NParity = 1
  SectorUnits = 2
  RotSectors = 3
  MaxPsize = 9
  MaxGap = 5
  MaxBlocks = 2
SPECIFICATION Spec
INVARIANTS TypeOK NoOverlap LayoutTiles FewLossesSurvivable VerdictExact ReconstructExact
CHECK_DEADLOCK FALSE
