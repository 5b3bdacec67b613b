------------------------------- MODULE Raidz -------------------------------
(***************************************************************************)
(* Geometry of one block on a RAIDZ vdev: src/zfsrescue/raidz.py.          *)
(*                                                                         *)
(* Everything is counted in sectors of 2^ashift bytes (b is the offset of  *)
(* a block, s its I/O size), except the physical size p of a block, which  *)
(* is counted in 512-byte units as in a block pointer: SectorUnits of them *)
(* make a sector.  A column is named by its index in the row, 0..scols-1.  *)
(***************************************************************************)
EXTENDS Integers, FiniteSets

CONSTANTS
  DCols,        \* children of the vdev (dcols)
  NParity,      \* parity columns (nparity)
  SectorUnits,  \* 512-byte units in a sector: 2^(ashift-9)
  RotSectors    \* sectors in 1 MiB: the parity of raidz1 rotates that often

ASSUME RaidzAssumption ==
  /\ DCols \in Nat
  /\ NParity \in Nat \ {0}
  /\ DCols > NParity
  /\ SectorUnits \in Nat \ {0}
  /\ RotSectors \in Nat \ {0}

Devices == 0 .. DCols - 1

RoundUp(x, y) == ((x + y - 1) \div y) * y

-----------------------------------------------------------------------------
(* Sizes.                                                                  *)

\* zio rounds the I/O of a block up to whole sectors.
IoSize(p) == RoundUp(p, SectorUnits) \div SectorUnits

\* Mutant: the parity of a last, incomplete row is not reserved.
RaidzAsize_ShortRow(p) ==
  LET data == (p - 1) \div SectorUnits + 1
  IN  RoundUp(data + NParity * (data \div (DCols - NParity)), NParity + 1)

\* Sectors the allocator reserves for the block, padding included.
RaidzAsize(p) ==
  LET data == (p - 1) \div SectorUnits + 1
  IN  RoundUp(data + NParity * ((data + DCols - NParity - 1)
                                  \div (DCols - NParity)),
              NParity + 1)

FullRows(s)  == s \div (DCols - NParity)                   \* q
Remainder(s) == s - FullRows(s) * (DCols - NParity)        \* r
BigCols(s)   == IF Remainder(s) = 0 THEN 0 ELSE Remainder(s) + NParity
Total(s)     == s + NParity * (FullRows(s)
                                 + (IF Remainder(s) = 0 THEN 0 ELSE 1))

AccessedCols(s) == IF FullRows(s) = 0 THEN BigCols(s) ELSE DCols   \* acols

StripeCols(s) ==                                                   \* scols
  IF FullRows(s) # 0 THEN DCols
  ELSE LET padded == RoundUp(BigCols(s), NParity + 1)
       IN  IF padded < DCols THEN padded ELSE DCols

\* Sectors of padding that complete the reservation (nskip).
Skipped(s) == RoundUp(Total(s), NParity + 1) - Total(s)
DvaAsize(s) == Total(s) + Skipped(s)

-----------------------------------------------------------------------------
(* Columns.                                                                *)

Columns(s) == 0 .. StripeCols(s) - 1

ColSize(s, c) ==
  IF c >= AccessedCols(s) THEN 0
  ELSE FullRows(s) + (IF c < BigCols(s) THEN 1 ELSE 0)

DataCols(s)   == {c \in Columns(s) : ColSize(s, c) # 0 /\ c >= NParity}
ParityCols(s) == {c \in Columns(s) : ColSize(s, c) # 0 /\ c < NParity}

\* raidz1 swaps its first two columns every other MiB.
Rotated(b) == NParity = 1 /\ (b \div RotSectors) % 2 = 1

\* The place a column takes in the row once parity has been rotated.
Place(b, c) == IF Rotated(b) /\ c \in {0, 1} THEN 1 - c ELSE c

\* Mutant: the device does not wrap around with the row, as when parity is
\* rotated by devices alone.
DevIdx_Fixed(b, c) == Place(b, c)

DevIdx(b, c) ==
  LET col == (b % DCols) + Place(b, c)
  IN  IF col >= DCols THEN col - DCols ELSE col

DevOffset(b, c) ==
  b \div DCols + (IF (b % DCols) + Place(b, c) >= DCols THEN 1 ELSE 0)

\* The physical sectors <<device, row>> that hold the block.
Footprint(b, s) ==
  UNION {{<<DevIdx(b, c), DevOffset(b, c) + k>> : k \in 0 .. ColSize(s, c) - 1}
           : c \in Columns(s)}

-----------------------------------------------------------------------------
(* What a set of available devices allows: analyse_availability().         *)

MissingData(b, s, avail)   == {c \in DataCols(s) : DevIdx(b, c) \notin avail}
MissingParity(b, s, avail) == {c \in ParityCols(s) : DevIdx(b, c) \notin avail}

\* Mutant: lost parity columns still count.
UsableParity_All(b, s, avail) == Cardinality(ParityCols(s))

UsableParity(b, s, avail) ==
  Cardinality(ParityCols(s)) - Cardinality(MissingParity(b, s, avail))

\* Mutant: as many losses as there is parity are one too many.
Verdict_Strict(b, s, avail) ==
  IF MissingData(b, s, avail) = {} THEN "COMPLETE"
  ELSE IF Cardinality(MissingData(b, s, avail)) < UsableParity(b, s, avail)
       THEN "RECONSTRUCTIBLE"
       ELSE "MISSING_DATA"

Verdict(b, s, avail) ==
  IF MissingData(b, s, avail) = {} THEN "COMPLETE"
  ELSE IF Cardinality(MissingData(b, s, avail)) <= UsableParity(b, s, avail)
       THEN "RECONSTRUCTIBLE"
       ELSE "MISSING_DATA"

-----------------------------------------------------------------------------
(* Contents.  A sector is one bit: XOR works on every bit alone.           *)

Cells(s) == {x \in DataCols(s) \X (1 .. ColSize(s, 0)) : x[2] <= ColSize(s, x[1])}

\* The XOR of row k over the data columns in cols, each on its own length.
XorRow(s, content, cols, k) ==
  Cardinality({c \in cols : k <= ColSize(s, c) /\ content[<<c, k>>] = 1}) % 2

\* Column P as ZFS writes it (vdev_raidz_generate_parity_p).
ParityP(s, content) ==
  [k \in 1 .. ColSize(s, 0) |-> XorRow(s, content, DataCols(s), k)]

\* Mutant: the column being rebuilt takes part in its own reconstruction.
Reconstruct_WithItself(s, content, parity, lost) ==
  [k \in 1 .. ColSize(s, lost) |->
     (parity[k] + XorRow(s, content, DataCols(s), k)) % 2]

\* reconstruct_raidz1: a lost data column from P and the others.
Reconstruct(s, content, parity, lost) ==
  [k \in 1 .. ColSize(s, lost) |->
     (parity[k] + XorRow(s, content, DataCols(s) \ {lost}, k)) % 2]
=============================================================================
