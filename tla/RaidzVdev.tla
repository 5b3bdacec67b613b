----------------------------- MODULE RaidzVdev -----------------------------
(***************************************************************************)
(* A RAIDZ vdev in use: blocks reserved one after the other in its linear  *)
(* space, the way the sizes in block pointers say ZFS reserves them, while *)
(* devices leave and come back.  The properties relate the geometry the    *)
(* rescue tool recomputes for each block to the blocks around it and to    *)
(* the devices that are left.                                              *)
(***************************************************************************)
EXTENDS Raidz

CONSTANTS
  MaxPsize,     \* largest physical size, in 512-byte units
  MaxGap,       \* most sectors left free before a block
  MaxBlocks     \* blocks reserved in a behaviour (a bound of the model)

ASSUME VdevAssumption ==
  MaxPsize \in Nat \ {0} /\ MaxGap \in Nat /\ MaxBlocks \in Nat

VARIABLES
  free,         \* first sector not reserved
  blocks,       \* blocks reserved: records [off, psize]
  avail         \* devices that can be read

vars == <<free, blocks, avail>>

TypeOK ==
  /\ free \in Nat
  /\ blocks \subseteq [off : Nat, psize : 1 .. MaxPsize]
  /\ avail \subseteq Devices

Init ==
  /\ free = 0
  /\ blocks = {}
  /\ avail = Devices

\* Mutant: the physical size kept for a block is its I/O size.
Allocate_Rounded(gap, p) ==
  /\ Cardinality(blocks) < MaxBlocks
  /\ blocks' = blocks \cup {[off |-> free + gap, psize |-> RoundUp(p, SectorUnits)]}
  /\ free' = free + gap + RaidzAsize(p)
  /\ UNCHANGED avail

\* A block is reserved after the previous one, at once or after a gap.
Allocate(gap, p) ==
  /\ Cardinality(blocks) < MaxBlocks
  /\ blocks' = blocks \cup {[off |-> free + gap, psize |-> p]}
  /\ free' = free + gap + RaidzAsize(p)
  /\ UNCHANGED avail

LoseDevice(d) ==
  /\ d \in avail
  /\ avail' = avail \ {d}
  /\ UNCHANGED <<free, blocks>>

ReturnDevice(d) ==
  /\ d \notin avail
  /\ avail' = avail \cup {d}
  /\ UNCHANGED <<free, blocks>>

Next ==
  \/ \E gap \in 0 .. MaxGap, p \in 1 .. MaxPsize : Allocate(gap, p)
  \/ \E d \in Devices : LoseDevice(d) \/ ReturnDevice(d)

Spec == Init /\ [][Next]_vars

-----------------------------------------------------------------------------
Size(blk) == IoSize(blk.psize)
Sectors(blk) == Footprint(blk.off, Size(blk))

\* Two blocks never share a physical sector: raidz_map_alloc() keeps every
\* column of a block inside the reservation raidz_asize() computes, whatever
\* the wrap around the devices and the rotation of parity.  A tool that gets
\* this wrong reads the sectors of a neighbour.
NoOverlap ==
  \A x, y \in blocks : x # y => Sectors(x) \cap Sectors(y) = {}

\* The columns of a block cover exactly the sectors off .. off+total-1 of the
\* vdev's linear space, and with the padding exactly the reservation written
\* in the DVA (dva_asize = raidz_asize).
LayoutTiles ==
  \A x \in blocks :
    /\ Sectors(x) = {<<i % DCols, i \div DCols>> :
                       i \in x.off .. x.off + Total(Size(x)) - 1}
    /\ DvaAsize(Size(x)) = RaidzAsize(x.psize)

\* Losing at most NParity devices never costs a block: analyse_availability()
\* then finds every block complete or reconstructible.
FewLossesSurvivable ==
  Cardinality(Devices \ avail) <= NParity =>
    \A x \in blocks : Verdict(x.off, Size(x), avail) # "MISSING_DATA"

\* A block is declared irrecoverable exactly when the code could not correct
\* it: some data column is lost and more columns are lost than there is parity.
VerdictExact ==
  \A x \in blocks :
    LET lost == {c \in Columns(Size(x)) : /\ ColSize(Size(x), c) # 0
                                          /\ DevIdx(x.off, c) \notin avail}
    IN  (Verdict(x.off, Size(x), avail) = "MISSING_DATA") <=>
          /\ Cardinality(lost) > NParity
          /\ \E c \in lost : c >= NParity

\* Single parity rebuilds any one lost data column bit for bit, whatever the
\* block holds: P is at least as long as the column it stands for.
ReconstructExact ==
  NParity = 1 =>
    \A x \in blocks : \A content \in [Cells(Size(x)) -> {0, 1}] :
      \A lost \in DataCols(Size(x)) :
        Reconstruct(Size(x), content, ParityP(Size(x), content), lost)
          = [k \in 1 .. ColSize(Size(x), lost) |-> content[<<lost, k>>]]
=============================================================================
