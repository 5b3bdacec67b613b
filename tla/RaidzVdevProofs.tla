-------------------------- MODULE RaidzVdevProofs --------------------------
(***************************************************************************)
(* The invariants of RaidzVdev, for every vdev and every run of blocks.    *)
(***************************************************************************)
EXTENDS RaidzVdev, RaidzTheorems

\* The blocks of a vdev have sizes raidz_map_alloc() accepts.
LEMMA BlockSize ==
  ASSUME TypeOK, NEW x \in blocks
  PROVE  /\ x.off \in Nat /\ x.psize \in Nat \ {0}
         /\ Size(x) \in Nat \ {0}
         /\ RaidzAsize(x.psize) \in Nat
         /\ Total(Size(x)) \in Nat
         /\ Total(Size(x)) <= RaidzAsize(x.psize)
<1>1. x.off \in Nat /\ x.psize \in Nat \ {0}
  BY VdevAssumption DEF TypeOK
<1> QED BY <1>1, IoSizeIsData, ReservationExact DEF Size

\* Every variable keeps its type.
THEOREM VdevTypeOK == Spec => []TypeOK
<1>1. Init => TypeOK
  BY RaidzAssumption DEF Init, TypeOK, Devices
<1>2. TypeOK /\ [Next]_vars => TypeOK'
  <2> SUFFICES ASSUME TypeOK, [Next]_vars PROVE TypeOK'
    OBVIOUS
  <2>1. ASSUME NEW gap \in 0 .. MaxGap, NEW p \in 1 .. MaxPsize, Allocate(gap, p)
        PROVE  TypeOK'
    <3>1. gap \in Nat /\ p \in Nat \ {0} /\ RaidzAsize(p) \in Nat
      BY VdevAssumption, ReservationExact
    <3> QED BY <2>1, <3>1 DEF TypeOK, Allocate
  <2>2. ASSUME NEW d \in Devices, LoseDevice(d) PROVE TypeOK'
    BY <2>2 DEF TypeOK, LoseDevice
  <2>3. ASSUME NEW d \in Devices, ReturnDevice(d) PROVE TypeOK'
    BY <2>3 DEF TypeOK, ReturnDevice
  <2>4. CASE UNCHANGED vars
    BY <2>4 DEF TypeOK, vars
  <2> QED BY <2>1, <2>2, <2>3, <2>4 DEF Next
<1> QED BY <1>1, <1>2, PTL DEF Spec

\* Reservations follow one another.  NoOverlap is not inductive by itself: it
\* says nothing of the padding after a block, where the next one must not start.
Reserved ==
  /\ \A x \in blocks : x.off + RaidzAsize(x.psize) <= free
  /\ \A x, y \in blocks : x # y =>
       \/ x.off + RaidzAsize(x.psize) <= y.off
       \/ y.off + RaidzAsize(y.psize) <= x.off

LEMMA ReservedInvariant == Spec => []Reserved
<1>1. Init => Reserved
  BY DEF Init, Reserved
<1>2. TypeOK /\ Reserved /\ [Next]_vars => Reserved'
  <2> SUFFICES ASSUME TypeOK, Reserved, [Next]_vars PROVE Reserved'
    OBVIOUS
  <2>1. ASSUME NEW gap \in 0 .. MaxGap, NEW p \in 1 .. MaxPsize, Allocate(gap, p)
        PROVE  Reserved'
    <3> DEFINE new == [off |-> free + gap, psize |-> p]
    <3>1. /\ gap \in Nat /\ p \in Nat \ {0} /\ RaidzAsize(p) \in Nat /\ free \in Nat
          /\ new.off = free + gap /\ new.psize = p
      BY VdevAssumption, ReservationExact DEF TypeOK
    <3>2. blocks' = blocks \cup {new} /\ free' = free + gap + RaidzAsize(p)
      BY <2>1 DEF Allocate
    <3>3. \A x \in blocks : /\ x.off \in Nat /\ RaidzAsize(x.psize) \in Nat
                            /\ x.off + RaidzAsize(x.psize) <= free
      BY BlockSize DEF Reserved
    <3> HIDE DEF new
    <3>4. \A x \in blocks' : x.off + RaidzAsize(x.psize) <= free'
      BY <3>1, <3>2, <3>3
    <3>5. \A x \in blocks : x.off + RaidzAsize(x.psize) <= new.off
      BY <3>1, <3>3
    <3>6. \A x, y \in blocks' : x # y =>
            \/ x.off + RaidzAsize(x.psize) <= y.off
            \/ y.off + RaidzAsize(y.psize) <= x.off
      BY <3>2, <3>5 DEF Reserved
    <3> QED BY <3>4, <3>6 DEF Reserved
  <2>2. ASSUME NEW d \in Devices, LoseDevice(d) \/ ReturnDevice(d) PROVE Reserved'
    BY <2>2 DEF Reserved, LoseDevice, ReturnDevice
  <2>3. CASE UNCHANGED vars
    BY <2>3 DEF Reserved, vars
  <2> QED BY <2>1, <2>2, <2>3 DEF Next
<1> QED BY <1>1, <1>2, VdevTypeOK, PTL DEF Spec

\* raidz_map_alloc() describes exactly the sectors of the reservation a DVA
\* announces: LayoutTiles holds on every vdev.
THEOREM VdevLayoutTiles == Spec => []LayoutTiles
<1>1. TypeOK => LayoutTiles
  <2> SUFFICES ASSUME TypeOK, NEW x \in blocks
               PROVE  /\ Sectors(x) = {<<i % DCols, i \div DCols>> :
                                  i \in x.off .. x.off + Total(Size(x)) - 1}
                      /\ DvaAsize(Size(x)) = RaidzAsize(x.psize)
    BY DEF LayoutTiles
  <2>1. x.off \in Nat /\ x.psize \in Nat \ {0} /\ Size(x) \in Nat \ {0}
    BY BlockSize
  <2>2. Footprint(x.off, Size(x)) = {<<i % DCols, i \div DCols>> :
                                  i \in x.off .. x.off + Total(Size(x)) - 1}
    BY <2>1, FootprintTiles
  <2>3. DvaAsize(Size(x)) = RaidzAsize(x.psize)
    BY <2>1, ReservationExact DEF Size
  <2> QED BY <2>2, <2>3 DEF Sectors
<1> QED BY <1>1, VdevTypeOK, PTL

\* No block shares a physical sector with another one: NoOverlap holds on
\* every vdev, for blocks of any size at any offset.
THEOREM VdevNoOverlap == Spec => []NoOverlap
<1>1. TypeOK /\ Reserved => NoOverlap
  <2> SUFFICES ASSUME TypeOK, Reserved, NEW x \in blocks, NEW y \in blocks, x # y,
                      NEW z \in Sectors(x), z \in Sectors(y)
               PROVE  FALSE
    BY DEF NoOverlap
  <2>1. /\ x.off \in Nat /\ Size(x) \in Nat \ {0} /\ Total(Size(x)) \in Nat
        /\ Total(Size(x)) <= RaidzAsize(x.psize) /\ RaidzAsize(x.psize) \in Nat
    BY BlockSize
  <2>2. /\ y.off \in Nat /\ Size(y) \in Nat \ {0} /\ Total(Size(y)) \in Nat
        /\ Total(Size(y)) <= RaidzAsize(y.psize) /\ RaidzAsize(y.psize) \in Nat
    BY BlockSize
  <2>3. PICK i \in x.off .. x.off + Total(Size(x)) - 1 : z = <<i % DCols, i \div DCols>>
    BY <2>1, FootprintTiles DEF Sectors
  <2>4. PICK j \in y.off .. y.off + Total(Size(y)) - 1 : z = <<j % DCols, j \div DCols>>
    BY <2>2, FootprintTiles DEF Sectors
  <2>5. i % DCols = j % DCols /\ i \div DCols = j \div DCols
    BY <2>3, <2>4
  <2>6. i = j
    <3>1. i \in Int /\ j \in Int /\ DCols \in Nat \ {0}
      BY <2>1, <2>2, RaidzAssumption
    <3>2. i = DCols * (i \div DCols) + (i % DCols) /\ j = DCols * (j \div DCols) + (j % DCols)
      BY <3>1, DivMod
    <3> QED BY <2>5, <3>2
  <2>7. \/ x.off + RaidzAsize(x.psize) <= y.off
        \/ y.off + RaidzAsize(y.psize) <= x.off
    BY DEF Reserved
  <2> QED BY <2>1, <2>2, <2>6, <2>7
<1> QED BY <1>1, VdevTypeOK, ReservedInvariant, PTL
\* Losing at most NParity devices never costs a block, whatever the number of
\* devices, the parity and the place of the block.
THEOREM VdevFewLossesSurvivable == Spec => []FewLossesSurvivable
<1>1. TypeOK => FewLossesSurvivable
  <2> SUFFICES ASSUME TypeOK, Cardinality(Devices \ avail) <= NParity, NEW x \in blocks
               PROVE  Verdict(x.off, Size(x), avail) # "MISSING_DATA"
    BY DEF FewLossesSurvivable
  <2>1. x.off \in Nat /\ Size(x) \in Nat \ {0} /\ avail \in SUBSET Devices
    BY BlockSize DEF TypeOK
  <2>2. /\ Cardinality(LostCols(x.off, Size(x), avail)) <= Cardinality(Devices \ avail)
        /\ IsFiniteSet(LostCols(x.off, Size(x), avail))
    BY <2>1, LossesBounded, LossCount
  <2>3. IsFiniteSet(Devices \ avail)
    <3>1. IsFiniteSet(Devices)
      BY FS_Interval, RaidzAssumption DEF Devices
    <3> QED BY <3>1, FS_Subset
  <2>4. /\ Cardinality(LostCols(x.off, Size(x), avail)) \in Nat
        /\ Cardinality(Devices \ avail) \in Nat
    BY <2>2, <2>3, FS_CardinalityType
  <2>5. ~(Cardinality(LostCols(x.off, Size(x), avail)) > NParity)
    BY <2>2, <2>4, RaidzAssumption
  <2> QED BY <2>1, <2>5, VerdictOf
<1> QED BY <1>1, VdevTypeOK, PTL

\* analyse_availability() condemns a block exactly when erasure coding must.
THEOREM VdevVerdictExact == Spec => []VerdictExact
<1>1. TypeOK => VerdictExact
  <2> SUFFICES ASSUME TypeOK, NEW x \in blocks
               PROVE  LET lost == {c \in Columns(Size(x)) :
                                     /\ ColSize(Size(x), c) # 0
                                     /\ DevIdx(x.off, c) \notin avail}
                      IN  (Verdict(x.off, Size(x), avail) = "MISSING_DATA") <=>
                            /\ Cardinality(lost) > NParity
                            /\ \E c \in lost : c >= NParity
    BY DEF VerdictExact
  <2> DEFINE lost == {c \in Columns(Size(x)) : /\ ColSize(Size(x), c) # 0
                                               /\ DevIdx(x.off, c) \notin avail}
  <2>1. x.off \in Nat /\ Size(x) \in Nat \ {0} /\ avail \in SUBSET Devices
    BY BlockSize DEF TypeOK
  <2>2. \A c \in Columns(Size(x)) : c \in Nat
    BY <2>1, ColumnsOf, RaidzAssumption DEF Devices
  <2>3. lost = LostCols(x.off, Size(x), avail)
    BY <2>2, RaidzAssumption
       DEF LostCols, MissingData, MissingParity, DataCols, ParityCols
  <2>4. (\E c \in lost : c >= NParity) <=> MissingData(x.off, Size(x), avail) # {}
    BY <2>2, RaidzAssumption DEF MissingData, DataCols
  <2> HIDE DEF lost
  <2>5. (Verdict(x.off, Size(x), avail) = "MISSING_DATA") <=>
          /\ Cardinality(lost) > NParity
          /\ \E c \in lost : c >= NParity
    BY <2>1, <2>3, <2>4, VerdictOf
  <2> QED BY <2>5 DEF lost
<1> QED BY <1>1, VdevTypeOK, PTL
\* reconstruct_raidz1() gives back every lost data column of every block, on a
\* vdev of any width.
THEOREM VdevReconstructExact == Spec => []ReconstructExact
<1>1. TypeOK => ReconstructExact
  <2> SUFFICES ASSUME TypeOK, NEW x \in blocks,
                      NEW content \in [Cells(Size(x)) -> {0, 1}],
                      NEW lost \in DataCols(Size(x))
               PROVE  Reconstruct(Size(x), content, ParityP(Size(x), content), lost)
                        = [k \in 1 .. ColSize(Size(x), lost) |-> content[<<lost, k>>]]
    BY DEF ReconstructExact
  <2> DEFINE s == Size(x)
  <2>1. s \in Nat \ {0}
    BY BlockSize
  <2> HIDE DEF s
  <2>2. SUFFICES ASSUME NEW k \in 1 .. ColSize(s, lost)
                 PROVE  (ParityP(s, content)[k]
                          + XorRow(s, content, DataCols(s) \ {lost}, k)) % 2
                          = content[<<lost, k>>]
    BY DEF Reconstruct, s
  <2>3. lost \in DataCols(s) /\ content \in [Cells(s) -> {0, 1}]
    BY DEF s
  <2>4. k \in 1 .. ColSize(s, 0)
    BY <2>1, <2>3, ParityLongest
  <2>5. ParityP(s, content)[k] = XorRow(s, content, DataCols(s), k)
    BY <2>4 DEF ParityP
  <2> QED BY <2>1, <2>3, <2>5, XorCancels
<1> QED BY <1>1, VdevTypeOK, PTL
=============================================================================
