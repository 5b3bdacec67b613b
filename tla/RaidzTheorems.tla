--------------------------- MODULE RaidzTheorems ---------------------------
(***************************************************************************)
(* What holds of the RAIDZ geometry for every number of devices, every     *)
(* parity, every sector size and every block.                              *)
(***************************************************************************)
EXTENDS Raidz, FiniteSetTheorems, TLAPS

-----------------------------------------------------------------------------
(* Arithmetic.                                                             *)

\* Euclidean division, for \div and %.
LEMMA DivMod ==
  ASSUME NEW a \in Int, NEW n \in Nat \ {0}
  PROVE  a \div n \in Int /\ a % n \in 0 .. n - 1 /\ a = n * (a \div n) + (a % n)
OBVIOUS

\* A quotient and a remainder are unique.
LEMMA DivModUnique ==
  ASSUME NEW n \in Nat \ {0}, NEW q \in Int, NEW r \in 0 .. n - 1
  PROVE  (n * q + r) \div n = q /\ (n * q + r) % n = r
OBVIOUS

\* RoundUp(a, n) is the first multiple of n that is not below a.
LEMMA RoundUpBounds ==
  ASSUME NEW a \in Nat, NEW n \in Nat \ {0}
  PROVE  RoundUp(a, n) \in Nat /\ a <= RoundUp(a, n) /\ RoundUp(a, n) < a + n
BY DEF RoundUp

\* The data columns of a row: DCols - NParity of them.
LEMMA DataWidth == DCols - NParity \in Nat \ {0} /\ NParity + 1 \in Nat \ {0}
BY RaidzAssumption

-----------------------------------------------------------------------------
(* Sizes.                                                                  *)

\* The I/O size of a block is the data size the allocator counts.
LEMMA IoSizeIsData ==
  ASSUME NEW p \in Nat \ {0}
  PROVE  /\ IoSize(p) \in Nat \ {0}
         /\ IoSize(p) = (p - 1) \div SectorUnits + 1
<1>1. SectorUnits \in Nat \ {0}
  BY RaidzAssumption
<1> DEFINE d == (p - 1) \div SectorUnits
           m == (p - 1) % SectorUnits
<1>2. d \in Nat /\ m \in 0 .. SectorUnits - 1 /\ p - 1 = SectorUnits * d + m
  BY <1>1
<1>3. p + SectorUnits - 1 = SectorUnits * (d + 1) + m
  BY <1>1, <1>2
<1>4. (p + SectorUnits - 1) \div SectorUnits = d + 1
  <2> HIDE DEF d, m
  <2> QED BY <1>1, <1>2, <1>3, DivModUnique
<1>5. ((d + 1) * SectorUnits) \div SectorUnits = d + 1
  <2> HIDE DEF d, m
  <2>1. (d + 1) * SectorUnits = SectorUnits * (d + 1) + 0
    BY <1>1, <1>2
  <2> QED BY <1>1, <1>2, <2>1, DivModUnique
<1>6. IoSize(p) = d + 1
  BY <1>4, <1>5 DEF IoSize, RoundUp
<1> QED BY <1>2, <1>6

\* Full rows and remainder: s data sectors in rows of DCols - NParity.
LEMMA RowsOf ==
  ASSUME NEW s \in Nat \ {0}
  PROVE  /\ FullRows(s) \in Nat
         /\ Remainder(s) \in 0 .. DCols - NParity - 1
         /\ s = FullRows(s) * (DCols - NParity) + Remainder(s)
         /\ BigCols(s) \in 0 .. DCols - 1
         /\ Remainder(s) = 0 => BigCols(s) = 0
         /\ Remainder(s) # 0 => BigCols(s) = Remainder(s) + NParity
         /\ FullRows(s) = 0 => BigCols(s) # 0
         /\ Total(s) = FullRows(s) * DCols + BigCols(s)
<1> DEFINE w == DCols - NParity
<1>1. w \in Nat \ {0}
  BY DataWidth
<1>2. /\ FullRows(s) \in Nat
      /\ s % w \in 0 .. w - 1
      /\ s = w * FullRows(s) + (s % w)
  BY <1>1 DEF FullRows
<1>3. Remainder(s) = s % w
  <2> HIDE DEF w
  <2>1. Remainder(s) = s - FullRows(s) * w
    BY DEF Remainder, w
  <2> QED BY <1>1, <1>2, <2>1
<1>4. /\ BigCols(s) \in 0 .. DCols - 1
      /\ Remainder(s) = 0 => BigCols(s) = 0
      /\ Remainder(s) # 0 => BigCols(s) = Remainder(s) + NParity
  BY <1>1, <1>2, <1>3, RaidzAssumption DEF BigCols
<1>5. FullRows(s) = 0 => BigCols(s) # 0
  BY <1>1, <1>2, <1>3, <1>4, RaidzAssumption
<1>6. Total(s) = FullRows(s) * DCols + BigCols(s)
  <2>1. FullRows(s) * w = FullRows(s) * DCols - FullRows(s) * NParity
    BY <1>2, RaidzAssumption
  <2>2. NParity * (FullRows(s) + 1) = FullRows(s) * NParity + NParity
    BY <1>2, RaidzAssumption
  <2>3. NParity * (FullRows(s) + 0) = FullRows(s) * NParity
    BY <1>2, RaidzAssumption
  <2>4. s = FullRows(s) * w + Remainder(s)
    BY <1>1, <1>2, <1>3
  <2>5. FullRows(s) * DCols \in Int /\ FullRows(s) * NParity \in Int
    BY <1>2, RaidzAssumption
  <2>6. CASE Remainder(s) = 0
    <3>1. Total(s) = s + NParity * (FullRows(s) + 0)
      BY <2>6 DEF Total
    <3> QED BY <3>1, <2>1, <2>3, <2>4, <2>5, <2>6, <1>4
  <2>7. CASE Remainder(s) # 0
    <3>1. Total(s) = s + NParity * (FullRows(s) + 1)
      BY <2>7 DEF Total
    <3> QED BY <3>1, <2>1, <2>2, <2>4, <2>5, <2>7, <1>2, <1>3, <1>4, RaidzAssumption
  <2> QED BY <2>6, <2>7
<1>7. s = FullRows(s) * w + Remainder(s)
  <2> HIDE DEF w
  <2> QED BY <1>1, <1>2, <1>3
<1> QED BY <1>2, <1>3, <1>4, <1>5, <1>6, <1>7

\* A stripe has room for every column accessed, parity and one data column
\* among them.
LEMMA ColumnCounts ==
  ASSUME NEW s \in Nat \ {0}
  PROVE  /\ AccessedCols(s) \in NParity + 1 .. DCols
         /\ StripeCols(s) \in AccessedCols(s) .. DCols
<1>1. AccessedCols(s) \in NParity + 1 .. DCols
  BY RowsOf, RaidzAssumption DEF AccessedCols
<1>2. StripeCols(s) \in AccessedCols(s) .. DCols
  <2> DEFINE padded == RoundUp(BigCols(s), NParity + 1)
  <2>1. BigCols(s) \in 0 .. DCols - 1 /\ BigCols(s) \in Nat
    BY RowsOf, RaidzAssumption
  <2>2. padded \in Nat /\ BigCols(s) <= padded
    BY <2>1, DataWidth, RoundUpBounds
  <2>3. CASE FullRows(s) = 0
    <3>1. AccessedCols(s) = BigCols(s)
      BY <2>3 DEF AccessedCols
    <3>2. StripeCols(s) = IF padded < DCols THEN padded ELSE DCols
      BY <2>3 DEF StripeCols
    <3> HIDE DEF padded
    <3> QED BY <2>1, <2>2, <3>1, <3>2, RaidzAssumption
  <2>4. CASE FullRows(s) # 0
    BY <2>4, RaidzAssumption DEF StripeCols, AccessedCols
  <2> QED BY <2>3, <2>4
<1> QED BY <1>1, <1>2

\* The sectors of a block, padding included, are those its DVA says.
LEMMA ReservationExact ==
  ASSUME NEW p \in Nat \ {0}
  PROVE  /\ Total(IoSize(p)) \in Nat
         /\ Total(IoSize(p)) <= RaidzAsize(p)
         /\ RaidzAsize(p) \in Nat
         /\ DvaAsize(IoSize(p)) = RaidzAsize(p)
<1> DEFINE s == IoSize(p)
           w == DCols - NParity
           rows == FullRows(s) + (IF Remainder(s) = 0 THEN 0 ELSE 1)
<1>1. s \in Nat \ {0} /\ s = (p - 1) \div SectorUnits + 1
  BY IoSizeIsData
<1> HIDE DEF s
<1>2. (s + w - 1) \div w = rows
  <2>1. w \in Nat \ {0}
    BY DataWidth
  <2>2. /\ FullRows(s) \in Nat /\ Remainder(s) \in 0 .. w - 1
        /\ s = FullRows(s) * w + Remainder(s)
    BY <1>1, RowsOf
  <2>3. CASE Remainder(s) = 0
    <3>1. s + w - 1 = w * FullRows(s) + (w - 1)
      BY <2>1, <2>2, <2>3
    <3> QED BY <2>1, <2>2, <2>3, <3>1, DivModUnique
  <2>4. CASE Remainder(s) # 0
    <3>1. s + w - 1 = w * (FullRows(s) + 1) + (Remainder(s) - 1)
      BY <2>1, <2>2, <2>4
    <3>2. FullRows(s) + 1 \in Int /\ Remainder(s) - 1 \in 0 .. w - 1
      BY <2>1, <2>2, <2>4
    <3>3. (s + w - 1) \div w = FullRows(s) + 1
      BY <2>1, <3>1, <3>2, DivModUnique
    <3> QED BY <2>4, <3>3
  <2> QED BY <2>3, <2>4
<1>3. s + DCols - NParity - 1 = s + w - 1
  BY <1>1, RaidzAssumption
<1>4. RaidzAsize(p) = RoundUp(s + NParity * rows, NParity + 1)
  BY <1>1, <1>2, <1>3 DEF RaidzAsize
<1>5. Total(s) = s + NParity * rows
  BY DEF Total
<1>6. Total(s) \in Nat
  <2>1. FullRows(s) \in Nat /\ BigCols(s) \in Nat
    BY <1>1, RowsOf, RaidzAssumption
  <2>2. FullRows(s) * DCols \in Nat
    BY <2>1, RaidzAssumption
  <2> QED BY <1>1, <2>1, <2>2, RowsOf
<1>7. RaidzAsize(p) = RoundUp(Total(s), NParity + 1)
  BY <1>4, <1>5
<1>8. RaidzAsize(p) \in Nat /\ Total(s) <= RaidzAsize(p)
  BY <1>6, <1>7, RoundUpBounds, DataWidth
<1>9. DvaAsize(s) = RaidzAsize(p)
  BY <1>6, <1>7, <1>8 DEF DvaAsize, Skipped
<1> QED BY <1>6, <1>8, <1>9 DEF s
-----------------------------------------------------------------------------
(* Columns and devices.                                                    *)

\* Rotating parity permutes the columns of a row, and undoes itself.
LEMMA PlaceInRow ==
  ASSUME NEW b \in Nat, NEW c \in Devices
  PROVE  Place(b, c) \in Devices /\ Place(b, Place(b, c)) = c
BY RaidzAssumption DEF Place, Devices

\* A column sits at its place after the start of the block, counted along
\* the rows, whether or not it wraps around to the next row.
LEMMA DeviceOf ==
  ASSUME NEW b \in Nat, NEW c \in Devices
  PROVE  /\ DevIdx(b, c) \in Devices
         /\ DevOffset(b, c) \in Nat
         /\ DCols * DevOffset(b, c) + DevIdx(b, c) = b + Place(b, c)
<1> DEFINE r == b \div DCols
           f == b % DCols
           m == Place(b, c)
<1>1. DCols \in Nat \ {0}
  BY RaidzAssumption
<1>2. r \in Nat /\ f \in 0 .. DCols - 1 /\ b = DCols * r + f
  BY <1>1
<1>3. m \in 0 .. DCols - 1
  BY PlaceInRow DEF Devices
<1>4. /\ DevIdx(b, c) = IF f + m >= DCols THEN f + m - DCols ELSE f + m
      /\ DevOffset(b, c) = r + (IF f + m >= DCols THEN 1 ELSE 0)
  BY <1>1, <1>2, <1>3 DEF DevIdx, DevOffset
<1> HIDE DEF r, f, m
<1>5. DCols * (r + 1) = DCols * r + DCols /\ DCols * (r + 0) = DCols * r
  BY <1>1, <1>2
<1>6. DCols * r \in Int
  BY <1>1, <1>2
<1>7. CASE f + m >= DCols
  <2>1. DevIdx(b, c) = f + m - DCols /\ DevOffset(b, c) = r + 1
    BY <1>4, <1>7
  <2>2. DevIdx(b, c) \in Devices /\ DevOffset(b, c) \in Nat
    BY <2>1, <1>1, <1>2, <1>3, <1>7 DEF Devices
  <2>3. DCols * DevOffset(b, c) + DevIdx(b, c) = b + m
    BY <2>1, <1>1, <1>2, <1>3, <1>5, <1>6
  <2> QED BY <2>2, <2>3 DEF m
<1>8. CASE ~(f + m >= DCols)
  <2>1. DevIdx(b, c) = f + m /\ DevOffset(b, c) = r
    BY <1>2, <1>4, <1>8
  <2>2. DevIdx(b, c) \in Devices /\ DevOffset(b, c) \in Nat
    BY <2>1, <1>1, <1>2, <1>3, <1>8 DEF Devices
  <2>3. DCols * DevOffset(b, c) + DevIdx(b, c) = b + m
    BY <2>1, <1>1, <1>2, <1>3, <1>6
  <2> QED BY <2>2, <2>3 DEF m
<1> QED BY <1>7, <1>8

\* No two columns of a block are on the same device.
LEMMA DistinctDevices ==
  ASSUME NEW b \in Nat, NEW c \in Devices, NEW e \in Devices, c # e
  PROVE  DevIdx(b, c) # DevIdx(b, e)
<1>1. Place(b, c) \in Devices /\ Place(b, e) \in Devices /\ Place(b, c) # Place(b, e)
  BY PlaceInRow
<1>2. b % DCols \in 0 .. DCols - 1
  BY RaidzAssumption
<1> QED BY <1>1, <1>2, RaidzAssumption DEF DevIdx, Devices

\* The columns that hold something.
LEMMA ColumnsOf ==
  ASSUME NEW s \in Nat \ {0}
  PROVE  /\ Columns(s) \subseteq Devices
         /\ \A c \in Columns(s) : ColSize(s, c) \in Nat
         /\ \A c \in Columns(s) : ColSize(s, c) # 0 <=> c < AccessedCols(s)
         /\ \A c \in Columns(s) :
              ColSize(s, c) = IF c >= AccessedCols(s) THEN 0
                              ELSE FullRows(s) + (IF c < BigCols(s) THEN 1 ELSE 0)
<1>1. Columns(s) \subseteq Devices
  BY ColumnCounts, RaidzAssumption DEF Columns, Devices
<1>2. SUFFICES ASSUME NEW c \in Columns(s)
               PROVE  /\ ColSize(s, c) \in Nat
                      /\ ColSize(s, c) # 0 <=> c < AccessedCols(s)
                      /\ ColSize(s, c) = IF c >= AccessedCols(s) THEN 0
                              ELSE FullRows(s) + (IF c < BigCols(s) THEN 1 ELSE 0)
  BY <1>1
<1>3. /\ FullRows(s) \in Nat /\ BigCols(s) \in Nat
      /\ AccessedCols(s) \in Nat /\ c \in Nat
      /\ AccessedCols(s) = IF FullRows(s) = 0 THEN BigCols(s) ELSE DCols
  BY <1>1, RowsOf, ColumnCounts, RaidzAssumption DEF Devices, AccessedCols
<1> QED BY <1>3 DEF ColSize

\* Sector k of a column lies inside the block.
LEMMA ColumnInside ==
  ASSUME NEW b \in Nat, NEW s \in Nat \ {0},
         NEW c \in Columns(s), NEW k \in 0 .. ColSize(s, c) - 1
  PROVE  DCols * k + Place(b, c) \in 0 .. Total(s) - 1
<1> DEFINE q == FullRows(s)
           m == Place(b, c)
<1>1. /\ q \in Nat /\ BigCols(s) \in 0 .. DCols - 1
      /\ Total(s) = q * DCols + BigCols(s)
      /\ Remainder(s) \in Nat
      /\ BigCols(s) # 0 => BigCols(s) = Remainder(s) + NParity /\ Remainder(s) # 0
  BY RowsOf, RaidzAssumption
<1>2. c \in Devices /\ m \in 0 .. DCols - 1
  BY ColumnsOf, PlaceInRow DEF Devices
<1>3. /\ k \in Nat
      /\ c < AccessedCols(s)
      /\ k < q + (IF c < BigCols(s) THEN 1 ELSE 0)
  BY ColumnsOf, ColumnCounts, <1>1, <1>2, RaidzAssumption DEF Devices
<1>4. DCols * k \in Nat /\ DCols * q \in Nat /\ q * DCols = DCols * q
  BY <1>1, <1>3, RaidzAssumption
<1>5. CASE k < q
  <2>1. k + 1 <= q
    BY <1>1, <1>3, <1>5
  <2>2. DCols * (k + 1) <= DCols * q /\ DCols * (k + 1) = DCols * k + DCols
    BY <2>1, <1>1, <1>3, RaidzAssumption
  <2> QED BY <2>2, <1>1, <1>2, <1>4, RaidzAssumption
<1>6. CASE ~(k < q)
  <2>1. k = q /\ c < BigCols(s)
    BY <1>1, <1>3, <1>6
  <2>2. m < BigCols(s)
    <3>1. m = c \/ (NParity = 1 /\ m \in {0, 1})
      BY DEF Place, Rotated
    <3>2. BigCols(s) >= NParity + 1
      BY <2>1, <1>1, <1>2, RaidzAssumption DEF Devices
    <3> QED BY <2>1, <3>1, <3>2, <1>1, <1>2
  <2> QED BY <2>1, <2>2, <1>1, <1>2, <1>4, RaidzAssumption
<1> QED BY <1>5, <1>6

\* Every sector of a block is in one of its columns.
LEMMA ColumnCovers ==
  ASSUME NEW b \in Nat, NEW s \in Nat \ {0}, NEW j \in 0 .. Total(s) - 1
  PROVE  \E c \in Columns(s) : \E k \in 0 .. ColSize(s, c) - 1 :
           DCols * k + Place(b, c) = j
<1> DEFINE q == FullRows(s)
           k == j \div DCols
           m == j % DCols
           c == Place(b, m)
<1>1. /\ q \in Nat /\ BigCols(s) \in 0 .. DCols - 1
      /\ Total(s) = q * DCols + BigCols(s)
      /\ Remainder(s) \in Nat
      /\ BigCols(s) # 0 => BigCols(s) = Remainder(s) + NParity /\ Remainder(s) # 0
  BY RowsOf, RaidzAssumption
<1>2. DCols * q \in Nat /\ q * DCols = DCols * q
  BY <1>1, RaidzAssumption
<1>3. j \in Nat /\ j < DCols * q + BigCols(s)
  BY <1>1, <1>2
<1>4. k \in Nat /\ m \in 0 .. DCols - 1 /\ j = DCols * k + m
  BY <1>3, RaidzAssumption
<1> HIDE DEF k, m
<1>5. k <= q
  <2> SUFFICES ASSUME q + 1 <= k PROVE FALSE
    BY <1>1, <1>4
  <2>1. DCols * (q + 1) <= DCols * k /\ DCols * (q + 1) = DCols * q + DCols
    BY <1>1, <1>4, RaidzAssumption
  <2>2. DCols * k \in Nat
    BY <1>4, RaidzAssumption
  <2> QED BY <2>1, <2>2, <1>1, <1>2, <1>3, <1>4, RaidzAssumption
<1>6. k = q => m < BigCols(s)
  BY <1>1, <1>2, <1>3, <1>4
<1>7. c \in Devices /\ c \in 0 .. DCols - 1 /\ Place(b, c) = m
  BY <1>4, PlaceInRow DEF Devices
<1>8. m < BigCols(s) => c < BigCols(s)
  <2>1. c = m \/ (NParity = 1 /\ c \in {0, 1})
    BY DEF Place, Rotated
  <2>2. m < BigCols(s) => BigCols(s) >= NParity + 1
    BY <1>1, <1>4, RaidzAssumption
  <2> QED BY <2>1, <2>2, <1>1, <1>4, <1>7
<1> HIDE DEF c
<1>9. AccessedCols(s) = IF q = 0 THEN BigCols(s) ELSE DCols
  BY DEF AccessedCols
<1>10. c < AccessedCols(s)
  <2>1. CASE q = 0
    <3>1. k = q
      BY <2>1, <1>4, <1>5
    <3> QED BY <3>1, <2>1, <1>6, <1>8, <1>9
  <2>2. CASE q # 0
    BY <2>2, <1>7, <1>9, RaidzAssumption
  <2> QED BY <2>1, <2>2
<1>11. c \in Columns(s)
  BY <1>7, <1>10, ColumnCounts, RaidzAssumption DEF Columns
<1>12. ColSize(s, c) = q + (IF c < BigCols(s) THEN 1 ELSE 0)
  BY <1>1, <1>7, <1>9, <1>10, RaidzAssumption DEF ColSize
<1>13. k \in 0 .. ColSize(s, c) - 1
  BY <1>1, <1>4, <1>5, <1>6, <1>7, <1>8, <1>12
<1> QED BY <1>4, <1>7, <1>11, <1>13

\* The columns of a block cover the sectors b .. b+total-1 of the vdev's
\* linear space, and no other.
LEMMA FootprintTiles ==
  ASSUME NEW b \in Nat, NEW s \in Nat \ {0}
  PROVE  Footprint(b, s) =
           {<<i % DCols, i \div DCols>> : i \in b .. b + Total(s) - 1}
<1> DEFINE At(c, k) == <<DevIdx(b, c), DevOffset(b, c) + k>>
           Lin(i) == <<i % DCols, i \div DCols>>
<1>0. DCols \in Nat \ {0} /\ Columns(s) \subseteq Devices
      /\ \A c \in Columns(s) : ColSize(s, c) \in Nat
  BY ColumnsOf, RaidzAssumption
<1>1. Total(s) \in Int
  <2>1. FullRows(s) \in Nat /\ BigCols(s) \in Int
    BY RowsOf
  <2>2. FullRows(s) * DCols \in Nat
    BY <2>1, <1>0
  <2> QED BY <2>1, <2>2, RowsOf
<1>2. ASSUME NEW c \in Columns(s), NEW k \in 0 .. ColSize(s, c) - 1
      PROVE  At(c, k) = Lin(b + (DCols * k + Place(b, c)))
  <2>0. c \in Devices /\ k \in Nat
    BY <1>0
  <2>1. /\ DevIdx(b, c) \in 0 .. DCols - 1 /\ DevOffset(b, c) \in Nat
        /\ DCols * DevOffset(b, c) + DevIdx(b, c) = b + Place(b, c)
        /\ Place(b, c) \in Nat
    <3>1. DevIdx(b, c) \in Devices /\ Place(b, c) \in Devices
      BY <2>0, DeviceOf, PlaceInRow
    <3>2. /\ DevOffset(b, c) \in Nat
          /\ DCols * DevOffset(b, c) + DevIdx(b, c) = b + Place(b, c)
      BY <2>0, DeviceOf
    <3> QED BY <3>1, <3>2, <1>0 DEF Devices
  <2>2. DCols * (DevOffset(b, c) + k) = DCols * DevOffset(b, c) + DCols * k
        /\ DCols * DevOffset(b, c) \in Nat /\ DCols * k \in Nat
    BY <2>0, <2>1, <1>0
  <2>3. b + (DCols * k + Place(b, c)) = DCols * (DevOffset(b, c) + k) + DevIdx(b, c)
    <3> DEFINE x == DCols * k
               y == DCols * DevOffset(b, c)
               z == DCols * (DevOffset(b, c) + k)
    <3>1. /\ x \in Int /\ y \in Int /\ z = y + x
          /\ y + DevIdx(b, c) = b + Place(b, c)
          /\ DevIdx(b, c) \in Int /\ Place(b, c) \in Int
      BY <2>1, <2>2, <1>0
    <3> HIDE DEF x, y, z
    <3>2. b + (x + Place(b, c)) = z + DevIdx(b, c)
      BY <3>1
    <3> QED BY <3>2 DEF x, z
  <2>4. DevOffset(b, c) + k \in Int
    BY <2>0, <2>1
  <2> HIDE DEF At
  <2>5. /\ (b + (DCols * k + Place(b, c))) \div DCols = DevOffset(b, c) + k
        /\ (b + (DCols * k + Place(b, c))) % DCols = DevIdx(b, c)
    <3> DEFINE q == DevOffset(b, c) + k
               r == DevIdx(b, c)
    <3>1. DCols \in Nat \ {0} /\ q \in Int /\ r \in 0 .. DCols - 1
      BY <2>1, <2>4, <1>0
    <3> HIDE DEF q, r
    <3>2. (DCols * q + r) \div DCols = q /\ (DCols * q + r) % DCols = r
      BY <3>1, DivModUnique
    <3> QED BY <2>3, <3>2, Zenon DEF q, r
  <2> QED BY <2>5 DEF At
<1>3. ASSUME NEW x \in Footprint(b, s)
      PROVE  \E i \in b .. b + Total(s) - 1 : x = Lin(i)
  <2>1. PICK c \in Columns(s) : \E k \in 0 .. ColSize(s, c) - 1 : x = At(c, k)
    BY DEF Footprint
  <2>2. PICK k \in 0 .. ColSize(s, c) - 1 : x = At(c, k)
    BY <2>1
  <2>3. DCols * k + Place(b, c) \in 0 .. Total(s) - 1
    BY <2>2, ColumnInside
  <2>4. b + (DCols * k + Place(b, c)) \in b .. b + Total(s) - 1
    BY <2>3, <1>1
  <2> QED BY <1>2, <2>2, <2>4
<1>4. ASSUME NEW i \in b .. b + Total(s) - 1
      PROVE  Lin(i) \in Footprint(b, s)
  <2>1. i - b \in 0 .. Total(s) - 1
    BY <1>1
  <2>2. PICK c \in Columns(s) :
          \E k \in 0 .. ColSize(s, c) - 1 : DCols * k + Place(b, c) = i - b
    BY <2>1, ColumnCovers
  <2>3. PICK k \in 0 .. ColSize(s, c) - 1 : DCols * k + Place(b, c) = i - b
    BY <2>2
  <2>4. b + (DCols * k + Place(b, c)) = i
    BY <2>3, <1>1
  <2>5. Lin(i) = At(c, k)
    BY <1>2, <2>4
  <2> QED BY <2>5 DEF Footprint
<1> QED BY <1>3, <1>4
-----------------------------------------------------------------------------
(* Losing devices.                                                         *)

LostCols(b, s, av) == MissingData(b, s, av) \cup MissingParity(b, s, av)

\* A block has all of its parity columns.
LEMMA ParityCount ==
  ASSUME NEW s \in Nat \ {0}
  PROVE  Cardinality(ParityCols(s)) = NParity /\ IsFiniteSet(ParityCols(s))
<1>1. \A c \in Columns(s) : c < NParity => ColSize(s, c) # 0
  BY ColumnsOf, ColumnCounts, RaidzAssumption DEF Devices
<1>2. ParityCols(s) = 0 .. NParity - 1
  BY <1>1, ColumnCounts, RaidzAssumption DEF ParityCols, Columns
<1>3. Cardinality(0 .. NParity - 1) = NParity /\ IsFiniteSet(0 .. NParity - 1)
  BY FS_Interval, RaidzAssumption
<1> QED BY <1>2, <1>3

\* The columns lost are data or parity, and the verdict compares their number
\* with the parity.
LEMMA LossCount ==
  ASSUME NEW b \in Nat, NEW s \in Nat \ {0}, NEW av \in SUBSET Devices
  PROVE  LET md == Cardinality(MissingData(b, s, av))
             mp == Cardinality(MissingParity(b, s, av))
         IN  /\ IsFiniteSet(LostCols(b, s, av))
             /\ md \in Nat /\ mp \in Nat
             /\ Cardinality(LostCols(b, s, av)) = md + mp
             /\ UsableParity(b, s, av) = NParity - mp
<1> DEFINE D == MissingData(b, s, av)
           P == MissingParity(b, s, av)
<1>1. D \in SUBSET Devices /\ P \in SUBSET Devices
  BY ColumnsOf DEF MissingData, MissingParity, DataCols, ParityCols
<1>2. IsFiniteSet(Devices)
  BY FS_Interval, RaidzAssumption DEF Devices
<1>3. IsFiniteSet(D) /\ IsFiniteSet(P)
  BY <1>1, <1>2, FS_Subset
<1>4. Cardinality(D) \in Nat /\ Cardinality(P) \in Nat
  BY <1>3, FS_CardinalityType
<1>5. D \cap P = {}
  BY <1>1, RaidzAssumption
     DEF MissingData, MissingParity, DataCols, ParityCols, Devices
<1>6. /\ IsFiniteSet(D \cup P)
      /\ Cardinality(D \cup P) = Cardinality(D) + Cardinality(P) - Cardinality(D \cap P)
  BY <1>3, FS_Union
<1>7. Cardinality(D \cup P) = Cardinality(D) + Cardinality(P)
  <2> HIDE DEF D, P
  <2>1. Cardinality(D \cap P) = 0
    BY <1>5, FS_EmptySet
  <2> QED BY <1>4, <1>6, <2>1
<1>8. UsableParity(b, s, av) = NParity - Cardinality(P)
  BY ParityCount DEF UsableParity
<1> QED BY <1>4, <1>6, <1>7, <1>8 DEF LostCols

\* At most one column is lost with each device that is.
LEMMA LossesBounded ==
  ASSUME NEW b \in Nat, NEW s \in Nat \ {0}, NEW av \in SUBSET Devices
  PROVE  Cardinality(LostCols(b, s, av)) <= Cardinality(Devices \ av)
<1> DEFINE L == LostCols(b, s, av)
           f == [c \in L |-> DevIdx(b, c)]
<1>1. L \subseteq Devices /\ \A c \in L : DevIdx(b, c) \notin av
  BY ColumnsOf DEF LostCols, MissingData, MissingParity, DataCols, ParityCols
<1>2. f \in [L -> Devices \ av]
  BY <1>1, DeviceOf
<1>3. \A c, e \in L : c # e => f[c] # f[e]
  BY <1>1, DistinctDevices
<1>4. IsFiniteSet(Devices)
  BY FS_Interval, RaidzAssumption DEF Devices
<1>5. IsFiniteSet(L) /\ IsFiniteSet(Devices \ av)
  BY <1>4, LossCount, FS_Subset
<1>6. Cardinality(L) \in Nat /\ Cardinality(Devices \ av) \in Nat
  BY <1>5, FS_CardinalityType
<1>7. ~(Cardinality(Devices \ av) < Cardinality(L))
  <2> HIDE DEF f, L
  <2> QED BY <1>2, <1>3, <1>5, FS_PigeonHole
<1> QED BY <1>6, <1>7

\* A block is irrecoverable exactly when data is lost and more columns are lost
\* than there is parity, the lost parity columns counted.
LEMMA VerdictOf ==
  ASSUME NEW b \in Nat, NEW s \in Nat \ {0}, NEW av \in SUBSET Devices
  PROVE  Verdict(b, s, av) = "MISSING_DATA" <=>
           /\ MissingData(b, s, av) # {}
           /\ Cardinality(LostCols(b, s, av)) > NParity
<1>1. /\ Cardinality(MissingData(b, s, av)) \in Nat
      /\ Cardinality(MissingParity(b, s, av)) \in Nat
      /\ Cardinality(LostCols(b, s, av))
           = Cardinality(MissingData(b, s, av)) + Cardinality(MissingParity(b, s, av))
      /\ UsableParity(b, s, av) = NParity - Cardinality(MissingParity(b, s, av))
  BY LossCount
<1> QED BY <1>1, RaidzAssumption DEF Verdict

-----------------------------------------------------------------------------
(* Single parity.                                                          *)

\* No data column is longer than P.
LEMMA ParityLongest ==
  ASSUME NEW s \in Nat \ {0}, NEW c \in DataCols(s)
  PROVE  /\ ColSize(s, 0) \in Nat /\ ColSize(s, c) \in Nat
         /\ ColSize(s, c) <= ColSize(s, 0)
<1>1. c \in Columns(s) /\ c \in Nat /\ 0 \in Columns(s)
  BY ColumnsOf, ColumnCounts, RaidzAssumption DEF DataCols, Columns, Devices
<1>2. FullRows(s) \in Nat /\ BigCols(s) \in Nat /\ AccessedCols(s) \in Nat
  BY RowsOf, ColumnCounts, RaidzAssumption
<1>3. \A e \in {0, c} : ColSize(s, e) = IF e >= AccessedCols(s) THEN 0
                          ELSE FullRows(s) + (IF e < BigCols(s) THEN 1 ELSE 0)
  BY <1>1, ColumnsOf
<1> QED BY <1>1, <1>2, <1>3, ColumnCounts, RaidzAssumption

\* XOR of P and of the columns left gives the bit of the lost one.
LEMMA XorCancels ==
  ASSUME NEW s \in Nat \ {0}, NEW content \in [Cells(s) -> {0, 1}],
         NEW lost \in DataCols(s), NEW k \in 1 .. ColSize(s, lost)
  PROVE  (XorRow(s, content, DataCols(s), k)
            + XorRow(s, content, DataCols(s) \ {lost}, k)) % 2 = content[<<lost, k>>]
<1> DEFINE Ones(cols) == {c \in cols : k <= ColSize(s, c) /\ content[<<c, k>>] = 1}
           A == Ones(DataCols(s))
           B == Ones(DataCols(s) \ {lost})
<1>1. IsFiniteSet(A)
  <2>1. IsFiniteSet(Devices)
    BY FS_Interval, RaidzAssumption DEF Devices
  <2>2. A \in SUBSET Devices
    BY ColumnsOf DEF DataCols
  <2> QED BY <2>1, <2>2, FS_Subset
<1>2. B = A \ {lost}
  OBVIOUS
<1>3. /\ ColSize(s, lost) \in Nat /\ ColSize(s, lost) <= ColSize(s, 0)
      /\ ColSize(s, 0) \in Nat
  BY ParityLongest
<1>4. <<lost, k>> \in Cells(s)
  <2>1. k \in 1 .. ColSize(s, 0) /\ k <= ColSize(s, lost)
    BY <1>3
  <2> QED BY <2>1 DEF Cells
<1>5. content[<<lost, k>>] \in {0, 1} /\ (lost \in A <=> content[<<lost, k>>] = 1)
  BY <1>3, <1>4
<1>6. /\ XorRow(s, content, DataCols(s), k) = Cardinality(A) % 2
      /\ XorRow(s, content, DataCols(s) \ {lost}, k) = Cardinality(B) % 2
  BY DEF XorRow
<1> HIDE DEF A, B
<1>7. Cardinality(B) = IF lost \in A THEN Cardinality(A) - 1 ELSE Cardinality(A)
  BY <1>1, <1>2, FS_RemoveElement
<1>8. Cardinality(A) \in Nat
  BY <1>1, FS_CardinalityType
<1>9. ((Cardinality(A) % 2) + (Cardinality(B) % 2)) % 2 = content[<<lost, k>>]
  <2>1. CASE lost \in A
    <3>1. Cardinality(B) = Cardinality(A) - 1 /\ content[<<lost, k>>] = 1
      BY <2>1, <1>5, <1>7
    <3> QED BY <3>1, <1>8
  <2>2. CASE lost \notin A
    <3>1. Cardinality(B) = Cardinality(A) /\ content[<<lost, k>>] = 0
      BY <2>2, <1>5, <1>7
    <3> QED BY <3>1, <1>8
  <2> QED BY <2>1, <2>2
<1> QED BY <1>6, <1>9
=============================================================================
