-------------------------- MODULE BlockReadProofs --------------------------
(***************************************************************************)
(* read_block() answers right for every vdev, every number of copies and   *)
(* whatever is left of them.  The argument: once the columns of a copy are *)
(* assembled, the bytes obtained are good exactly when the copy determines *)
(* the block; so a copy that does is never abandoned.                      *)
(***************************************************************************)
EXTENDS BlockRead, RaidzTheorems

Busy == {"read", "assemble", "verify", "decompress"}

\* Control: only regular blocks have their copies tried, one of their DVAs at
\* a time, and nothing is returned before the end.
Control ==
  /\ (bp.dvas = {}) <=> (bp.kind \in {"hole", "embedded"})
  /\ pc \in Busy \cup {"copy"} => Regular
  /\ pc \in Busy => copy \in bp.dvas
  /\ pc # "done" => data = None /\ status \notin OkStatuses

\* The columns of the copy at hand.
ColumnsHeld ==
  /\ pc = "read" =>
       rebuilt = {} /\ \A c \in Data \cup Parity : c < next => cols[c] = Pread(copy, c)
  /\ pc = "assemble" =>
       rebuilt = {} /\ \A c \in Data \cup Parity : cols[c] = Pread(copy, c)
  /\ pc \in {"verify", "decompress"} =>
       /\ rebuilt = Gone(copy) \cap Data
       /\ Brut = "good" <=> Intact(copy)
  /\ pc = "decompress" => bp.checksum # "unsupported" /\ Conforms

\* Copy i has fewer columns left than it takes.
CopyLost(i) == NParity = 1 => Gone(i) \cap Data # {} /\ Cardinality(Gone(i)) > 1

\* The copies tried so far.
Tried ==
  pc \notin {"done", "raised"} =>
    \A i \in bp.dvas : i < copy =>
      /\ attempts[i] # None
      /\ attempts[i] = "MISSING_DATA" => CopyLost(i)
      /\ attempts[i] # "MISSING_DATA" => status # "MISSING_DATA"
      /\ bp.decoder /\ bp.checksum = "computed" => ~Intact(i)

-----------------------------------------------------------------------------
(* Facts about one state.                                                  *)

LEMMA SizeType ==
  ASSUME TypeOK
  PROVE  /\ Size \in Nat \ {0}
         /\ Data \subseteq Row /\ Parity \subseteq Row /\ Row \subseteq Devices
         /\ Row = 0 .. StripeCols(Size) - 1
         /\ StripeCols(Size) \in Nat /\ StripeCols(Size) <= DCols
<1>1. bp.psize \in Nat \ {0}
  BY BlockReadAssumption DEF TypeOK
<1>2. Size \in Nat \ {0}
  BY <1>1, IoSizeIsData DEF Size
<1>3. Row \subseteq Devices
  BY <1>2, ColumnsOf DEF Row
<1>4. Data \subseteq Row /\ Parity \subseteq Row
  BY DEF Data, Parity, Row, DataCols, ParityCols
<1>5. StripeCols(Size) \in Nat /\ StripeCols(Size) <= DCols
  BY <1>2, ColumnCounts, RaidzAssumption
<1> QED BY <1>2, <1>3, <1>4, <1>5 DEF Row, Columns

LEMMA PreadType ==
  ASSUME TypeOK, NEW i \in Copies, NEW c \in Devices
  PROVE  Pread(i, c) \in {None, "good", "bad"}
BY DEF TypeOK, Pread, Media

\* Only parity columns come before the data columns, and P is column 0.
LEMMA DataAfterParity ==
  ASSUME TypeOK
  PROVE  /\ Data \cap Parity = {} /\ 0 \notin Data
         /\ Cardinality(Parity) = NParity /\ IsFiniteSet(Parity)
         /\ NParity = 1 => Parity = {0}
<1>1. Size \in Nat \ {0} /\ Data \subseteq Devices /\ Parity \subseteq Devices
  BY SizeType
<1>2. Data \cap Parity = {} /\ 0 \notin Data
  BY <1>1, RaidzAssumption DEF Data, Parity, DataCols, ParityCols, Devices
<1>3. Cardinality(Parity) = NParity /\ IsFiniteSet(Parity)
  BY <1>1, ParityCount DEF Parity
<1>4. ASSUME NParity = 1 PROVE Parity = {0}
  <2>1. PICK c : Parity = {c}
    BY <1>3, <1>4, FS_Singleton
  <2>2. c \in Devices /\ c < 1
    BY <2>1, <1>1, <1>4 DEF Parity, ParityCols
  <2> QED BY <2>1, <2>2, RaidzAssumption DEF Devices
<1> QED BY <1>2, <1>3, <1>4

\* The columns gone are finitely many: those of the data and of the parity.
LEMMA GoneCount ==
  ASSUME TypeOK, NEW i \in Copies
  PROVE  /\ IsFiniteSet(Gone(i) \cap Data) /\ IsFiniteSet(Gone(i) \cap Parity)
         /\ IsFiniteSet(Gone(i))
         /\ Cardinality(Gone(i) \cap Data) \in Nat
         /\ Cardinality(Gone(i) \cap Parity) \in Nat
         /\ Cardinality(Gone(i))
              = Cardinality(Gone(i) \cap Data) + Cardinality(Gone(i) \cap Parity)
<1> DEFINE D == Gone(i) \cap Data
           P == Gone(i) \cap Parity
<1>1. IsFiniteSet(Devices)
  BY FS_Interval, RaidzAssumption DEF Devices
<1>2. D \in SUBSET Devices /\ P \in SUBSET Devices
  BY SizeType
<1>3. IsFiniteSet(D) /\ IsFiniteSet(P)
  BY <1>1, <1>2, FS_Subset
<1>4. D \cap P = {} /\ D \cup P = Gone(i)
  BY DataAfterParity DEF Gone
<1> HIDE DEF D, P
<1>5. Cardinality(D) \in Nat /\ Cardinality(P) \in Nat
  BY <1>3, FS_CardinalityType
<1>6. /\ IsFiniteSet(D \cup P)
      /\ Cardinality(D \cup P) = Cardinality(D) + Cardinality(P) - Cardinality(D \cap P)
  BY <1>3, FS_Union
<1>7. Cardinality(D \cap P) = 0
  BY <1>4, FS_EmptySet
<1>8. Cardinality(D \cup P) = Cardinality(D) + Cardinality(P)
  BY <1>5, <1>6, <1>7
<1>9. Cardinality(Gone(i)) = Cardinality(D) + Cardinality(P) /\ IsFiniteSet(Gone(i))
  BY <1>4, <1>6, <1>8
<1> QED BY <1>3, <1>5, <1>9 DEF D, P

\* What is lost by geometry alone is gone.
LEMMA GeometryGone ==
  ASSUME TypeOK, NEW i \in Copies,
         Verdict(Offset[i], Size, avail) = "MISSING_DATA"
  PROVE  CopyLost(i) /\ ~Intact(i)
<1> DEFINE M == MissingData(Offset[i], Size, avail)
           L == LostCols(Offset[i], Size, avail)
<1>1. Offset[i] \in Nat /\ Size \in Nat \ {0} /\ avail \in SUBSET Devices
  BY SizeType, BlockReadAssumption DEF TypeOK
<1>2. M # {} /\ Cardinality(L) > NParity /\ IsFiniteSet(L)
  BY <1>1, VerdictOf, LossCount
<1>3. L \in SUBSET Gone(i) /\ M \subseteq Gone(i) \cap Data
  BY DEF LostCols, MissingData, MissingParity, Gone, Pread, Data, Parity
<1>4. IsFiniteSet(Gone(i))
  BY GoneCount
<1>5. Cardinality(L) <= Cardinality(Gone(i))
  BY <1>3, <1>4, FS_Subset
<1>6. Cardinality(L) \in Nat /\ Cardinality(Gone(i)) \in Nat
  BY <1>2, <1>4, FS_CardinalityType
<1> HIDE DEF L, M
<1>7. CopyLost(i)
  BY <1>2, <1>3, <1>5, <1>6 DEF CopyLost
<1>8. ASSUME Intact(i) PROVE FALSE
  <2>1. PICK c \in Data : Gone(i) = {c} /\ NParity = 1
    BY <1>2, <1>3, <1>8 DEF Intact
  <2>2. Cardinality(Gone(i)) = 1
    BY <2>1, FS_Singleton
  <2> QED BY <2>1, <2>2, <1>2, <1>5, <1>6
<1> QED BY <1>7, <1>8
-----------------------------------------------------------------------------
(* Types and control.                                                      *)

\* A step changes nothing of the block, the devices and the media.
LEMMA EnvConstant ==
  ASSUME [Next]_vars
  PROVE  /\ bp' = bp /\ avail' = avail /\ media' = media
         /\ Size' = Size /\ Data' = Data /\ Parity' = Parity /\ Regular' = Regular
<1>1. bp' = bp /\ avail' = avail /\ media' = media
  BY DEF Next, vars, env, ReadHole, ReadEmbedded, Refuse, Return, StartCopies,
     SkipEmpty, Hopeless, BeginCopy, ReadColumn, EndRead, GiveUpCopy,
     RebuildColumn, Concatenate, UnknownChecksum, BadChecksum, GoodChecksum,
     NoDecoder, DecompressionFails, DecoderRaises, Deliver, Fail, Abandon
<1> QED BY <1>1 DEF Size, Data, Parity, Regular

LEMMA EnvFacts ==
  ASSUME [Next]_vars, NEW i
  PROVE  /\ Gone(i)' = Gone(i) /\ Intact(i)' = Intact(i) /\ CopyLost(i)' = CopyLost(i)
         /\ \A c : Pread(i, c)' = Pread(i, c)
<1>1. \A c : Pread(i, c)' = Pread(i, c)
  BY EnvConstant DEF Pread
<1>2. Gone(i)' = Gone(i)
  BY <1>1, EnvConstant DEF Gone
<1> QED BY <1>1, <1>2, EnvConstant DEF Intact, CopyLost

\* What Abandon leaves behind.
LEMMA AbandonType ==
  ASSUME TypeOK, Control, pc \in Busy \/ copy \in bp.dvas, NEW att \in Statuses,
         Abandon(att)
  PROVE  /\ attempts' \in [Copies -> Statuses \cup {None}]
         /\ copy' \in 1 .. NCopies + 1 /\ copy' = copy + 1
         /\ pc' = "copy" /\ copy \in Copies /\ copy \in bp.dvas
BY BlockReadAssumption DEF TypeOK, Control, Abandon, Copies

\* Every variable keeps its type, and control goes as Control says.
THEOREM BlockReadTypeOK == Spec => [](TypeOK /\ Control)
<1>1. Init => TypeOK /\ Control
  <2> SUFFICES ASSUME Init PROVE TypeOK /\ Control
    OBVIOUS
  <2>1. TypeOK
    BY BlockReadAssumption, RaidzAssumption DEF Init, TypeOK, Statuses, OkStatuses
  <2>2. Control
    BY DEF Init, Control, Busy, OkStatuses
  <2> QED BY <2>1, <2>2
<1>2. TypeOK /\ Control /\ [Next]_vars => TypeOK' /\ Control'
  <2> SUFFICES ASSUME TypeOK, Control, [Next]_vars PROVE TypeOK' /\ Control'
    OBVIOUS
  <2> USE DEF Statuses, OkStatuses, Busy
  <2>0. /\ bp' = bp /\ avail' = avail /\ media' = media /\ (Regular <=> bp.kind = "regular")
        /\ (Regular' <=> Regular)
    BY EnvConstant DEF Regular
  <2>1. CASE ReadHole \/ ReadEmbedded \/ Refuse
    BY <2>0, <2>1 DEF TypeOK, Control, ReadHole, ReadEmbedded, Refuse, Return
  <2>2. CASE StartCopies
    BY <2>0, <2>2 DEF TypeOK, Control, StartCopies
  <2>3. CASE SkipEmpty
    BY <2>0, <2>3, BlockReadAssumption DEF TypeOK, Control, SkipEmpty, Copies
  <2>4. CASE Hopeless
    BY <2>0, <2>4, AbandonType DEF TypeOK, Control, Hopeless, Abandon
  <2>5. CASE BeginCopy
    BY <2>0, <2>5, RaidzAssumption DEF TypeOK, Control, BeginCopy
  <2>6. CASE ReadColumn
    <3>1. copy \in Copies /\ next \in Devices /\ next \in Nat /\ next + 1 \in 0 .. DCols
      BY <2>6, SizeType, RaidzAssumption DEF TypeOK, Control, ReadColumn, Devices
    <3>2. cols' \in [Devices -> {Unread, None, "good", "bad"}]
      BY <2>6, <3>1, PreadType DEF TypeOK, ReadColumn
    <3> QED BY <2>0, <2>6, <3>1, <3>2 DEF TypeOK, Control, ReadColumn
  <2>7. CASE EndRead
    BY <2>0, <2>7 DEF TypeOK, Control, EndRead
  <2>8. CASE GiveUpCopy
    BY <2>0, <2>8, AbandonType DEF TypeOK, Control, GiveUpCopy, Abandon
  <2>9. CASE RebuildColumn
    <3>1. PICK lost \in LostData : /\ cols' = [cols EXCEPT ![lost] = Rebuild(lost)]
                                   /\ rebuilt' = {lost}
      BY <2>9 DEF RebuildColumn
    <3>2. lost \in Devices /\ Rebuild(lost) \in {"good", "bad"}
      BY SizeType DEF LostData, Rebuild
    <3> QED BY <2>0, <2>9, <3>1, <3>2 DEF TypeOK, Control, RebuildColumn
  <2>10. CASE Concatenate
    BY <2>0, <2>10 DEF TypeOK, Control, Concatenate
  <2>11. CASE UnknownChecksum
    BY <2>0, <2>11, AbandonType DEF TypeOK, Control, UnknownChecksum, Abandon
  <2>12. CASE BadChecksum
    BY <2>0, <2>12, AbandonType DEF TypeOK, Control, BadChecksum, Abandon
  <2>13. CASE GoodChecksum
    BY <2>0, <2>13 DEF TypeOK, Control, GoodChecksum
  <2>14. CASE NoDecoder
    BY <2>0, <2>14, AbandonType DEF TypeOK, Control, NoDecoder, Abandon
  <2>15. CASE DecompressionFails
    BY <2>0, <2>15, AbandonType DEF TypeOK, Control, DecompressionFails, Abandon, Assembled
  <2>16. CASE DecoderRaises
    BY <2>0, <2>16 DEF TypeOK, Control, DecoderRaises
  <2>17. CASE Deliver
    BY <2>0, <2>17 DEF TypeOK, Control, Deliver, Assembled, Brut
  <2>18. CASE Fail
    BY <2>0, <2>18 DEF TypeOK, Control, Fail
  <2>19. CASE UNCHANGED vars
    BY <2>0, <2>19 DEF TypeOK, Control, vars
  <2> QED BY <2>1, <2>2, <2>3, <2>4, <2>5, <2>6, <2>7, <2>8, <2>9, <2>10, <2>11,
             <2>12, <2>13, <2>14, <2>15, <2>16, <2>17, <2>18, <2>19 DEF Next
<1> QED BY <1>1, <1>2, PTL DEF Spec
-----------------------------------------------------------------------------
(* The columns assembled are good exactly when the copy determines them.   *)

\* Nothing lost: the data columns are what the disks gave.
LEMMA AssembledWhole ==
  ASSUME TypeOK, Control, ColumnsHeld, Concatenate
  PROVE  rebuilt = Gone(copy) \cap Data /\ (Brut = "good" <=> Intact(copy))
<1>1. /\ copy \in bp.dvas /\ copy \in Copies /\ rebuilt = {}
      /\ \A c \in Data \cup Parity : cols[c] = Pread(copy, c)
      /\ LostData = {}
  BY DEF Concatenate, ColumnsHeld, Control, Busy, TypeOK
<1>2. Gone(copy) \cap Data = {}
  BY <1>1 DEF Gone, LostData
<1>3. Brut = "good" <=> \A c \in Data : Pread(copy, c) = "good"
  BY <1>1 DEF Brut
<1>4. \A c \in Data : Pread(copy, c) # None
  BY <1>1 DEF LostData
<1>5. Intact(copy) <=> \A c \in Data : Pread(copy, c) = "good"
  BY <1>1, <1>2, <1>4 DEF Intact
<1> QED BY <1>1, <1>2, <1>3, <1>5

\* One data column lost and every other column there: P stands for it.
LEMMA AssembledRebuilt ==
  ASSUME TypeOK, Control, ColumnsHeld, RebuildColumn
  PROVE  \E lost \in Data :
           /\ NParity = 1 /\ Gone(copy) = {lost}
           /\ cols' = [cols EXCEPT ![lost] = Rebuild(lost)] /\ rebuilt' = {lost}
           /\ \A c \in Data \cup Parity : cols[c] = Pread(copy, c)
<1>1. /\ copy \in bp.dvas /\ copy \in Copies
      /\ \A c \in Data \cup Parity : cols[c] = Pread(copy, c)
      /\ ~TooManyLost
  BY DEF RebuildColumn, ColumnsHeld, Control, Busy, TypeOK
<1>2. PICK lost \in LostData :
        cols' = [cols EXCEPT ![lost] = Rebuild(lost)] /\ rebuilt' = {lost}
  BY DEF RebuildColumn
<1>3. LostData = Gone(copy) \cap Data /\ LostParity = Gone(copy) \cap Parity
  BY <1>1 DEF LostData, LostParity, Gone
<1>4. /\ NParity = 1 /\ Cardinality(Parity) = 1
      /\ Cardinality(LostData) \in Nat /\ Cardinality(LostParity) \in Nat
      /\ Cardinality(LostData) <= 1 - Cardinality(LostParity)
      /\ Cardinality(Gone(copy)) = Cardinality(LostData) + Cardinality(LostParity)
      /\ IsFiniteSet(Gone(copy)) /\ IsFiniteSet(LostData)
  <2>1. NParity = 1 /\ Cardinality(Parity) = 1
    BY <1>1, DataAfterParity DEF TooManyLost
  <2>2. /\ IsFiniteSet(LostData) /\ IsFiniteSet(Gone(copy))
        /\ Cardinality(LostData) \in Nat /\ Cardinality(LostParity) \in Nat
        /\ Cardinality(Gone(copy)) = Cardinality(LostData) + Cardinality(LostParity)
    BY <1>1, <1>3, GoneCount
  <2>3. Cardinality(LostData) <= 1 - Cardinality(LostParity)
    BY <1>1, <2>1, <2>2 DEF TooManyLost
  <2> QED BY <2>1, <2>2, <2>3
<1>5. Cardinality(LostData) # 0
  BY <1>2, <1>4, FS_EmptySet
<1>6. Cardinality(Gone(copy)) = 1
  BY <1>4, <1>5
<1>7. Gone(copy) = {lost}
  <2>1. PICK x : Gone(copy) = {x}
    BY <1>4, <1>6, FS_Singleton
  <2> QED BY <2>1, <1>2, <1>3
<1>8. lost \in Data
  BY <1>2 DEF LostData
<1> QED BY <1>1, <1>2, <1>4, <1>7, <1>8

LEMMA RebuiltGood ==
  ASSUME TypeOK, Control, ColumnsHeld, RebuildColumn
  PROVE  (rebuilt = Gone(copy) \cap Data /\ (Brut = "good" <=> Intact(copy)))'
<1>1. PICK lost \in Data :
        /\ NParity = 1 /\ Gone(copy) = {lost}
        /\ cols' = [cols EXCEPT ![lost] = Rebuild(lost)] /\ rebuilt' = {lost}
        /\ \A c \in Data \cup Parity : cols[c] = Pread(copy, c)
  BY AssembledRebuilt
<1>2. /\ copy' = copy /\ bp' = bp /\ avail' = avail /\ media' = media /\ copy \in bp.dvas
      /\ copy \in Copies
  BY DEF RebuildColumn, env, Control, Busy, TypeOK
<1>3. /\ Data' = Data /\ Gone(copy)' = Gone(copy) /\ Intact(copy)' = Intact(copy)
  BY <1>2 DEF Data, Gone, Intact, Parity, Size, Pread
<1>4. lost \in Devices /\ lost # 0 /\ 0 \in Parity /\ Data \subseteq Devices
      /\ Data \cap Parity = {}
  BY <1>1, DataAfterParity, SizeType
<1>5. Rebuild(lost) = "good" <=> \A c \in (Data \ {lost}) \cup {0} : Pread(copy, c) = "good"
  BY <1>1, <1>4 DEF Rebuild
<1>6. \A c \in Data : cols'[c] = IF c = lost THEN Rebuild(lost) ELSE Pread(copy, c)
  BY <1>1, <1>4 DEF TypeOK
<1>7. Brut' = "good" <=> \A c \in (Data \ {lost}) \cup {0} : Pread(copy, c) = "good"
  <2>1. Brut' = "good" <=> \A c \in Data : cols'[c] = "good"
    BY <1>3 DEF Brut
  <2>2. cols'[lost] = Rebuild(lost)
    BY <1>1, <1>6
  <2> QED BY <2>1, <2>2, <1>5, <1>6
<1>8. Intact(copy) <=> \A c \in (Data \ {lost}) \cup {0} : Pread(copy, c) = "good"
  <2>1. Pread(copy, lost) = None /\ \A c \in Data \ {lost} : Pread(copy, c) # None
    BY <1>1 DEF Gone
  <2> QED BY <2>1, <1>1, <1>2 DEF Intact
<1> QED BY <1>1, <1>2, <1>3, <1>7, <1>8

\* Reading errors that cost too many columns.
LEMMA GivenUp ==
  ASSUME TypeOK, Control, ColumnsHeld, GiveUpCopy
  PROVE  CopyLost(copy) /\ ~Intact(copy)
<1>1. /\ copy \in bp.dvas /\ copy \in Copies
      /\ \A c \in Data \cup Parity : cols[c] = Pread(copy, c)
      /\ TooManyLost /\ LostData # {}
  BY DEF GiveUpCopy, ColumnsHeld, Control, Busy, TypeOK
<1>2. LostData = Gone(copy) \cap Data /\ LostParity = Gone(copy) \cap Parity
  BY <1>1 DEF LostData, LostParity, Gone
<1>3. /\ Cardinality(LostData) \in Nat /\ Cardinality(LostParity) \in Nat
      /\ Cardinality(Gone(copy)) = Cardinality(LostData) + Cardinality(LostParity)
  BY <1>1, <1>2, GoneCount
<1>4. NParity = 1 => Cardinality(Gone(copy)) > 1
  BY <1>1, <1>3, DataAfterParity DEF TooManyLost
<1>5. ASSUME Intact(copy) PROVE FALSE
  <2>1. PICK c \in Data : Gone(copy) = {c} /\ NParity = 1
    BY <1>1, <1>2, <1>5 DEF Intact
  <2>2. Cardinality(Gone(copy)) = 1
    BY <2>1, FS_Singleton
  <2> QED BY <2>1, <2>2, <1>4
<1> QED BY <1>1, <1>2, <1>4, <1>5 DEF CopyLost
-----------------------------------------------------------------------------
(* The inductive invariant.                                                *)

\* An attempt that ends leaves the copies tried as Tried says, whatever made
\* it end.
LEMMA AbandonTried ==
  ASSUME TypeOK, Control, Tried, [Next]_vars,
         pc \in Busy \cup {"copy"}, copy \in bp.dvas,
         NEW att \in Statuses, Abandon(att),
         att = "MISSING_DATA" => CopyLost(copy) /\ status' = status,
         att # "MISSING_DATA" => status' # "MISSING_DATA",
         bp.decoder /\ bp.checksum = "computed" => ~Intact(copy)
  PROVE  Tried'
<1> SUFFICES ASSUME NEW i \in bp.dvas, i < copy'
             PROVE  /\ attempts'[i] # None
                    /\ attempts'[i] = "MISSING_DATA" => CopyLost(i)
                    /\ attempts'[i] # "MISSING_DATA" => status' # "MISSING_DATA"
                    /\ bp.decoder /\ bp.checksum = "computed" => ~Intact(i)
  <2>1. bp' = bp
    BY EnvConstant
  <2> QED BY <2>1, EnvFacts DEF Tried
<1>1. /\ attempts' = [attempts EXCEPT ![copy] = att] /\ copy' = copy + 1
      /\ i \in Copies /\ copy \in Copies /\ copy \in Int /\ i \in Int
      /\ attempts \in [Copies -> Statuses \cup {None}]
  BY DEF Abandon, TypeOK, Copies
<1>2. None \notin Statuses
  BY DEF None, Statuses, OkStatuses
<1>3. CASE i = copy
  BY <1>1, <1>2, <1>3
<1>4. CASE i # copy
  <2>1. i < copy /\ attempts'[i] = attempts[i]
    BY <1>1, <1>4
  <2>2. /\ attempts[i] # None
        /\ attempts[i] = "MISSING_DATA" => CopyLost(i)
        /\ attempts[i] # "MISSING_DATA" => status # "MISSING_DATA"
        /\ bp.decoder /\ bp.checksum = "computed" => ~Intact(i)
    BY <2>1 DEF Tried, Busy
  <2> QED BY <2>1, <2>2
<1> QED BY <1>3, <1>4

LEMMA ColumnsHeldStep ==
  ASSUME TypeOK, Control, ColumnsHeld, [Next]_vars
  PROVE  ColumnsHeld'
<1>0. /\ bp' = bp /\ Data' = Data /\ Parity' = Parity
      /\ \A i : Gone(i)' = Gone(i) /\ Intact(i)' = Intact(i)
      /\ \A i, c : Pread(i, c)' = Pread(i, c)
  BY EnvConstant, EnvFacts
<1>1. CASE ReadHole \/ ReadEmbedded \/ Refuse \/ Fail \/ Deliver \/ DecoderRaises
  BY <1>1 DEF ColumnsHeld, ReadHole, ReadEmbedded, Refuse, Return, Fail, Deliver,
              DecoderRaises
<1>2. CASE StartCopies \/ SkipEmpty
  BY <1>2 DEF ColumnsHeld, StartCopies, SkipEmpty
<1>3. CASE Hopeless \/ GiveUpCopy \/ UnknownChecksum \/ BadChecksum \/ NoDecoder
           \/ DecompressionFails
  BY <1>3 DEF ColumnsHeld, Hopeless, GiveUpCopy, UnknownChecksum, BadChecksum,
              NoDecoder, DecompressionFails, Abandon
<1>4. CASE BeginCopy
  <2>1. \A c \in Data \cup Parity : ~(c < 0)
    BY SizeType, RaidzAssumption DEF Devices
  <2> QED BY <1>0, <1>4, <2>1 DEF ColumnsHeld, BeginCopy
<1>5. CASE ReadColumn
  <2>1. /\ next \in Devices /\ next \in Nat /\ cols \in [Devices -> {Unread, None, "good", "bad"}]
        /\ \A c \in Data \cup Parity : c \in Devices /\ c \in Nat
    BY <1>5, SizeType, RaidzAssumption DEF ReadColumn, TypeOK, Devices
  <2>2. \A c \in Data \cup Parity : ColSize(Size, c) # 0
    BY DEF Data, Parity, DataCols, ParityCols
  <2>3. pc' = "read" /\ pc = "read" /\ rebuilt' = rebuilt /\ copy' = copy /\ next' = next + 1
    BY <1>5 DEF ReadColumn
  <2>4. ASSUME NEW c \in Data \cup Parity, c < next + 1
        PROVE  cols'[c] = Pread(copy, c)
    <3>1. CASE c = next
      BY <1>5, <2>1, <2>2, <3>1 DEF ReadColumn
    <3>2. CASE c # next
      <4>1. c < next /\ cols'[c] = cols[c]
        BY <1>5, <2>1, <2>4, <3>2 DEF ReadColumn
      <4> QED BY <4>1, <2>3 DEF ColumnsHeld
    <3> QED BY <3>1, <3>2
  <2> QED BY <1>0, <2>3, <2>4 DEF ColumnsHeld
<1>6. CASE EndRead
  <2>1. \A c \in Data \cup Parity : c < next
    <3>1. next \in Nat /\ ~(next \in 0 .. StripeCols(Size) - 1) /\ StripeCols(Size) \in Nat
      BY <1>6, SizeType, RaidzAssumption DEF EndRead, TypeOK
    <3>2. \A c \in Data \cup Parity : c \in 0 .. StripeCols(Size) - 1
      BY SizeType
    <3> QED BY <3>1, <3>2
  <2> QED BY <1>0, <1>6, <2>1 DEF ColumnsHeld, EndRead
<1>7. CASE RebuildColumn
  <2>1. (rebuilt = Gone(copy) \cap Data /\ (Brut = "good" <=> Intact(copy)))'
    BY <1>7, RebuiltGood
  <2>2. pc' = "verify"
    BY <1>7 DEF RebuildColumn
  <2> QED BY <2>1, <2>2 DEF ColumnsHeld
<1>8. CASE Concatenate
  <2>1. rebuilt = Gone(copy) \cap Data /\ (Brut = "good" <=> Intact(copy))
    BY <1>8, AssembledWhole
  <2>2. pc' = "verify" /\ rebuilt' = rebuilt /\ copy' = copy /\ cols' = cols
    BY <1>8 DEF Concatenate
  <2>3. Brut' = Brut
    BY <1>0, <2>2 DEF Brut
  <2> QED BY <1>0, <2>1, <2>2, <2>3 DEF ColumnsHeld
<1>9. CASE GoodChecksum
  <2>1. /\ pc = "verify" /\ pc' = "decompress" /\ rebuilt' = rebuilt /\ copy' = copy
        /\ cols' = cols /\ bp.checksum # "unsupported" /\ Conforms
    BY <1>9 DEF GoodChecksum
  <2>2. Brut' = Brut /\ Conforms' = Conforms
    BY <1>0, <2>1 DEF Brut, Conforms
  <2> QED BY <1>0, <2>1, <2>2 DEF ColumnsHeld
<1>10. CASE UNCHANGED vars
  <2>1. pc' = pc /\ rebuilt' = rebuilt /\ copy' = copy /\ cols' = cols /\ next' = next
    BY <1>10 DEF vars
  <2>2. Brut' = Brut /\ Conforms' = Conforms
    BY <1>0, <2>1 DEF Brut, Conforms
  <2> QED BY <1>0, <2>1, <2>2 DEF ColumnsHeld
<1> QED BY <1>1, <1>2, <1>3, <1>4, <1>5, <1>6, <1>7, <1>8, <1>9, <1>10 DEF Next

LEMMA TriedStep ==
  ASSUME TypeOK, Control, ColumnsHeld, Tried, [Next]_vars
  PROVE  Tried'
<1>0. /\ bp' = bp /\ \A i : Intact(i)' = Intact(i) /\ CopyLost(i)' = CopyLost(i)
  BY EnvConstant, EnvFacts
<1>1. CASE ReadHole \/ ReadEmbedded \/ Refuse \/ Fail \/ Deliver \/ DecoderRaises
  BY <1>1 DEF Tried, ReadHole, ReadEmbedded, Refuse, Return, Fail, Deliver, DecoderRaises
<1>2. CASE SkipEmpty
  <2>1. /\ pc = "copy" /\ copy \notin bp.dvas /\ copy' = copy + 1 /\ copy \in Int
        /\ attempts' = attempts /\ status' = status /\ bp.dvas \subseteq Int
    BY <1>2 DEF SkipEmpty, TypeOK, Copies
  <2>2. \A i \in bp.dvas : i < copy' => i < copy
    BY <2>1
  <2> QED BY <1>0, <2>1, <2>2 DEF Tried
<1>3. CASE Hopeless
  <2>1. /\ copy \in bp.dvas /\ copy \in Copies /\ pc = "copy" /\ status' = status
        /\ Abandon("MISSING_DATA")
    BY <1>3 DEF Hopeless, TypeOK
  <2>2. CopyLost(copy) /\ ~Intact(copy)
    BY <1>3, <2>1, GeometryGone DEF Hopeless
  <2> QED BY <2>1, <2>2, AbandonTried DEF Statuses
<1>4. CASE GiveUpCopy
  <2>1. /\ copy \in bp.dvas /\ pc \in Busy /\ status' = status /\ Abandon("MISSING_DATA")
    BY <1>4 DEF GiveUpCopy, Control, Busy
  <2>2. CopyLost(copy) /\ ~Intact(copy)
    BY <1>4, GivenUp
  <2> QED BY <2>1, <2>2, AbandonTried DEF Statuses
<1>5. CASE UnknownChecksum
  <2>1. /\ copy \in bp.dvas /\ pc \in Busy /\ status' = "UNKNOWN" /\ Abandon("UNKNOWN")
        /\ bp.checksum = "unsupported"
    BY <1>5 DEF UnknownChecksum, Control, Busy
  <2> QED BY <2>1, AbandonTried DEF Statuses
<1>6. CASE BadChecksum
  <2>1. /\ copy \in bp.dvas /\ pc \in Busy /\ status' # "MISSING_DATA"
        /\ Abandon("INVALID_CHECKSUM") /\ ~Conforms /\ pc = "verify"
    BY <1>6 DEF BadChecksum, Control, Busy, OkStatuses
  <2>2. ~Intact(copy)
    BY <2>1 DEF Conforms, ColumnsHeld
  <2> QED BY <2>1, <2>2, AbandonTried DEF Statuses
<1>7. CASE NoDecoder
  <2>1. /\ copy \in bp.dvas /\ pc \in Busy /\ status' = "UNKNOWN" /\ Abandon("UNKNOWN")
        /\ ~bp.decoder
    BY <1>7 DEF NoDecoder, Control, Busy
  <2> QED BY <2>1, AbandonTried DEF Statuses
<1>8. CASE DecompressionFails
  <2>1. /\ copy \in bp.dvas /\ pc \in Busy /\ pc = "decompress"
        /\ status' = "INVALID_CHECKSUM" /\ Abandon(Assembled) /\ Brut = "bad"
    BY <1>8 DEF DecompressionFails, Control, Busy
  <2>2. ~Intact(copy) /\ Assembled \in Statuses /\ Assembled # "MISSING_DATA"
    BY <2>1 DEF ColumnsHeld, Assembled, Statuses, OkStatuses
  <2> QED BY <2>1, <2>2, AbandonTried
<1>9. CASE StartCopies \/ BeginCopy \/ ReadColumn \/ EndRead \/ RebuildColumn
           \/ Concatenate \/ GoodChecksum
  <2>1. copy' = copy /\ attempts' = attempts /\ status' = status
        /\ pc \notin {"done", "raised"}
    BY <1>9 DEF StartCopies, BeginCopy, ReadColumn, EndRead, RebuildColumn,
                Concatenate, GoodChecksum
  <2> QED BY <1>0, <2>1 DEF Tried
<1>10. CASE UNCHANGED vars
  <2>1. copy' = copy /\ attempts' = attempts /\ status' = status /\ pc' = pc
    BY <1>10 DEF vars
  <2> QED BY <1>0, <2>1 DEF Tried
<1> QED BY <1>1, <1>2, <1>3, <1>4, <1>5, <1>6, <1>7, <1>8, <1>9, <1>10 DEF Next

\* The three parts hold together.
LEMMA BlockReadInvariant == Spec => [](TypeOK /\ Control /\ ColumnsHeld /\ Tried)
<1>1. Init => ColumnsHeld
  BY DEF Init, ColumnsHeld
<1>2. Init => Tried
  <2>1. Init => \A i \in bp.dvas : ~(i < copy)
    BY BlockReadAssumption DEF Init, Copies
  <2> QED BY <2>1 DEF Tried
<1>3. TypeOK /\ Control /\ ColumnsHeld /\ Tried /\ [Next]_vars
        => ColumnsHeld' /\ Tried'
  BY ColumnsHeldStep, TriedStep
<1> QED BY <1>1, <1>2, <1>3, BlockReadTypeOK, PTL DEF Spec
-----------------------------------------------------------------------------
(* What the caller gets.                                                   *)

IInv == TypeOK /\ Control /\ ColumnsHeld /\ Tried

Answers == NoInvention /\ FindsIntactCopy /\ MissingMeansLost /\ RebuiltMeansRebuilt

\* A copy delivered is the block itself, if a checksum was there to tell.
LEMMA DeliverGood ==
  ASSUME IInv, Deliver
  PROVE  /\ data' = Brut /\ status' = Assembled /\ pc' = "done" /\ copy' = copy
         /\ copy \in bp.dvas /\ Regular /\ bp.decoder /\ bp.checksum # "unsupported"
         /\ bp.checksum # "off" => Brut = "good" /\ Intact(copy)
         /\ rebuilt = Gone(copy) \cap Data
BY DEF IInv, Deliver, ColumnsHeld, Control, Busy, Conforms

\* When the loop ends, every copy was tried in vain.
LEMMA FailTried ==
  ASSUME IInv, Fail
  PROVE  /\ data' = None /\ status' \notin OkStatuses /\ pc' = "done" /\ Regular
         /\ bp.decoder /\ bp.checksum = "computed" => \A i \in bp.dvas : ~Intact(i)
         /\ status' = "MISSING_DATA" => \A i \in bp.dvas : CopyLost(i)
<1>1. \A i \in bp.dvas : i < copy
  BY BlockReadAssumption DEF IInv, Fail, TypeOK, Copies
<1>2. pc = "copy"
  BY DEF Fail
<1>3. \A i \in bp.dvas :
        /\ attempts[i] = "MISSING_DATA" => CopyLost(i)
        /\ attempts[i] # "MISSING_DATA" => status # "MISSING_DATA"
        /\ bp.decoder /\ bp.checksum = "computed" => ~Intact(i)
  BY <1>1, <1>2 DEF IInv, Tried
<1>4. data = None /\ status \notin OkStatuses /\ Regular
  BY <1>2 DEF IInv, Control
<1>5. data' = None /\ status' \notin OkStatuses /\ pc' = "done"
  BY <1>4 DEF Fail, OkStatuses
<1>6. ASSUME status' = "MISSING_DATA" PROVE \A i \in bp.dvas : CopyLost(i)
  <2>1. \A i \in bp.dvas : attempts[i] = "MISSING_DATA"
    BY <1>3, <1>6 DEF Fail
  <2> QED BY <2>1, <1>3
<1> QED BY <1>3, <1>4, <1>5, <1>6

LEMMA AnswersStep ==
  ASSUME IInv, Answers, [Next]_vars
  PROVE  Answers'
<1> USE DEF Answers
<1>0. /\ bp' = bp /\ Data' = Data /\ (Regular' <=> Regular)
      /\ \A i : Gone(i)' = Gone(i) /\ Intact(i)' = Intact(i) /\ CopyLost(i)' = CopyLost(i)
  BY EnvConstant, EnvFacts
<1>1. CASE ReadHole \/ ReadEmbedded \/ Refuse
  <2>1. ~Regular /\ status' # "MISSING_DATA" /\ (status' \in OkStatuses => data' = "good")
    BY <1>1 DEF ReadHole, ReadEmbedded, Refuse, Return, Regular, OkStatuses
  <2> QED BY <1>0, <2>1 DEF NoInvention, FindsIntactCopy, MissingMeansLost, RebuiltMeansRebuilt
<1>2. CASE Deliver
  <2>1. /\ data' = Brut /\ status' = Assembled /\ pc' = "done" /\ copy' = copy
        /\ bp.checksum # "off" => Brut = "good"
        /\ rebuilt = Gone(copy) \cap Data
    BY <1>2, DeliverGood
  <2>2. status' \in OkStatuses /\ status' # "MISSING_DATA"
    BY <2>1 DEF Assembled, OkStatuses
  <2>3. status' = "RECOVERED_WITH_RECONSTRUCTION" <=> Gone(copy) \cap Data # {}
    BY <2>1 DEF Assembled
  <2> QED BY <1>0, <2>1, <2>2, <2>3
          DEF NoInvention, FindsIntactCopy, MissingMeansLost, RebuiltMeansRebuilt
<1>3. CASE Fail
  <2>1. /\ status' \notin OkStatuses
        /\ bp.decoder /\ bp.checksum = "computed" => \A i \in bp.dvas : ~Intact(i)
        /\ status' = "MISSING_DATA" => \A i \in bp.dvas : CopyLost(i)
    BY <1>3, FailTried
  <2>2. NoInvention' /\ RebuiltMeansRebuilt'
    BY <2>1 DEF NoInvention, RebuiltMeansRebuilt
  <2>3. FindsIntactCopy'
    BY <1>0, <2>1 DEF FindsIntactCopy
  <2>4. MissingMeansLost'
    BY <1>0, <2>1 DEF MissingMeansLost, CopyLost
  <2> QED BY <2>2, <2>3, <2>4
<1>4. CASE \/ StartCopies \/ SkipEmpty \/ Hopeless \/ BeginCopy \/ ReadColumn \/ EndRead
           \/ GiveUpCopy \/ RebuildColumn \/ Concatenate \/ UnknownChecksum \/ BadChecksum
           \/ GoodChecksum \/ NoDecoder \/ DecompressionFails \/ DecoderRaises
  <2>1. ~Done'
    BY <1>4 DEF Done, StartCopies, SkipEmpty, Hopeless, BeginCopy, ReadColumn, EndRead,
                GiveUpCopy, RebuildColumn, Concatenate, UnknownChecksum, BadChecksum,
                GoodChecksum, NoDecoder, DecompressionFails, DecoderRaises, Abandon
  <2> QED BY <2>1 DEF NoInvention, FindsIntactCopy, MissingMeansLost, RebuiltMeansRebuilt
<1>5. CASE UNCHANGED vars
  <2>1. pc' = pc /\ status' = status /\ data' = data /\ copy' = copy
    BY <1>5 DEF vars
  <2> QED BY <1>0, <2>1
          DEF NoInvention, FindsIntactCopy, MissingMeansLost, RebuiltMeansRebuilt, Done
<1> QED BY <1>1, <1>2, <1>3, <1>4, <1>5 DEF Next

LEMMA AnswersInvariant == Spec => []Answers
<1>1. Init => Answers
  BY DEF Init, Answers, NoInvention, FindsIntactCopy, MissingMeansLost,
         RebuiltMeansRebuilt, Done
<1>2. TypeOK /\ Control /\ ColumnsHeld /\ Tried => IInv
  BY DEF IInv
<1>3. IInv /\ Answers /\ [Next]_vars => Answers'
  BY AnswersStep
<1> QED BY <1>1, <1>2, <1>3, BlockReadInvariant, PTL DEF Spec

\* No success without the bytes ZFS wrote, unless the checksum is off.
THEOREM BlockReadNoInvention == Spec => []NoInvention
<1>1. Answers => NoInvention
  BY DEF Answers
<1> QED BY <1>1, AnswersInvariant, PTL

\* A copy that determines the block is never missed.
THEOREM BlockReadFindsIntactCopy == Spec => []FindsIntactCopy
<1>1. Answers => FindsIntactCopy
  BY DEF Answers
<1> QED BY <1>1, AnswersInvariant, PTL

\* MISSING_DATA is said of blocks no copy of which can be put together.
THEOREM BlockReadMissingMeansLost == Spec => []MissingMeansLost
<1>1. Answers => MissingMeansLost
  BY DEF Answers
<1> QED BY <1>1, AnswersInvariant, PTL

\* A reconstruction is reported for the copy delivered and no other.
THEOREM BlockReadRebuiltMeansRebuilt == Spec => []RebuiltMeansRebuilt
<1>1. Answers => RebuiltMeansRebuilt
  BY DEF Answers
<1> QED BY <1>1, AnswersInvariant, PTL

-----------------------------------------------------------------------------
(* Refinement: every step is one of BlockSource, or none.                  *)

LEMMA SourceStep ==
  ASSUME IInv, [Next]_vars
  PROVE  [Source!Next]_<<Readable, Checked, Outcome>>
<1>0. /\ bp' = bp /\ (Regular' <=> Regular) /\ \A i : Intact(i)' = Intact(i)
  BY EnvConstant, EnvFacts
<1>1. Readable' = Readable /\ Checked' = Checked
  BY <1>0 DEF Readable, Checked
<1>3. CASE ReadHole
  <2>1. Readable /\ Outcome = "pending" /\ Outcome' = "delivered"
    BY <1>3 DEF ReadHole, Return, Readable, Outcome, Done, OkStatuses
  <2> QED BY <2>1, <1>1 DEF Source!Next, Source!Deliver
<1>4. CASE ReadEmbedded
  <2>1. CASE bp.decoder
    <3>1. Readable /\ Outcome = "pending" /\ Outcome' = "delivered"
      BY <1>4, <2>1 DEF ReadEmbedded, Return, Readable, Outcome, Done, OkStatuses
    <3> QED BY <3>1, <1>1 DEF Source!Next, Source!Deliver
  <2>2. CASE ~bp.decoder
    <3>1. ~Readable /\ Outcome = "pending" /\ Outcome' = "refused"
      BY <1>4, <2>2 DEF ReadEmbedded, Return, Readable, Regular, Outcome, Done, OkStatuses
    <3> QED BY <3>1, <1>1 DEF Source!Next, Source!Refuse
  <2> QED BY <2>1, <2>2
<1>5. CASE Refuse
  <2>1. ~Readable /\ Outcome = "pending" /\ Outcome' = "refused"
    BY <1>5 DEF Refuse, Return, Readable, Regular, Outcome, Done, OkStatuses
  <2> QED BY <2>1, <1>1 DEF Source!Next, Source!Refuse
<1>6. CASE Deliver
  <2>1. /\ data' = Brut /\ status' = Assembled /\ pc' = "done"
        /\ copy \in bp.dvas /\ Regular /\ bp.decoder /\ bp.checksum # "unsupported"
        /\ bp.checksum # "off" => Brut = "good" /\ Intact(copy)
    BY <1>6, DeliverGood
  <2>2. Checked => Readable /\ data' = "good"
    BY <2>1 DEF Readable, Checked
  <2>3. Outcome = "pending" /\ Outcome' = "delivered"
    BY <1>1, <1>6, <2>1, <2>2 DEF Deliver, Outcome, Done, Assembled, OkStatuses
  <2> QED BY <2>2, <2>3, <1>1 DEF Source!Next, Source!Deliver
<1>7. CASE Fail
  <2>1. /\ data' = None /\ status' \notin OkStatuses /\ pc' = "done" /\ Regular
        /\ bp.decoder /\ bp.checksum = "computed" => \A i \in bp.dvas : ~Intact(i)
    BY <1>7, FailTried
  <2>2. bp.checksum \in AllChecksums
    BY BlockReadAssumption DEF IInv, TypeOK
  <2>3. Checked => ~Readable
    BY <2>1, <2>2 DEF Readable, Checked, Regular, AllChecksums
  <2>4. Outcome = "pending" /\ Outcome' = "refused"
    BY <1>7, <2>1 DEF Fail, Outcome, Done
  <2> QED BY <2>3, <2>4, <1>1 DEF Source!Next, Source!Refuse
<1>8. CASE \/ StartCopies \/ SkipEmpty \/ Hopeless \/ BeginCopy \/ ReadColumn \/ EndRead
           \/ GiveUpCopy \/ RebuildColumn \/ Concatenate \/ UnknownChecksum \/ BadChecksum
           \/ GoodChecksum \/ NoDecoder \/ DecompressionFails
  <2>1. pc \notin {"done", "raised"} /\ pc' \notin {"done", "raised"}
    BY <1>8 DEF StartCopies, SkipEmpty, Hopeless, BeginCopy, ReadColumn, EndRead,
                GiveUpCopy, RebuildColumn, Concatenate, UnknownChecksum, BadChecksum,
                GoodChecksum, NoDecoder, DecompressionFails, Abandon
  <2>2. Outcome = "pending"
    BY <2>1 DEF Outcome, Done
  <2>3. Outcome' = "pending"
    BY <2>1 DEF Outcome, Done
  <2> QED BY <2>2, <2>3, <1>1
<1>9. CASE DecoderRaises
  <2>1. ~Checked
    BY <1>9 DEF DecoderRaises, IInv, ColumnsHeld, Control, Busy, Conforms, Checked
  <2>2. Outcome = "pending" /\ Outcome' = "refused"
    BY <1>9 DEF DecoderRaises, IInv, Control, Busy, Outcome, Done
  <2> QED BY <2>1, <2>2, <1>1 DEF Source!Next, Source!Refuse
<1>10. CASE UNCHANGED vars
  <2>1. Outcome' = Outcome
    BY <1>10 DEF vars, Outcome, Done
  <2> QED BY <2>1, <1>1
<1> QED BY <1>3, <1>4, <1>5, <1>6, <1>7, <1>8, <1>9, <1>10 DEF Next

\* read_block() does what BlockSource promises, its termination apart: the
\* block if it can be had, a refusal if not, once.  ImplementsSource without
\* its fairness.
THEOREM BlockReadImplementsSource ==
  Spec => Source!Init /\ [][Source!Next]_<<Readable, Checked, Outcome>>
<1>1. Init => Source!Init
  <2>1. Readable \in BOOLEAN /\ Checked \in BOOLEAN
    BY DEF Readable, Checked
  <2>2. Init => Outcome = "pending"
    BY DEF Init, Outcome, Done
  <2> QED BY <2>1, <2>2 DEF Source!Init
<1>2. IInv /\ [Next]_vars => [Source!Next]_<<Readable, Checked, Outcome>>
  BY SourceStep
<1>3. TypeOK /\ Control /\ ColumnsHeld /\ Tried => IInv
  BY DEF IInv
<1> QED BY <1>1, <1>2, <1>3, BlockReadInvariant, PTL DEF Spec
=============================================================================
