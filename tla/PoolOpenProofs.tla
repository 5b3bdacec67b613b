--------------------------- MODULE PoolOpenProofs ---------------------------
(***************************************************************************)
(* Theorems about PoolOpen, for any supports, pools, tables and damage.    *)
(*                                                                         *)
(* The inductive invariant has three parts.  SInv: the support scanned is  *)
(* kept as a function of the disks says (Kept), no partition with a label  *)
(* was passed over, and the descriptors open are those of the supports     *)
(* kept.  Found: what is retained of the pool is what all the supports     *)
(* kept tell, so that a command run again finds the same.  Newest: no      *)
(* state above the one asked for, or chosen, can be read.                  *)
(***************************************************************************)
EXTENDS PoolOpen, FiniteSetTheorems, TLAPS

-----------------------------------------------------------------------------
(* Least and greatest of finite sets.                                      *)

\* A finite set of naturals that has an element has a greatest one.
LEMMA GreatestExists ==
  ASSUME NEW S \in SUBSET Nat, IsFiniteSet(S), S # {}
  PROVE  /\ \E x \in S : \A y \in S : y <= x
         /\ Max(S) \in S /\ \A y \in S : y <= Max(S)
<1> DEFINE top(T) == \E x \in T : \A y \in T : y <= x
           B == {T \in SUBSET Nat : IsFiniteSet(T) /\ T # {} /\ ~top(T)}
<1>1. B = {}
  <2> SUFFICES ASSUME B # {} PROVE FALSE
    OBVIOUS
  <2>1. B \subseteq FiniteSubsetsOf(Nat)
    BY DEF FiniteSubsetsOf
  <2>2. PICK T \in B : \A U \in B : ~(<<U, T>> \in StrictSubsetOrdering(Nat))
    <3> HIDE DEF B
    <3> QED BY <2>1, FS_StrictSubsetOrderingWellFounded, WFMin
  <2>3. PICK x \in T : TRUE
    OBVIOUS
  <2>4. T \ {x} \subseteq Nat /\ T \ {x} \subseteq T /\ T \ {x} # T /\ IsFiniteSet(T \ {x})
    BY <2>3, FS_RemoveElement
  <2>5. T \ {x} \notin B
    BY <2>2, <2>4 DEF StrictSubsetOrdering
  <2>6. CASE T \ {x} = {}
    BY <2>3, <2>6
  <2>7. CASE top(T \ {x})
    <3>1. PICK m \in T \ {x} : \A y \in T \ {x} : y <= m
      BY <2>7
    <3>2. CASE m <= x
      <4>1. \A y \in T : y <= x
        BY <3>1, <3>2, <2>3
      <4> QED BY <4>1, <2>3
    <3>3. CASE x <= m
      <4>1. \A y \in T : y <= m
        BY <3>1, <3>3, <2>3
      <4> QED BY <4>1, <3>1
    <3> QED BY <3>1, <3>2, <3>3, <2>3
  <2> QED BY <2>4, <2>5, <2>6, <2>7
<1>2. PICK x \in S : \A y \in S : y <= x
  BY <1>1
<1>3. \A y \in S : x >= y
  BY <1>2
<1>4. Max(S) \in S /\ \A y \in S : Max(S) >= y
  BY <1>3 DEF Max
<1> QED BY <1>2, <1>4

\* A set of naturals that has an element has a least one.
LEMMA LeastExists ==
  ASSUME NEW S \in SUBSET Nat, S # {}
  PROVE  /\ \E x \in S : \A y \in S : x <= y
         /\ Min(S) \in S /\ \A y \in S : Min(S) <= y
<1> PICK s \in S : TRUE
  OBVIOUS
<1> DEFINE L == {n \in 0 .. s : \A y \in S : n <= y}
<1>1. L \in SUBSET Nat /\ 0 \in L
  OBVIOUS
<1>2. IsFiniteSet(L)
  <2>1. IsFiniteSet(0 .. s)
    BY FS_Interval
  <2> QED BY <2>1, FS_Subset
<1>3. PICK m \in L : \A n \in L : n <= m
  <2> HIDE DEF L
  <2> QED BY <1>1, <1>2, GreatestExists
<1>4. m \in S
  <2> SUFFICES ASSUME m \notin S PROVE FALSE
    OBVIOUS
  <2>1. \A y \in S : m + 1 <= y
    OBVIOUS
  <2>2. m + 1 \in L
    BY <2>1
  <2> QED BY <1>3, <2>2
<1>5. \A y \in S : m <= y
  OBVIOUS
<1> QED BY <1>4, <1>5 DEF Min

\* So has what a finite set is mapped to.
LEMMA GreatestOf ==
  ASSUME NEW S, IsFiniteSet(S), S # {}, NEW f \in [S -> Nat]
  PROVE  \E x \in S : \A y \in S : f[y] <= f[x]
<1> DEFINE T == {f[x] : x \in S}
<1>1. f \in Surjection(S, T)
  BY DEF Surjection
<1>2. IsFiniteSet(T)
  BY <1>1, FS_Surjection
<1>3. PICK m \in T : \A t \in T : t <= m
  <2>1. T \in SUBSET Nat /\ T # {}
    OBVIOUS
  <2> HIDE DEF T
  <2> QED BY <1>2, <2>1, GreatestExists
<1> QED BY <1>3

-----------------------------------------------------------------------------
(* Windows and labels.                                                     *)

\* A window that lies in a support.
Lies(w) ==
  w.path \in Paths /\ w.start \in Nat /\ w.size \in Nat \ {0} /\ w.start + w.size <= Media[w.path]

\* A vdev that ZFS wrote there, seen from its beginning.
IsVdevOf(w, v) == v \in ToSet(Written[w.path]) /\ v.start = w.start

\* A label that verifies is one of a vdev that begins where the window does.
LEMMA IntactStart ==
  ASSUME NEW w, w.path \in Paths, w.start \in Int, NEW i, NEW part, NEW s \in Intact(w, i, part)
  PROVE  IsVdevOf(w, s.vdev) /\ s.index \in Labels
<1> DEFINE x == LabelOffset(w.size, i)
<1>1. /\ s \in Stored(w.path, w.start + x)
      /\ LabelOffset(s.vdev.size, s.index) = x
      /\ x >= 0
  BY DEF Intact, Verifies
<1>2. PICK ki \in (DOMAIN Written[w.path]) \X Labels :
         /\ s = [vdev |-> Written[w.path][ki[1]], index |-> ki[2]]
         /\ w.start + x = Written[w.path][ki[1]].start
                            + LabelOffset(Written[w.path][ki[1]].size, ki[2])
  BY <1>1 DEF Stored, Place
<1>3. s.vdev = Written[w.path][ki[1]] /\ s.index = ki[2] /\ s.index \in Labels
  BY <1>2
<1>4. s.vdev \in ToSet(Written[w.path])
  BY <1>2, <1>3 DEF ToSet
<1>5. s.vdev.start \in Nat /\ s.vdev.size \in Nat
  BY <1>4, SupportAssumption DEF VdevAssumption
<1>6. LabelOffset(s.vdev.size, s.index) \in Int
  BY <1>3, <1>5 DEF LabelOffset, Labels
<1>7. w.start + x = s.vdev.start + x
  BY <1>1, <1>2, <1>3
<1> HIDE DEF x
<1>8. s.vdev.start = w.start
  BY <1>1, <1>5, <1>6, <1>7
<1> QED BY <1>3, <1>4, <1>8 DEF IsVdevOf

\* The label kept for a usable window is that of a vdev that begins with it.
LEMMA BestOf ==
  ASSUME NEW w, w.path \in Paths, w.start \in Int, Usable(w)
  PROVE  \E v \in ToSet(Written[w.path]), i \in 1 .. 4 :
            /\ v.start = w.start
            /\ Best(w) = [txg |-> v.txg[i], guid |-> v.guid, pool |-> v.pool, ashift |-> v.ashift]
<1>1. ValidLabels(w) # {} /\ Best(w) = ConfigOf(w, BestLabel(w))
  BY DEF Usable, Best
<1>2. ASSUME NEW i \in ValidLabels(w)
      PROVE  \E s \in Intact(w, i, Configuration) : ConfigOf(w, i) = Config(s)
  BY <1>2 DEF ValidLabels, ConfigOf
<1>3. ASSUME NEW i \in ValidLabels(w) PROVE ConfigOf(w, i).txg \in Nat
  <2>1. PICK s \in Intact(w, i, Configuration) : ConfigOf(w, i) = Config(s)
    BY <1>2, <1>3
  <2>2. s.vdev \in ToSet(Written[w.path]) /\ s.index \in Labels
    BY <2>1, IntactStart DEF IsVdevOf
  <2>3. s.vdev.pool \in Pools /\ s.vdev.txg \in [1 .. 4 -> DOMAIN Tree[s.vdev.pool]]
    BY <2>2, SupportAssumption DEF VdevAssumption
  <2>4. DOMAIN Tree[s.vdev.pool] \subseteq Nat
    BY <2>3, SupportAssumption DEF PoolAssumption
  <2>5. s.index + 1 \in 1 .. 4
    BY <2>2 DEF Labels
  <2>6. s.vdev.txg[s.index + 1] \in Nat
    BY <2>3, <2>4, <2>5
  <2> QED BY <2>1, <2>6 DEF Config
<1>4. BestLabel(w) \in ValidLabels(w)
  <2> DEFINE f == [i \in ValidLabels(w) |-> ConfigOf(w, i).txg]
             T == {i \in ValidLabels(w) :
                     \A j \in ValidLabels(w) : ConfigOf(w, j).txg <= ConfigOf(w, i).txg}
  <2>1. IsFiniteSet(ValidLabels(w)) /\ ValidLabels(w) \subseteq Nat
    <3>1. IsFiniteSet(Labels)
      <4>1. Labels \in SUBSET Nat /\ \A i \in Labels : i <= 3
        BY DEF Labels
      <4>2. 3 \in Nat
        OBVIOUS
      <4> QED BY <4>1, <4>2, FS_BoundedSetOfNaturals
    <3>2. ValidLabels(w) \in SUBSET Labels
      BY DEF ValidLabels
    <3> QED BY <3>1, <3>2, FS_Subset DEF Labels
  <2>2. f \in [ValidLabels(w) -> Nat]
    BY <1>3
  <2>3. PICK i \in ValidLabels(w) : \A j \in ValidLabels(w) : f[j] <= f[i]
    <3> HIDE DEF f
    <3> QED BY <1>1, <2>1, <2>2, GreatestOf
  <2>4. T \in SUBSET Nat /\ T # {}
    BY <2>1, <2>3
  <2>5. Min(T) \in T
    BY <2>4, LeastExists
  <2> QED BY <2>5 DEF BestLabel
<1>5. PICK s \in Intact(w, BestLabel(w), Configuration) : Best(w) = Config(s)
  BY <1>1, <1>2, <1>4
<1>6. s.vdev \in ToSet(Written[w.path]) /\ s.vdev.start = w.start /\ s.index \in Labels
  BY <1>5, IntactStart DEF IsVdevOf
<1>7. s.index + 1 \in 1 .. 4
  BY <1>6 DEF Labels
<1> QED BY <1>5, <1>6, <1>7 DEF Config

-----------------------------------------------------------------------------
(* What is kept of a support.  The disks and the command do not change, so  *)
(* it is stated of them as parameters.                                     *)

IntactIn(d, w, i, part) ==
  LET x == LabelOffset(w.size, i) IN
  {s \in Stored(w.path, w.start + x) :
     /\ x >= 0 /\ x < w.size
     /\ Verifies(s, x)
     /\ <<w.path, w.start + x, part>> \notin d}

ValidIn(d, w) == {i \in Labels : IntactIn(d, w, i, Configuration) # {}}
ConfigIn(d, w, i) == Config(CHOOSE s \in IntactIn(d, w, i, Configuration) : TRUE)
BestIn(d, w) ==
  IF ValidIn(d, w) = {} THEN NoLabel
  ELSE ConfigIn(d, w, Min({i \in ValidIn(d, w) :
         \A j \in ValidIn(d, w) : ConfigIn(d, w, j).txg <= ConfigIn(d, w, i).txg}))

\* The partitions of a support that have a label.
AcceptedIn(d, p) == {c \in Candidates(p) : BestIn(d, c.window) # NoLabel}

\* The window a support is read through, in the end.
ResultIn(c, d, p) ==
  IF c.offset # NoOffset THEN Window(p, c.offset, Media[p])
  ELSE IF BestIn(d, Whole(p)) # NoLabel \/ ~c.partitions \/ AcceptedIn(d, p) = {} THEN Whole(p)
  ELSE First(AcceptedIn(d, p)).window

KeptIn(c, d, p) == [window |-> ResultIn(c, d, p), label |-> BestIn(d, ResultIn(c, d, p))]
Kept(p) == KeptIn(cmd, damage, p)

LEMMA BestIsIn ==
  ASSUME NEW w
  PROVE  Best(w) = BestIn(damage, w) /\ (Usable(w) <=> BestIn(damage, w) # NoLabel)
<1>1. Best(w) = BestIn(damage, w)
  BY Zenon DEF Best, BestIn, BestLabel, ValidLabels, ValidIn, ConfigOf, ConfigIn, Intact, IntactIn
<1> QED BY <1>1 DEF Usable

-----------------------------------------------------------------------------
(* Partitions and windows.                                                 *)

\* The least rank of a set that has an element.
LEMMA FirstIs ==
  ASSUME NEW S, S # {}, \A c \in S : c.rank \in Nat
  PROVE  First(S) \in S /\ \A c \in S : First(S).rank <= c.rank
<1> DEFINE R == {c.rank : c \in S}
<1>1. R \in SUBSET Nat /\ R # {}
  OBVIOUS
<1>2. PICK r \in R : \A q \in R : r <= q
  <2> HIDE DEF R
  <2> QED BY <1>1, LeastExists
<1>3. PICK c \in S : \A e \in S : c.rank <= e.rank
  BY <1>2
<1> QED BY <1>3 DEF First

\* A window cut at the end of its support lies in it.
LEMMA WindowLies ==
  ASSUME NEW p \in Paths, NEW start \in Nat, start < Media[p], NEW length \in Int, length > 0
  PROVE  Lies(Window(p, start, length)) /\ Window(p, start, length).path = p
<1>1. Media[p] \in Nat
  BY SupportAssumption
<1> QED BY <1>1 DEF Lies, Window

LEMMA WholeLies ==
  ASSUME NEW p \in Paths, Opens(p, 0)
  PROVE  Lies(Whole(p)) /\ Whole(p).path = p
<1>1. Media[p] \in Nat
  BY SupportAssumption
<1> QED BY <1>1 DEF Lies, Whole, Opens

\* Partitions lie in their support, and no two of them have one rank.
LEMMA CandidatesLie ==
  ASSUME NEW p \in Paths
  PROVE  /\ \A c \in Candidates(p) : c.rank \in Nat /\ Lies(c.window) /\ c.window.path = p
         /\ \A c, e \in Candidates(p) : c.rank = e.rank => c = e
<1>1. CASE Telling(p) = {}
  BY <1>1 DEF Candidates
<1>2. CASE Telling(p) # {}
  <2> DEFINE t == Tables[p][Min(Telling(p))]
             rank(k) == IF t.entries[k].zfs THEN k ELSE Len(t.entries) + k
  <2>1. t \in ToSet(Tables[p])
    <3>1. DOMAIN Tables[p] \subseteq Nat
      BY SupportAssumption
    <3>2. Telling(p) \in SUBSET Nat
      BY <3>1 DEF Telling
    <3>3. Min(Telling(p)) \in DOMAIN Tables[p]
      BY <1>2, <3>2, LeastExists DEF Telling
    <3> QED BY <3>3 DEF ToSet
  <2>2. /\ t.entries \in Seq(ToSet(t.entries))
        /\ \A e \in ToSet(t.entries) : e.start \in Nat /\ e.length \in Int
    BY <2>1, SupportAssumption
  <2>3. Candidates(p) = {[rank |-> rank(k), window |-> Partition(p, t, k)] :
           k \in {k \in Entries(p, t) :
                    t.entries[k].zfs \/ Partition(p, t, k).size > BigEnough}}
    BY <1>2, Zenon DEF Candidates
  <2> HIDE DEF t
  <2>4. \A k \in DOMAIN t.entries : /\ k \in 1 .. Len(t.entries) /\ Len(t.entries) \in Nat
                                   /\ t.entries[k].start \in Nat /\ t.entries[k].length \in Int
    BY <2>2 DEF ToSet
  <2>5. ASSUME NEW k \in Entries(p, t)
        PROVE  /\ rank(k) \in Nat
               /\ Lies(Partition(p, t, k)) /\ Partition(p, t, k).path = p
    BY <2>4, WindowLies DEF Entries, Partition
  <2>6. \A k, l \in Entries(p, t) : rank(k) = rank(l) => k = l
    BY <2>4 DEF Entries
  <2> HIDE DEF rank
  <2>7. ASSUME NEW c \in Candidates(p)
        PROVE  \E k \in Entries(p, t) : c = [rank |-> rank(k), window |-> Partition(p, t, k)]
    BY <2>3
  <2>8. ASSUME NEW c \in Candidates(p)
        PROVE  c.rank \in Nat /\ Lies(c.window) /\ c.window.path = p
    BY <2>5, <2>7
  <2>9. ASSUME NEW c \in Candidates(p), NEW e \in Candidates(p), c.rank = e.rank PROVE c = e
    <3>1. PICK k \in Entries(p, t) : c = [rank |-> rank(k), window |-> Partition(p, t, k)]
      BY <2>7
    <3>2. PICK l \in Entries(p, t) : e = [rank |-> rank(l), window |-> Partition(p, t, l)]
      BY <2>7
    <3>3. k = l
      BY <2>6, <2>9, <3>1, <3>2
    <3> QED BY <3>1, <3>2, <3>3
  <2> QED BY <2>8, <2>9
<1> QED BY <1>1, <1>2

\* The first partition to try, when it has a label, is the one kept.
LEMMA FirstAccepted ==
  ASSUME NEW p \in Paths, NEW S \in SUBSET Candidates(p), NEW d,
         AcceptedIn(d, p) \subseteq S, S # {}
  PROVE  /\ First(S) \in S /\ Lies(First(S).window) /\ First(S).window.path = p
         /\ BestIn(d, First(S).window) # NoLabel =>
              AcceptedIn(d, p) # {} /\ First(S) = First(AcceptedIn(d, p))
<1>1. First(S) \in S /\ \A c \in S : First(S).rank <= c.rank
  BY FirstIs, CandidatesLie
<1>2. ASSUME BestIn(d, First(S).window) # NoLabel
      PROVE  AcceptedIn(d, p) # {} /\ First(S) = First(AcceptedIn(d, p))
  <2> DEFINE A == AcceptedIn(d, p)
  <2>1. First(S) \in A
    BY <1>1, <1>2 DEF AcceptedIn
  <2>2. A # {} /\ A \subseteq Candidates(p)
    BY <2>1 DEF AcceptedIn
  <2>3. First(A) \in A /\ \A c \in A : First(A).rank <= c.rank
    BY <2>2, FirstIs, CandidatesLie
  <2>4. First(S).rank = First(A).rank
    <3>1. First(S).rank <= First(A).rank /\ First(A).rank <= First(S).rank
      BY <1>1, <2>1, <2>3
    <3>2. First(S).rank \in Nat /\ First(A).rank \in Nat
      BY <1>1, <2>2, <2>3, CandidatesLie
    <3> QED BY <3>1, <3>2
  <2> QED BY <1>1, <2>2, <2>3, <2>4, CandidatesLie
<1> QED BY <1>1, <1>2, CandidatesLie

-----------------------------------------------------------------------------
(* The scan.                                                               *)

\* Every support scanned is kept as KeptIn says: what the scan does in several
\* steps depends on the disks and the command alone.
Scanning ==
  /\ cmd \in Commands /\ damage \in Damages
  /\ scanned \in Seq({Kept(p) : p \in Paths})
  /\ Len(scanned) <= Len(cmd.paths)
  /\ \A n \in All : /\ scanned[n] = Kept(cmd.paths[n])
                    /\ Lies(scanned[n].window) /\ scanned[n].window.path = cmd.paths[n]
  /\ pc \in {"rings", "choose", "mos", "opened"} => Len(scanned) = Len(cmd.paths)

\* No partition with a label was passed over.
Trying ==
  pc = "try" =>
    /\ N <= Len(cmd.paths) /\ ~Forced /\ cmd.partitions /\ Opens(Path, 0)
    /\ BestIn(damage, Whole(Path)) = NoLabel
    /\ AcceptedIn(damage, Path) \subseteq try /\ try \subseteq Candidates(Path)

\* One descriptor per support, the current one included, and none after a refusal.
Held == {<<n, scanned[n].window>> : n \in All}
Descriptors ==
  /\ pc = "try" => open = Held \cup {<<N, Whole(Path)>>}
  /\ pc = "refused" => open = {}
  /\ pc \notin {"try", "refused"} => open = Held

SInv == Scanning /\ Trying /\ Descriptors

\* The command line names supports.
LEMMA PathsType ==
  ASSUME Scanning
  PROVE  /\ cmd.paths \in Seq(Paths) /\ cmd.offset \in Int
         /\ Len(scanned) \in Nat /\ N = Len(scanned) + 1 /\ All = 1 .. Len(scanned)
         /\ N <= Len(cmd.paths) => Path \in Paths
<1>1. cmd.paths \in Seq(Paths) /\ cmd.offset \in Int
  BY SupportAssumption DEF Scanning
<1>2. Len(scanned) \in Nat /\ All = 1 .. Len(scanned)
  BY DEF Scanning, All
<1>3. N <= Len(cmd.paths) => Path \in Paths
  BY <1>1, <1>2 DEF N, Path
<1> QED BY <1>1, <1>2, <1>3 DEF N

\* A support is scanned.
LEMMA KeepStep ==
  ASSUME SInv, pc \in {"scan", "try"}, N <= Len(cmd.paths), UNCHANGED disks, pc' = "scan",
         NEW w, w = ResultIn(cmd, damage, Path), Keep(w), Lies(w), w.path = Path,
         open' = Held \cup {<<N, w>>}
  PROVE  SInv'
<1>1. cmd' = cmd /\ damage' = damage /\ \A p : Kept(p)' = Kept(p)
  BY DEF disks, Kept
<1>2. scanned' = Append(scanned, Kept(Path)) /\ Kept(Path).window = w
  <2>1. Best(w) = BestIn(damage, w)
    BY BestIsIn
  <2> QED BY <2>1 DEF Keep, Kept, KeptIn
<1>3. /\ Path \in Paths /\ Len(scanned) \in Nat /\ N = Len(scanned) + 1
      /\ All = 1 .. Len(scanned) /\ cmd.paths \in Seq(Paths)
      /\ Path = cmd.paths[N]
  BY PathsType DEF SInv, Path
<1> DEFINE K == {Kept(p) : p \in Paths}
<1>4. scanned \in Seq(K) /\ Kept(Path) \in K
  BY <1>3 DEF SInv, Scanning
<1>5. K' = K
  BY <1>1
<1> HIDE DEF K
<1>6. /\ scanned' \in Seq(K) /\ Len(scanned') = Len(scanned) + 1
      /\ All' = All \cup {N}
      /\ \A n \in All : scanned'[n] = scanned[n]
      /\ scanned'[N] = Kept(Path)
  BY <1>2, <1>3, <1>4 DEF All
<1>7. \A n \in All' : /\ scanned'[n] = Kept(cmd.paths[n])
                      /\ Lies(scanned'[n].window) /\ scanned'[n].window.path = cmd.paths[n]
  BY <1>2, <1>3, <1>6 DEF SInv, Scanning
<1>8. scanned' \in Seq(K')
  BY <1>5, <1>6, Zenon
<1>9. Scanning'
  <2>1. Len(scanned') <= Len(cmd.paths)
    BY <1>3, <1>6
  <2> QED BY <1>1, <1>7, <1>8, <2>1 DEF SInv, Scanning, K
<1>10. Held' = Held \cup {<<N, w>>}
  BY <1>2, <1>6 DEF Held
<1> QED BY <1>9, <1>10 DEF SInv, Trying, Descriptors

\* The scan goes on, or another phase begins, with what was scanned.
LEMMA SameScan ==
  ASSUME Scanning, UNCHANGED <<disks, scanned>>,
         pc' \in {"rings", "choose", "mos", "opened"} => Len(scanned) = Len(cmd.paths)
  PROVE  Scanning' /\ Held' = Held
<1>1. cmd' = cmd /\ damage' = damage /\ scanned' = scanned /\ All' = All
  BY DEF disks, All
<1>2. \A p : Kept(p)' = Kept(p)
  BY <1>1 DEF Kept
<1> DEFINE K == {Kept(p) : p \in Paths}
<1>3. K' = K
  BY <1>2
<1>4. scanned' \in Seq(K')
  <2>1. scanned \in Seq(K)
    BY DEF Scanning
  <2> HIDE DEF K
  <2> QED BY <1>1, <1>3, <2>1, Zenon
<1>5. Scanning'
  BY <1>1, <1>2, <1>4 DEF Scanning
<1>6. Held' = Held
  BY <1>1 DEF Held
<1> QED BY <1>5, <1>6

\* A support read from the option offset.
LEMMA ForcedStep ==
  ASSUME SInv, ScanForced
  PROVE  SInv'
<1> DEFINE w == Window(Path, cmd.offset, Media[Path])
<1>1. /\ pc = "scan" /\ pc' = "scan" /\ N <= Len(cmd.paths) /\ UNCHANGED disks
      /\ Forced /\ Opens(Path, cmd.offset) /\ Keep(w) /\ open' = open \cup {<<N, w>>}
  BY DEF ScanForced
<1>2. Path \in Paths /\ cmd.offset \in Int /\ Media[Path] \in Nat
  BY <1>1, PathsType, SupportAssumption DEF SInv
<1>3. Lies(w) /\ w.path = Path
  BY <1>1, <1>2, WindowLies DEF Opens
<1>4. w = ResultIn(cmd, damage, Path)
  BY <1>1 DEF ResultIn, Forced
<1>5. open' = Held \cup {<<N, w>>}
  BY <1>1 DEF SInv, Descriptors
<1> HIDE DEF w
<1> QED BY <1>1, <1>3, <1>4, <1>5, KeepStep

\* A support read whole, or whose partitions are tried.
LEMMA ScanStep ==
  ASSUME SInv, Scan
  PROVE  SInv'
<1>1. /\ pc = "scan" /\ N <= Len(cmd.paths) /\ UNCHANGED disks /\ ~Forced
      /\ Opens(Path, 0) /\ open' = open \cup {<<N, Whole(Path)>>}
      /\ open = Held
  BY DEF Scan, SInv, Descriptors
<1>2. Path \in Paths
  BY <1>1, PathsType DEF SInv
<1>3. Lies(Whole(Path)) /\ Whole(Path).path = Path
  BY <1>1, <1>2, WholeLies
<1>4. CASE Usable(Whole(Path)) \/ ~cmd.partitions \/ Candidates(Path) = {}
  <2>1. Keep(Whole(Path)) /\ pc' = "scan"
    BY <1>1, <1>4 DEF Scan
  <2>2. Whole(Path) = ResultIn(cmd, damage, Path)
    BY <1>1, <1>4, BestIsIn DEF ResultIn, Forced, AcceptedIn
  <2> QED BY <1>1, <1>3, <2>1, <2>2, KeepStep
<1>5. CASE ~(Usable(Whole(Path)) \/ ~cmd.partitions \/ Candidates(Path) = {})
  <2>1. try' = Candidates(Path) /\ pc' = "try" /\ scanned' = scanned
    BY <1>5 DEF Scan
  <2>2. Scanning' /\ Held' = Held
    BY <1>1, <2>1, SameScan DEF SInv
  <2>3. /\ cmd' = cmd /\ damage' = damage /\ N' = N /\ Path' = Path
        /\ (Forced' <=> Forced) /\ (Opens(Path, 0)' <=> Opens(Path, 0))
    BY <1>1, <2>1 DEF disks, N, Path, Forced, Opens
  <2>4. BestIn(damage, Whole(Path)) = NoLabel
    BY <1>5, BestIsIn
  <2>5. AcceptedIn(damage, Path) \subseteq Candidates(Path)
    BY DEF AcceptedIn
  <2>6. Trying'
    BY <1>1, <1>5, <2>1, <2>3, <2>4, <2>5 DEF Trying
  <2> QED BY <1>1, <2>1, <2>2, <2>3, <2>6 DEF SInv, Descriptors, Whole
<1> QED BY <1>4, <1>5

\* A partition is kept in place of the whole support, or passed over.
LEMMA TryStep ==
  ASSUME SInv, TryPartition
  PROVE  SInv'
<1> DEFINE c == First(try)
           w == c.window
<1>1. /\ pc = "try" /\ try # {} /\ UNCHANGED disks
      /\ N <= Len(cmd.paths) /\ ~Forced /\ cmd.partitions /\ Opens(Path, 0)
      /\ BestIn(damage, Whole(Path)) = NoLabel
      /\ AcceptedIn(damage, Path) \subseteq try /\ try \subseteq Candidates(Path)
      /\ open = Held \cup {<<N, Whole(Path)>>}
  BY DEF TryPartition, SInv, Trying, Descriptors
<1>2. Path \in Paths /\ N = Len(scanned) + 1 /\ All = 1 .. Len(scanned) /\ Len(scanned) \in Nat
  BY <1>1, PathsType DEF SInv
<1>3. /\ c \in try /\ Lies(w) /\ w.path = Path
      /\ BestIn(damage, w) # NoLabel =>
           AcceptedIn(damage, Path) # {} /\ c = First(AcceptedIn(damage, Path))
  BY <1>1, <1>2, FirstAccepted
<1>4. Usable(w) <=> BestIn(damage, w) # NoLabel
  BY BestIsIn
<1>5. CASE Usable(w)
  <2>1. Keep(w) /\ open' = (open \ {<<N, Whole(Path)>>}) \cup {<<N, w>>} /\ pc' = "scan"
    BY <1>5 DEF TryPartition
  <2>2. w = ResultIn(cmd, damage, Path)
    BY <1>1, <1>3, <1>4, <1>5 DEF ResultIn, Forced
  <2>3. open' = Held \cup {<<N, w>>}
    <3>1. <<N, Whole(Path)>> \notin Held
      BY <1>2 DEF Held
    <3> QED BY <1>1, <2>1, <3>1
  <2> HIDE DEF w
  <2> QED BY <1>1, <1>3, <2>1, <2>2, <2>3, KeepStep
<1>6. CASE ~Usable(w)
  <2>1. try' = try \ {c} /\ UNCHANGED <<scanned, open, pc>>
    BY <1>6 DEF TryPartition
  <2>2. Scanning' /\ Held' = Held
    BY <1>1, <2>1, SameScan DEF SInv
  <2>3. /\ cmd' = cmd /\ damage' = damage /\ N' = N /\ Path' = Path
        /\ (Forced' <=> Forced) /\ (Opens(Path, 0)' <=> Opens(Path, 0))
    BY <1>1, <2>1 DEF disks, N, Path, Forced, Opens
  <2>4. c \notin AcceptedIn(damage, Path)
    BY <1>4, <1>6 DEF AcceptedIn
  <2> HIDE DEF c
  <2>5. Trying'
    BY <1>1, <2>1, <2>3, <2>4 DEF Trying
  <2> QED BY <1>1, <2>1, <2>2, <2>3, <2>5 DEF SInv, Descriptors, Whole
<1> QED BY <1>5, <1>6

\* No partition had a label: the whole support is kept.
LEMMA NoPartitionStep ==
  ASSUME SInv, NoPartition
  PROVE  SInv'
<1>1. /\ pc = "try" /\ UNCHANGED disks /\ pc' = "scan" /\ Keep(Whole(Path))
      /\ N <= Len(cmd.paths) /\ ~Forced /\ Opens(Path, 0)
      /\ BestIn(damage, Whole(Path)) = NoLabel /\ AcceptedIn(damage, Path) = {}
      /\ open' = Held \cup {<<N, Whole(Path)>>}
  BY DEF NoPartition, SInv, Trying, Descriptors
<1>2. Path \in Paths
  BY <1>1, PathsType DEF SInv
<1>3. Lies(Whole(Path)) /\ Whole(Path).path = Path
  BY <1>1, <1>2, WholeLies
<1>4. Whole(Path) = ResultIn(cmd, damage, Path)
  BY <1>1 DEF ResultIn, Forced
<1> QED BY <1>1, <1>3, <1>4, KeepStep

\* A refusal closes what is open.
LEMMA RefuseStep ==
  ASSUME SInv, Refuse, pc # "try", pc # "refused"
  PROVE  SInv'
<1>1. UNCHANGED <<disks, scanned>> /\ pc' = "refused" /\ open' = open \ Held /\ open = Held
  BY DEF Refuse, SInv, Descriptors, Held
<1>2. Scanning'
  BY <1>1, SameScan DEF SInv
<1> QED BY <1>1, <1>2 DEF SInv, Trying, Descriptors

\* The steps after the scan keep what was scanned and what is open.
LEMMA LaterStep ==
  ASSUME SInv, UNCHANGED <<disks, scanned, open>>,
         pc \notin {"try", "refused"}, pc' \notin {"try", "refused"},
         \/ N > Len(cmd.paths)
         \/ pc \in {"rings", "choose", "mos", "opened"}
         \/ pc' = "raised"
  PROVE  SInv'
<1>1. pc' \in {"rings", "choose", "mos", "opened"} => Len(scanned) = Len(cmd.paths)
  <2>1. cmd.paths \in Seq(Paths) /\ Len(scanned) \in Nat /\ N = Len(scanned) + 1
    BY PathsType DEF SInv
  <2>2. Len(scanned) <= Len(cmd.paths)
    BY DEF SInv, Scanning
  <2>3. CASE N > Len(cmd.paths)
    BY <2>1, <2>2, <2>3
  <2>4. CASE pc \in {"rings", "choose", "mos", "opened"}
    BY <2>4 DEF SInv, Scanning
  <2>5. CASE pc' = "raised"
    BY <2>5
  <2> QED BY <2>3, <2>4, <2>5
<1>2. Scanning' /\ Held' = Held
  BY <1>1, SameScan DEF SInv
<1>3. open' = open /\ open = Held
  BY DEF SInv, Descriptors
<1> QED BY <1>2, <1>3 DEF SInv, Trying, Descriptors

\* The scan and the descriptors it holds.
LEMMA ScanKept == Spec => []SInv
<1>1. Init => SInv
  <2> SUFFICES ASSUME Init PROVE SInv
    OBVIOUS
  <2>1. /\ cmd \in Commands /\ damage \in Damages /\ scanned = <<>> /\ open = {} /\ pc = "scan"
    BY DEF Init
  <2>2. cmd.paths \in Seq(Paths)
    BY <2>1, SupportAssumption
  <2>3. All = {} /\ Len(scanned) = 0
    BY <2>1 DEF All
  <2>4. Len(scanned) <= Len(cmd.paths)
    BY <2>2, <2>3
  <2>5. Held = {}
    BY <2>3 DEF Held
  <2> QED BY <2>1, <2>3, <2>4, <2>5 DEF SInv, Scanning, Trying, Descriptors
<1>2. SInv /\ [Next]_vars => SInv'
  <2> SUFFICES ASSUME SInv, [Next]_vars PROVE SInv'
    OBVIOUS
  <2>1. CASE ScanForced \/ Scan \/ TryPartition \/ NoPartition
    BY <2>1, ForcedStep, ScanStep, TryStep, NoPartitionStep
  <2>2. CASE NoTopology \/ NoUberblock \/ NoMos
    BY <2>2, RefuseStep DEF NoTopology, NoUberblock, NoMos
  <2>3. CASE CannotOpen
    <3>1. /\ UNCHANGED <<disks, scanned, open>> /\ pc = "scan" /\ pc' = "raised"
      BY <2>3 DEF CannotOpen
    <3> QED BY <3>1, LaterStep
  <2>4. CASE BuildTopology
    <3>1. /\ UNCHANGED <<disks, scanned, open>> /\ pc = "scan" /\ pc' = "rings"
          /\ N > Len(cmd.paths)
      BY <2>4 DEF BuildTopology
    <3> QED BY <3>1, LaterStep
  <2>5. CASE ReadUberblocks
    <3>1. UNCHANGED <<disks, scanned, open>> /\ pc = "rings" /\ pc' = "choose"
      BY <2>5 DEF ReadUberblocks
    <3> QED BY <3>1, LaterStep
  <2>6. CASE Choose
    <3>1. UNCHANGED <<disks, scanned, open>> /\ pc = "choose" /\ pc' = "mos"
      BY <2>6 DEF Choose
    <3> QED BY <3>1, LaterStep
  <2>7. CASE OpenPool
    <3>1. UNCHANGED <<disks, scanned, open>> /\ pc = "mos" /\ pc' = "opened"
      BY <2>7 DEF OpenPool
    <3> QED BY <3>1, LaterStep
  <2>8. CASE StepBack
    <3>1. /\ cmd' = cmd /\ damage' = damage /\ scanned' = <<>> /\ pc' = "scan"
          /\ open' = {} /\ cmd \in Commands /\ damage \in Damages
      BY <2>8 DEF StepBack, disks, SInv, Scanning, Descriptors
    <3>2. All' = {} /\ Len(scanned') = 0 /\ Len(scanned') <= Len(cmd.paths)
      BY <3>1, PathsType DEF All, SInv
    <3>3. Held' = {}
      BY <3>2 DEF Held
    <3> QED BY <3>1, <3>2, <3>3 DEF SInv, Scanning, Trying, Descriptors
  <2>9. CASE UNCHANGED vars
    <3>1. UNCHANGED <<disks, scanned, open, try, pc>>
      BY <2>9 DEF vars, disks
    <3>2. Scanning' /\ Held' = Held
      BY <3>1, SameScan DEF SInv, Scanning
    <3>3. /\ cmd' = cmd /\ damage' = damage /\ N' = N /\ Path' = Path
          /\ (Forced' <=> Forced) /\ (Opens(Path, 0)' <=> Opens(Path, 0))
      BY <3>1 DEF disks, N, Path, Forced, Opens
    <3> QED BY <3>1, <3>2, <3>3 DEF SInv, Trying, Descriptors, Whole
  <2> QED BY <2>1, <2>2, <2>3, <2>4, <2>5, <2>6, <2>7, <2>8, <2>9 DEF Next
<1> QED BY <1>1, <1>2, PTL DEF Spec

\* An open pool holds one descriptor per support, and a refusal none.
THEOREM OpenNoStrayDescriptor == Spec => []NoStrayDescriptor
<1>1. SInv => NoStrayDescriptor
  BY DEF SInv, Descriptors, NoStrayDescriptor, Held
<1> QED BY <1>1, ScanKept, PTL

-----------------------------------------------------------------------------
(* What open_pool() makes of a scan.  The scan is the same each time the     *)
(* command is run, so it is stated of what is kept of the supports.          *)

UsableOf(s) == {n \in DOMAIN s : s[n].label # NoLabel}
WithGuidOf(s, g) == {n \in UsableOf(s) : s[n].label.guid = g}
RefOf(s) == Min({n \in UsableOf(s) :
                   \A m \in UsableOf(s) : s[m].label.txg <= s[n].label.txg})
TopoOf(s) == s[RefOf(s)].label
GuidsOf(s) == Tree[TopoOf(s).pool][TopoOf(s).txg]
DevicesOf(s) ==
  [c \in {c \in DOMAIN GuidsOf(s) : WithGuidOf(s, GuidsOf(s)[c]) # {}} |->
     s[Max(WithGuidOf(s, GuidsOf(s)[c]))].window]

RingIn(d, s, a, n, i) ==
  LET w == s[n].window IN
  UNION {{[at |-> <<n, i>>, pool |-> x.vdev.pool, txg |-> t, time |-> Time[x.vdev.pool][t]] :
            x \in {x \in IntactIn(d, w, i, t) : t \in x.vdev.ubs /\ x.vdev.ashift = a}} :
         t \in UNION {v.ubs : v \in ToSet(Written[w.path])}}
JeuIn(d, s, a) == UNION {RingIn(d, s, a, n, i) : n \in DOMAIN s, i \in Labels}
JeuOf(d, s) == JeuIn(d, s, TopoOf(s).ashift)

UpToDateOf(p, w, t) == \E v \in ToSet(Written[w.path]) :
                         v.start = w.start /\ v.pool = p /\ \E s \in v.ubs : s >= t
CopyReadableOf(p, dev, copy, t) ==
  LET here == DOMAIN dev
      lost == copy.data \ here
      used == (copy.data \cap here) \cup IF lost = {} THEN {} ELSE copy.parity \cap here
  IN  /\ lost # {} => /\ Parity[p] = 1
                      /\ Cardinality(lost) <= Cardinality(copy.parity \cap here)
      /\ \A c \in used : UpToDateOf(p, dev[c], t)
ReadableOf(p, dev, u) ==
  /\ u.pool = p
  /\ \E copy \in MosCopies[u.pool][u.txg] : CopyReadableOf(p, dev, copy, u.txg)

HasTopologyOf(s) == UsableOf(s) # {} /\ Parity[TopoOf(s).pool] # NoParity
OnePoolOf(d, s) == \A u \in JeuOf(d, s) : u.pool = TopoOf(s).pool

\* What every run of the command ends up with.
AllKept == [n \in 1 .. Len(cmd.paths) |-> Kept(cmd.paths[n])]

After == pc \in {"rings", "choose", "mos", "opened"}
Read == pc \in {"choose", "mos", "opened"}

\* The states that the vdevs written hold uberblocks of.
UbTxgs == UNION {v.ubs : v \in UNION {ToSet(Written[p]) : p \in Paths}}

\* A slot read, and what is in it.
IsSlot(u) ==
  /\ u.at[1] \in Nat /\ u.at[2] \in Nat
  /\ u.pool \in Pools /\ u.txg \in DOMAIN Tree[u.pool] /\ u.txg \in UbTxgs
  /\ u.time = Time[u.pool][u.txg]

\* What was found is what the supports kept tell.
Found ==
  /\ After \/ jeu # {} =>
       /\ topo = TopoOf(AllKept) /\ devices = DevicesOf(AllKept)
       /\ HasTopologyOf(AllKept)
  /\ Read \/ jeu # {} => jeu = JeuOf(damage, AllKept)
  /\ \A u \in jeu : IsSlot(u)

\* No state above the one asked for, or chosen, can be read.
NoneAbove(d, s, t) ==
  \A u \in JeuOf(d, s) : ReadableOf(TopoOf(s).pool, DevicesOf(s), u) => u.txg <= t
NoneFrom(d, s, t) ==
  \A u \in JeuOf(d, s) : ReadableOf(TopoOf(s).pool, DevicesOf(s), u) => u.txg < t

Newest ==
  /\ txg \in Nat
  /\ txg # NoTxg => jeu # {}
  /\ pc \in {"mos", "opened"} => ub \in Wanted
  /\ OnePoolOf(damage, AllKept) =>
       /\ txg # NoTxg => NoneAbove(damage, AllKept, txg)
       /\ pc \in {"mos", "opened"} => NoneAbove(damage, AllKept, ub.txg)
       /\ pc = "refused" /\ Wanted # {} => NoneFrom(damage, AllKept, ub.txg)

OpenInv == SInv /\ Found /\ Newest

-----------------------------------------------------------------------------
(* The model's definitions and those above say the same of one scan.       *)

LEMMA SameOperators ==
  /\ UsableOnes = UsableOf(scanned)
  /\ Ref = RefOf(scanned)
  /\ \A g : WithGuid(g) = WithGuidOf(scanned, g) /\ DeviceOf(g) = scanned[Max(WithGuidOf(scanned, g))].window
<1>1. UsableOnes = UsableOf(scanned)
  BY Zenon DEF UsableOnes, UsableOf, All
<1>2. Ref = RefOf(scanned)
  BY <1>1, Zenon DEF Ref, RefOf
<1>3. ASSUME NEW g
      PROVE  WithGuid(g) = WithGuidOf(scanned, g) /\ DeviceOf(g) = scanned[Max(WithGuidOf(scanned, g))].window
  <2>1. WithGuid(g) = WithGuidOf(scanned, g)
    BY <1>1, Zenon DEF WithGuid, WithGuidOf
  <2> QED BY <2>1, Zenon DEF DeviceOf
<1> QED BY <1>1, <1>2, <1>3

LEMMA SameRings ==
  ASSUME NEW a, a = topo.ashift
  PROVE  UNION {Ring(n, i) : n \in All, i \in Labels} = JeuIn(damage, scanned, a)
<1>1. ASSUME NEW w, NEW i, NEW t
      PROVE  Intact(w, i, t) = IntactIn(damage, w, i, t)
  BY Zenon DEF Intact, IntactIn
<1>2. ASSUME NEW n, NEW i PROVE Ring(n, i) = RingIn(damage, scanned, a, n, i)
  <2> DEFINE w == scanned[n].window
             of(x, t) == [at |-> <<n, i>>, pool |-> x.vdev.pool, txg |-> t,
                          time |-> Time[x.vdev.pool][t]]
             T == UNION {v.ubs : v \in ToSet(Written[w.path])}
             X(t) == {of(x, t) : x \in {x \in Intact(w, i, t) :
                                          t \in x.vdev.ubs /\ x.vdev.ashift = topo.ashift}}
             Y(t) == {of(x, t) : x \in {x \in IntactIn(damage, w, i, t) :
                                          t \in x.vdev.ubs /\ x.vdev.ashift = a}}
  <2>1. ASSUME NEW t PROVE X(t) = Y(t)
    <3>1. Intact(w, i, t) = IntactIn(damage, w, i, t)
      BY <1>1
    <3> QED BY <3>1, Zenon
  <2>2. Ring(n, i) = UNION {X(t) : t \in T}
    BY Zenon DEF Ring
  <2>3. RingIn(damage, scanned, a, n, i) = UNION {Y(t) : t \in T}
    BY Zenon DEF RingIn
  <2> HIDE DEF X, Y, T
  <2> QED BY <2>1, <2>2, <2>3
<1>3. ASSUME NEW u
      PROVE  u \in UNION {Ring(n, i) : n \in All, i \in Labels} <=> u \in JeuIn(damage, scanned, a)
  BY <1>2 DEF JeuIn, All
<1> QED BY <1>3

LEMMA SameReadable ==
  ASSUME NEW u
  PROVE  MosReadable(u) <=> ReadableOf(topo.pool, devices, u)
BY Zenon DEF MosReadable, ReadableOf, CopyReadable, CopyReadableOf, UpToDate, UpToDateOf

\* The disks and the command stay, and so does what would be kept.
LEMMA AllKeptSame ==
  ASSUME UNCHANGED disks
  PROVE  cmd' = cmd /\ damage' = damage /\ AllKept' = AllKept
<1>1. cmd' = cmd /\ damage' = damage
  BY DEF disks
<1>2. \A p : Kept(p)' = Kept(p)
  BY <1>1 DEF Kept
<1> QED BY <1>1, <1>2 DEF AllKept

\* A scan that ended kept everything.
LEMMA ScannedAll ==
  ASSUME SInv, After \/ N > Len(cmd.paths)
  PROVE  scanned = AllKept /\ All = DOMAIN AllKept
<1>1. /\ cmd.paths \in Seq(Paths) /\ Len(scanned) \in Nat /\ N = Len(scanned) + 1
      /\ All = 1 .. Len(scanned)
  BY PathsType DEF SInv
<1>2. Len(scanned) <= Len(cmd.paths) /\ (After => Len(scanned) = Len(cmd.paths))
  BY DEF SInv, Scanning, After
<1>3. Len(scanned) = Len(cmd.paths)
  BY <1>1, <1>2
<1>4. \A n \in All : scanned[n] = Kept(cmd.paths[n])
  BY DEF SInv, Scanning
<1> DEFINE K == {Kept(p) : p \in Paths}
<1>5. scanned \in Seq(K)
  BY DEF SInv, Scanning
<1> HIDE DEF K
<1>6. scanned = [n \in 1 .. Len(scanned) |-> scanned[n]]
  BY <1>5
<1>7. AllKept = [n \in 1 .. Len(scanned) |-> Kept(cmd.paths[n])]
  BY <1>3, Zenon DEF AllKept
<1>8. scanned = AllKept
  BY <1>1, <1>4, <1>6, <1>7
<1> QED BY <1>8, Zenon DEF All

\* What the vdevs hold uberblocks of is finite, and numbered from 1.
LEMMA UbTxgsFinite == IsFiniteSet(UbTxgs) /\ UbTxgs \subseteq Nat \ {NoTxg}
<1> DEFINE vdevs(p) == ToSet(Written[p])
           ofPath == [p \in Paths |-> vdevs(p)]
           V == UNION {vdevs(p) : p \in Paths}
           ofVdev == [v \in V |-> v.ubs]
<1>1. ASSUME NEW p \in Paths PROVE IsFiniteSet(vdevs(p))
  <2>1. Written[p] \in Seq(ToSet(Written[p]))
    BY SupportAssumption
  <2>2. DOMAIN Written[p] = 1 .. Len(Written[p]) /\ Len(Written[p]) \in Nat
    BY <2>1
  <2>3. IsFiniteSet(DOMAIN Written[p])
    BY <2>2, FS_Interval
  <2>4. [i \in DOMAIN Written[p] |-> Written[p][i]] \in Surjection(DOMAIN Written[p], vdevs(p))
    BY DEF Surjection, ToSet
  <2> QED BY <2>3, <2>4, FS_Surjection
<1>2. IsFiniteSet(V)
  <2> DEFINE S == {vdevs(p) : p \in Paths}
  <2>1. ofPath \in Surjection(Paths, S)
    BY DEF Surjection
  <2>2. IsFiniteSet(S)
    BY <2>1, SupportAssumption, FS_Surjection
  <2>3. \A T \in S : IsFiniteSet(T)
    BY <1>1
  <2> HIDE DEF S
  <2>4. IsFiniteSet(UNION S)
    BY <2>2, <2>3, FS_UNION
  <2> QED BY <2>4 DEF S
<1>3. ASSUME NEW v \in V PROVE IsFiniteSet(v.ubs) /\ v.ubs \subseteq Nat \ {NoTxg}
  <2>1. PICK p \in Paths : v \in ToSet(Written[p])
    OBVIOUS
  <2>2. v.pool \in Pools /\ v.ubs \subseteq DOMAIN Tree[v.pool] /\ IsFiniteSet(v.ubs)
    BY <2>1, SupportAssumption DEF VdevAssumption
  <2> QED BY <2>2, SupportAssumption DEF PoolAssumption
<1>4. UbTxgs = UNION {v.ubs : v \in V}
  BY Zenon DEF UbTxgs
<1> HIDE DEF V
<1> DEFINE S == {v.ubs : v \in V}
<1>5. ofVdev \in Surjection(V, S)
  BY DEF Surjection
<1>6. IsFiniteSet(S)
  BY <1>2, <1>5, FS_Surjection
<1>7. \A T \in S : IsFiniteSet(T) /\ T \subseteq Nat \ {NoTxg}
  BY <1>3
<1> HIDE DEF S
<1>8. IsFiniteSet(UNION S) /\ UNION S \subseteq Nat \ {NoTxg}
  BY <1>6, <1>7, FS_UNION
<1> QED BY <1>4, <1>8 DEF S

\* What a ring holds.
LEMMA SlotsTyped ==
  ASSUME SInv, NEW a, NEW u \in JeuIn(damage, scanned, a)
  PROVE  IsSlot(u)
<1>1. PICK n \in DOMAIN scanned, i \in Labels : u \in RingIn(damage, scanned, a, n, i)
  BY DEF JeuIn
<1> DEFINE w == scanned[n].window
<1>2. PICK t, x :
        /\ x \in IntactIn(damage, w, i, t) /\ t \in x.vdev.ubs
        /\ u = [at |-> <<n, i>>, pool |-> x.vdev.pool, txg |-> t, time |-> Time[x.vdev.pool][t]]
  BY <1>1 DEF RingIn
<1>3. n \in Nat /\ Lies(w)
  BY PathsType DEF SInv, Scanning, All
<1> HIDE DEF w
<1>4. x \in Intact(w, i, t)
  BY <1>2, Zenon DEF Intact, IntactIn
<1>5. x.vdev \in ToSet(Written[w.path])
  BY <1>3, <1>4, IntactStart DEF Lies, IsVdevOf
<1>6. w.path \in Paths
  BY <1>3 DEF Lies
<1>7. x.vdev.pool \in Pools /\ x.vdev.ubs \subseteq DOMAIN Tree[x.vdev.pool]
  BY <1>5, <1>6, SupportAssumption DEF VdevAssumption
<1>8. t \in UbTxgs
  BY <1>2, <1>5, <1>6 DEF UbTxgs
<1>9. u.at[1] = n /\ u.at[2] = i /\ i \in Nat
  BY <1>2 DEF Labels
<1> QED BY <1>2, <1>3, <1>7, <1>8, <1>9 DEF IsSlot

\* The best uberblock is one of them, and none is of a newer txg.
LEMMA BestIs ==
  ASSUME jeu # {}, \A u \in jeu : IsSlot(u)
  PROVE  BestUberblock \in jeu /\ \A o \in jeu : o.txg <= BestUberblock.txg
<1> DEFINE T == {u.txg : u \in jeu}
<1>1. T \in SUBSET UbTxgs /\ T # {}
  BY DEF IsSlot
<1>2. PICK t \in T : \A s \in T : s <= t
  <2>1. IsFiniteSet(T) /\ T \in SUBSET Nat
    BY <1>1, UbTxgsFinite, FS_Subset
  <2> HIDE DEF T
  <2> QED BY <1>1, <2>1, GreatestExists
<1>3. t \in Nat /\ \A u \in jeu : u.txg \in Nat
  BY <1>1, UbTxgsFinite DEF IsSlot
<1> DEFINE Q == {q \in Pools : t \in DOMAIN Tree[q]}
           f == [q \in Q |-> Time[q][t]]
           J == {u \in jeu : u.txg = t}
           M == {q \in Q : \E u \in J : u.pool = q}
           g == [q \in M |-> Time[q][t]]
<1>4. IsFiniteSet(M) /\ \A q \in M : Time[q][t] \in Nat
  <2>1. M \in SUBSET Pools
    OBVIOUS
  <2>2. IsFiniteSet(Pools)
    BY SupportAssumption DEF PoolAssumption
  <2>3. \A q \in M : Time[q][t] \in Nat
    BY SupportAssumption DEF PoolAssumption
  <2> HIDE DEF M
  <2> QED BY <2>1, <2>2, <2>3, FS_Subset
<1>5. \A u \in J : u.pool \in M /\ u.time = g[u.pool]
  BY DEF IsSlot
<1>6. M # {}
  BY <1>2, <1>5
<1>7. PICK q \in M : \A r \in M : g[r] <= g[q]
  <2>1. g \in [M -> Nat]
    BY <1>4
  <2> HIDE DEF M, g
  <2> QED BY <1>4, <1>6, <2>1, GreatestOf
<1>8. PICK u \in J : u.pool = q
  OBVIOUS
<1>9. \A o \in jeu : o.txg < u.txg \/ (o.txg = u.txg /\ o.time <= u.time)
  <2> TAKE o \in jeu
  <2>1. o.txg <= t /\ u.txg = t /\ u.time = g[q]
    BY <1>2, <1>5, <1>8
  <2>2. CASE o.txg = t
    <3>1. o \in J /\ o.pool \in M /\ o.time = g[o.pool]
      BY <1>5, <2>2
    <3> HIDE DEF g, M, J
    <3> QED BY <1>7, <2>1, <2>2, <3>1
  <2>3. CASE o.txg # t
    <3>1. o.txg \in Nat /\ t \in Nat /\ o.txg <= t /\ u.txg = t
      BY <1>3, <2>1
    <3> QED BY <2>3, <3>1
  <2> QED BY <2>2, <2>3
<1>10. /\ BestUberblock \in jeu
       /\ \A o \in jeu : o.txg < BestUberblock.txg
                         \/ (o.txg = BestUberblock.txg /\ o.time <= BestUberblock.time)
  BY <1>9 DEF BestUberblock
<1>11. BestUberblock.txg \in Nat
  BY <1>3, <1>10
<1> QED BY <1>3, <1>10, <1>11

\* The one taken for an argument txg is one of those wanted.
LEMMA FirstWanted ==
  ASSUME Wanted # {}, \A u \in Wanted : IsSlot(u)
  PROVE  (CHOOSE u \in Wanted : \A o \in Wanted : Before(u, o)) \in Wanted
<1> DEFINE A == {u.at[1] : u \in Wanted}
<1>1. PICK a \in A : \A b \in A : a <= b
  <2>1. A \in SUBSET Nat /\ A # {}
    BY DEF IsSlot
  <2> HIDE DEF A
  <2> QED BY <2>1, LeastExists
<1> DEFINE B == {u.at[2] : u \in {u \in Wanted : u.at[1] = a}}
<1>2. PICK b \in B : \A c \in B : b <= c
  <2>1. B \in SUBSET Nat /\ B # {}
    BY <1>1 DEF IsSlot
  <2> HIDE DEF B
  <2> QED BY <2>1, LeastExists
<1>3. PICK u \in Wanted : u.at[1] = a /\ u.at[2] = b
  BY <1>2
<1>4. \A o \in Wanted : Before(u, o)
  <2> TAKE o \in Wanted
  <2>1. o.at[1] \in Nat /\ o.at[2] \in Nat /\ a \in Nat /\ a <= o.at[1]
    BY <1>1 DEF IsSlot
  <2>2. o.at[1] = a => b <= o.at[2]
    BY <1>2
  <2> HIDE DEF A, B
  <2> QED BY <1>3, <2>1, <2>2 DEF Before
<1> QED BY <1>3, <1>4

-----------------------------------------------------------------------------
(* What is found, and found again.                                         *)

LEMMA FoundSame ==
  ASSUME Found, UNCHANGED <<disks, topo, devices, jeu>>, After' => After, Read' => Read
  PROVE  Found'
<1>1. damage' = damage /\ AllKept' = AllKept
  BY AllKeptSame
<1>2. topo' = topo /\ devices' = devices /\ jeu' = jeu
  OBVIOUS
<1> QED BY <1>1, <1>2 DEF Found

LEMMA FoundStep ==
  ASSUME SInv, Found, [Next]_vars
  PROVE  Found'
<1>1. CASE CannotOpen \/ ScanForced \/ Scan \/ TryPartition \/ NoPartition
  <2>1. UNCHANGED <<disks, topo, devices, jeu>>
    BY <1>1 DEF CannotOpen, ScanForced, Scan, TryPartition, NoPartition, found
  <2>2. pc' \in {"scan", "try", "raised"}
    BY <1>1 DEF CannotOpen, ScanForced, Scan, TryPartition, NoPartition
  <2> QED BY <2>1, <2>2, FoundSame DEF After, Read
<1>2. CASE NoTopology \/ NoUberblock \/ NoMos \/ StepBack
  <2>1. UNCHANGED <<disks, topo, devices, jeu>>
    BY <1>2 DEF NoTopology, NoUberblock, NoMos, StepBack, Refuse, found
  <2>2. pc' \in {"refused", "scan"}
    BY <1>2 DEF NoTopology, NoUberblock, NoMos, StepBack, Refuse
  <2> QED BY <2>1, <2>2, FoundSame DEF After, Read
<1>3. CASE Choose
  <2>1. UNCHANGED <<disks, topo, devices, jeu>> /\ pc = "choose"
    BY <1>3 DEF Choose
  <2> QED BY <2>1, FoundSame DEF After, Read
<1>4. CASE OpenPool
  <2>1. UNCHANGED <<disks, topo, devices, jeu>> /\ pc = "mos"
    BY <1>4 DEF OpenPool, found
  <2> QED BY <2>1, FoundSame DEF After, Read
<1>5. CASE BuildTopology
  <2>1. /\ UsableOnes # {} /\ UNCHANGED disks /\ pc' = "rings" /\ jeu' = jeu
        /\ Parity[scanned[Ref].label.pool] # NoParity
        /\ topo' = scanned[Ref].label
        /\ devices' = [c \in {c \in DOMAIN Tree[scanned[Ref].label.pool][scanned[Ref].label.txg] :
                                WithGuid(Tree[scanned[Ref].label.pool][scanned[Ref].label.txg][c]) # {}} |->
                         DeviceOf(Tree[scanned[Ref].label.pool][scanned[Ref].label.txg][c])]
        /\ N > Len(cmd.paths)
    BY <1>5 DEF BuildTopology
  <2>2. scanned = AllKept
    BY <2>1, ScannedAll
  <2>3. topo' = TopoOf(scanned) /\ HasTopologyOf(scanned)
    BY <2>1, SameOperators, Zenon DEF TopoOf, HasTopologyOf
  <2>4. devices' = DevicesOf(scanned)
    <3> DEFINE guids == GuidsOf(scanned)
    <3>1. guids = Tree[scanned[Ref].label.pool][scanned[Ref].label.txg]
      BY SameOperators, Zenon DEF GuidsOf, TopoOf
    <3>2. devices' = [c \in {c \in DOMAIN guids : WithGuid(guids[c]) # {}} |-> DeviceOf(guids[c])]
      BY <2>1, <3>1, Zenon
    <3>3. DevicesOf(scanned) = [c \in {c \in DOMAIN guids : WithGuidOf(scanned, guids[c]) # {}} |->
                                  scanned[Max(WithGuidOf(scanned, guids[c]))].window]
      BY Zenon DEF DevicesOf
    <3> HIDE DEF guids
    <3> QED BY <3>2, <3>3, SameOperators
  <2>5. UNCHANGED disks /\ pc' = "rings" /\ jeu' = jeu
    BY <1>5 DEF BuildTopology
  <2>6. damage' = damage /\ AllKept' = AllKept
    BY <2>5, AllKeptSame
  <2>7. topo' = TopoOf(AllKept) /\ devices' = DevicesOf(AllKept) /\ HasTopologyOf(AllKept)
    BY <2>2, <2>3, <2>4, Zenon
  <2> QED BY <2>5, <2>6, <2>7 DEF Found, After, Read
<1>6. CASE ReadUberblocks
  <2>1. /\ pc = "rings" /\ pc' = "choose" /\ UNCHANGED <<disks, topo, devices>>
        /\ jeu' = UNION {Ring(n, i) : n \in All, i \in Labels}
    BY <1>6 DEF ReadUberblocks
  <2>2. topo = TopoOf(AllKept) /\ devices = DevicesOf(AllKept) /\ HasTopologyOf(AllKept)
    BY <2>1 DEF Found, After
  <2>3. scanned = AllKept
    BY <2>1, ScannedAll DEF After
  <2>4. jeu' = JeuIn(damage, scanned, topo.ashift)
    BY <2>1, SameRings
  <2>5. jeu' = JeuOf(damage, AllKept)
    BY <2>2, <2>3, <2>4, Zenon DEF JeuOf
  <2>6. \A u \in jeu' : IsSlot(u)
    BY <2>4, SlotsTyped
  <2>7. damage' = damage /\ AllKept' = AllKept
    BY <2>1, AllKeptSame
  <2> QED BY <2>1, <2>2, <2>5, <2>6, <2>7 DEF Found, After, Read
<1>7. CASE UNCHANGED vars
  BY <1>7, FoundSame DEF vars, disks, After, Read
<1> QED BY <1>1, <1>2, <1>3, <1>4, <1>5, <1>6, <1>7 DEF Next

\* Of the states asked for, the one chosen is the newest.
LEMMA ChooseNewest ==
  ASSUME Found, Newest, Choose
  PROVE  Newest'
<1>1. /\ pc = "choose" /\ pc' = "mos" /\ UNCHANGED <<disks, txg, jeu>> /\ Wanted # {}
      /\ ub' = IF txg = NoTxg THEN BestUberblock
               ELSE CHOOSE u \in Wanted : \A o \in Wanted : Before(u, o)
  BY DEF Choose
<1>2. damage' = damage /\ AllKept' = AllKept
  BY <1>1, AllKeptSame
<1>3. Wanted' = Wanted /\ Wanted \subseteq jeu /\ \A u \in Wanted : IsSlot(u)
  BY <1>1 DEF Wanted, Found
<1>4. jeu = JeuOf(damage, AllKept)
  BY <1>1 DEF Found, Read
<1>5. CASE txg = NoTxg
  <2>1. ub' \in jeu /\ \A o \in jeu : o.txg <= ub'.txg
    BY <1>1, <1>3, <1>5, BestIs DEF Found
  <2>2. ub' \in Wanted
    BY <1>5, <2>1 DEF Wanted
  <2>3. NoneAbove(damage, AllKept, ub'.txg)
    BY <1>4, <2>1 DEF NoneAbove
  <2> QED BY <1>1, <1>2, <1>3, <1>5, <2>2, <2>3 DEF Newest
<1>6. CASE txg # NoTxg
  <2>1. ub' \in Wanted
    <3>1. (CHOOSE u \in Wanted : \A o \in Wanted : Before(u, o)) \in Wanted
      BY <1>1, <1>3, FirstWanted
    <3> QED BY <1>1, <1>6, <3>1
  <2>2. ub'.txg = txg
    BY <1>6, <2>1 DEF Wanted
  <2>3. OnePoolOf(damage, AllKept) => NoneAbove(damage, AllKept, ub'.txg)
    BY <1>6, <2>2 DEF Newest
  <2> QED BY <1>1, <1>2, <1>3, <2>1, <2>2, <2>3 DEF Newest
<1> QED BY <1>5, <1>6

\* A state that cannot be read is the last one above those left.
LEMMA NoMosNewest ==
  ASSUME Found, Newest, NoMos
  PROVE  Newest'
<1>1. /\ pc = "mos" /\ pc' = "refused" /\ UNCHANGED <<disks, txg, jeu, ub>> /\ ~MosReadable(ub)
  BY DEF NoMos, Refuse, found
<1>2. damage' = damage /\ AllKept' = AllKept /\ Wanted' = Wanted
  BY <1>1, AllKeptSame DEF Wanted
<1>3. /\ topo = TopoOf(AllKept) /\ devices = DevicesOf(AllKept)
      /\ jeu = JeuOf(damage, AllKept) /\ \A u \in jeu : IsSlot(u)
  BY <1>1 DEF Found, After, Read
<1>4. ub \in Wanted /\ ub \in jeu
  BY <1>1 DEF Newest, Wanted
<1>5. ASSUME OnePoolOf(damage, AllKept)
      PROVE  NoneFrom(damage, AllKept, ub.txg)
  <2>1. NoneAbove(damage, AllKept, ub.txg)
    BY <1>1, <1>5 DEF Newest
  <2>2. ~ReadableOf(TopoOf(AllKept).pool, DevicesOf(AllKept), ub)
    BY <1>1, <1>3, SameReadable
  <2>3. SUFFICES ASSUME NEW u \in JeuOf(damage, AllKept),
                        ReadableOf(TopoOf(AllKept).pool, DevicesOf(AllKept), u)
                 PROVE  u.txg < ub.txg
    BY DEF NoneFrom
  <2>4. u.txg <= ub.txg
    BY <2>1, <2>3 DEF NoneAbove
  <2>5. u.pool = ub.pool
    BY <1>3, <1>4, <1>5 DEF OnePoolOf
  <2>6. u.txg # ub.txg
    BY <2>2, <2>3, <2>5 DEF ReadableOf
  <2>7. u.txg \in Nat /\ ub.txg \in Nat
    BY <1>3, <1>4, UbTxgsFinite DEF IsSlot
  <2> QED BY <2>4, <2>6, <2>7
<1> QED BY <1>1, <1>2, <1>5 DEF Newest

\* Going back one txg passes over no state that can be read.
LEMMA StepBackNewest ==
  ASSUME Found, Newest, StepBack
  PROVE  Newest'
<1>1. /\ pc = "refused" /\ pc' = "scan" /\ UNCHANGED <<disks, jeu>>
      /\ Wanted # {} /\ Older # {} /\ txg' = Max(Older)
  BY DEF StepBack, found
<1>2. damage' = damage /\ AllKept' = AllKept
  BY <1>1, AllKeptSame
<1>3. jeu # {} /\ jeu = JeuOf(damage, AllKept) /\ \A u \in jeu : IsSlot(u)
  BY <1>1 DEF Wanted, Found
<1>4. IsFiniteSet(Older) /\ Older \subseteq Nat \ {NoTxg}
  <2>1. Older \in SUBSET UbTxgs
    BY <1>3 DEF Older, IsSlot
  <2> QED BY <2>1, UbTxgsFinite, FS_Subset
<1>5. Max(Older) \in Older /\ \A t \in Older : t <= Max(Older)
  BY <1>1, <1>4, GreatestExists
<1>6. ASSUME OnePoolOf(damage, AllKept)
      PROVE  NoneAbove(damage, AllKept, txg')
  <2>1. NoneFrom(damage, AllKept, ub.txg)
    BY <1>1, <1>6 DEF Newest
  <2> QED BY <1>1, <1>3, <1>5, <2>1 DEF NoneFrom, NoneAbove, Older
<1>7. txg' \in Nat
  BY <1>1, <1>4, <1>5
<1> QED BY <1>1, <1>2, <1>3, <1>6, <1>7 DEF Newest

\* A refusal with no state wanted asks nothing more.
LEMMA RefuseNewest ==
  ASSUME Newest, UNCHANGED <<disks, txg, jeu, ub>>, Wanted = {}, pc' = "refused"
  PROVE  Newest'
<1>1. damage' = damage /\ AllKept' = AllKept /\ Wanted' = {}
  BY AllKeptSame DEF Wanted
<1> QED BY <1>1 DEF Newest

LEMMA NewestSame ==
  ASSUME Newest, UNCHANGED <<disks, txg, jeu, ub>>,
         pc' = pc \/ pc' \notin {"mos", "opened", "refused"} \/ (pc = "mos" /\ pc' = "opened")
  PROVE  Newest'
<1>1. damage' = damage /\ AllKept' = AllKept /\ Wanted' = Wanted
  BY AllKeptSame DEF Wanted
<1>2. txg' = txg /\ jeu' = jeu /\ ub' = ub
  OBVIOUS
<1> QED BY <1>1, <1>2 DEF Newest

LEMMA NewestStep ==
  ASSUME SInv, Found, Newest, [Next]_vars
  PROVE  Newest'
<1>1. CASE CannotOpen \/ ScanForced \/ Scan \/ TryPartition \/ NoPartition
  <2>1. UNCHANGED <<disks, txg, jeu, ub>>
    BY <1>1 DEF CannotOpen, ScanForced, Scan, TryPartition, NoPartition, found
  <2>2. pc' \in {"scan", "try", "raised"}
    BY <1>1 DEF CannotOpen, ScanForced, Scan, TryPartition, NoPartition
  <2> QED BY <2>1, <2>2, NewestSame
<1>2. CASE NoTopology
  <2>1. /\ UNCHANGED <<disks, txg, jeu, ub>> /\ pc' = "refused" /\ N > Len(cmd.paths)
        /\ UsableOnes # {} => Parity[scanned[Ref].label.pool] = NoParity
    BY <1>2 DEF NoTopology, Refuse, found
  <2>2. scanned = AllKept
    BY <2>1, ScannedAll
  <2>3. ~HasTopologyOf(scanned)
    BY <2>1, SameOperators, Zenon DEF HasTopologyOf, TopoOf
  <2>4. jeu = {}
    BY <2>2, <2>3 DEF Found
  <2>5. Wanted = {}
    BY <2>4 DEF Wanted
  <2> QED BY <2>1, <2>5, RefuseNewest
<1>3. CASE BuildTopology
  <2>1. UNCHANGED <<disks, txg, jeu, ub>> /\ pc' = "rings"
    BY <1>3 DEF BuildTopology
  <2> QED BY <2>1, NewestSame
<1>4. CASE ReadUberblocks
  <2>1. UNCHANGED <<disks, txg, ub>> /\ pc = "rings" /\ pc' = "choose"
    BY <1>4 DEF ReadUberblocks
  <2>2. damage' = damage /\ AllKept' = AllKept /\ txg' = txg
    BY <2>1, AllKeptSame
  <2>3. Found'
    BY <1>4, FoundStep DEF Next
  <2>4. jeu' = JeuOf(damage, AllKept)
    BY <2>1, <2>2, <2>3 DEF Found, Read
  <2>5. jeu # {} => jeu = JeuOf(damage, AllKept)
    BY DEF Found
  <2> QED BY <2>1, <2>2, <2>4, <2>5 DEF Newest
<1>5. CASE NoUberblock
  <2>1. UNCHANGED <<disks, txg, jeu, ub>> /\ pc' = "refused" /\ Wanted = {}
    BY <1>5 DEF NoUberblock, Refuse, found
  <2> QED BY <2>1, RefuseNewest
<1>6. CASE Choose
  BY <1>6, ChooseNewest
<1>7. CASE OpenPool
  <2>1. UNCHANGED <<disks, txg, jeu, ub>> /\ pc = "mos" /\ pc' = "opened"
    BY <1>7 DEF OpenPool, found
  <2> QED BY <2>1, NewestSame
<1>8. CASE NoMos
  BY <1>8, NoMosNewest
<1>9. CASE StepBack
  BY <1>9, StepBackNewest
<1>10. CASE UNCHANGED vars
  <2>1. UNCHANGED <<disks, txg, jeu, ub>> /\ pc' = pc
    BY <1>10 DEF vars, disks
  <2> QED BY <2>1, NewestSame
<1> QED BY <1>1, <1>2, <1>3, <1>4, <1>5, <1>6, <1>7, <1>8, <1>9, <1>10 DEF Next

\* The whole of it.
LEMMA OpenKept == Spec => []OpenInv
<1>1. Init => Found /\ Newest
  BY DEF Init, Found, Newest, After, Read, OnePoolOf, NoTxg
<1>2. SInv /\ Found /\ Newest /\ [Next]_vars => Found' /\ Newest'
  BY FoundStep, NewestStep
<1> QED BY <1>1, <1>2, ScanKept, PTL DEF Spec, OpenInv

-----------------------------------------------------------------------------
(* Theorems.                                                               *)

\* A decided pool rests on the supports kept.
LEMMA DecidedOn ==
  ASSUME OpenInv, Decided
  PROVE  /\ scanned = AllKept /\ All = DOMAIN AllKept
         /\ topo = TopoOf(scanned) /\ devices = DevicesOf(scanned) /\ UsableOf(scanned) # {}
         /\ \A n \in All : scanned[n].label = Best(scanned[n].window) /\ Lies(scanned[n].window)
<1>1. After
  BY DEF Decided, After
<1>2. scanned = AllKept /\ All = DOMAIN AllKept
  BY <1>1, ScannedAll DEF OpenInv
<1>3. topo = TopoOf(AllKept) /\ devices = DevicesOf(AllKept) /\ UsableOf(AllKept) # {}
  BY <1>1 DEF OpenInv, Found, HasTopologyOf
<1>4. ASSUME NEW n \in All
      PROVE  scanned[n].label = Best(scanned[n].window) /\ Lies(scanned[n].window)
  <2>1. scanned[n] = Kept(cmd.paths[n]) /\ Lies(scanned[n].window)
    BY DEF OpenInv, SInv, Scanning
  <2>2. scanned[n].label = BestIn(damage, scanned[n].window)
    BY <2>1 DEF Kept, KeptIn
  <2> QED BY <2>1, <2>2, BestIsIn
<1>5. topo = TopoOf(scanned) /\ devices = DevicesOf(scanned) /\ UsableOf(scanned) # {}
  BY <1>2, <1>3, Zenon
<1> QED BY <1>2, <1>4, <1>5

\* The reference support and the last of a guid are among those that have a label.
LEMMA RefAndLast ==
  ASSUME OpenInv, Decided
  PROVE  /\ RefOf(scanned) \in All
         /\ scanned[RefOf(scanned)].label # NoLabel
         /\ \A g : WithGuidOf(scanned, g) # {} =>
              /\ Max(WithGuidOf(scanned, g)) \in All
              /\ scanned[Max(WithGuidOf(scanned, g))].label # NoLabel
              /\ scanned[Max(WithGuidOf(scanned, g))].label.guid = g
<1>1. /\ Len(scanned) \in Nat /\ All = 1 .. Len(scanned) /\ All = DOMAIN scanned
  BY PathsType DEF OpenInv, SInv, All
<1>2. IsFiniteSet(UsableOf(scanned)) /\ UsableOf(scanned) \in SUBSET Nat
  <2>1. IsFiniteSet(1 .. Len(scanned))
    BY <1>1, FS_Interval
  <2>2. UsableOf(scanned) \in SUBSET (1 .. Len(scanned))
    BY <1>1 DEF UsableOf
  <2> QED BY <2>1, <2>2, FS_Subset
<1>3. ASSUME NEW n \in UsableOf(scanned) PROVE scanned[n].label.txg \in Nat
  <2>1. n \in All /\ Usable(scanned[n].window) /\ scanned[n].label = Best(scanned[n].window)
        /\ Lies(scanned[n].window)
    BY <1>1, DecidedOn DEF UsableOf, Usable
  <2>2. PICK v \in ToSet(Written[scanned[n].window.path]), i \in 1 .. 4 :
          scanned[n].label.txg = v.txg[i]
    BY <2>1, BestOf DEF Lies
  <2>3. v.pool \in Pools /\ v.txg \in [1 .. 4 -> DOMAIN Tree[v.pool]]
    BY <2>1, SupportAssumption DEF VdevAssumption, Lies
  <2>4. DOMAIN Tree[v.pool] \subseteq Nat
    BY <2>3, SupportAssumption DEF PoolAssumption
  <2> QED BY <2>2, <2>3, <2>4
<1> DEFINE f == [n \in UsableOf(scanned) |-> scanned[n].label.txg]
           T == {n \in UsableOf(scanned) :
                   \A m \in UsableOf(scanned) : scanned[m].label.txg <= scanned[n].label.txg}
<1>4. PICK k \in UsableOf(scanned) : \A m \in UsableOf(scanned) : f[m] <= f[k]
  <2>1. f \in [UsableOf(scanned) -> Nat] /\ UsableOf(scanned) # {}
    BY <1>3, DecidedOn
  <2> HIDE DEF f
  <2> QED BY <1>2, <2>1, GreatestOf
<1>5. T \in SUBSET Nat /\ T # {}
  BY <1>2, <1>4
<1>6. RefOf(scanned) \in UsableOf(scanned)
  <2>1. RefOf(scanned) = Min(T)
    BY Zenon DEF RefOf
  <2>2. Min(T) \in T
    <3> HIDE DEF T
    <3> QED BY <1>5, LeastExists
  <2> QED BY <2>1, <2>2
<1>7. ASSUME NEW g, WithGuidOf(scanned, g) # {}
      PROVE  Max(WithGuidOf(scanned, g)) \in WithGuidOf(scanned, g)
  <2>1. WithGuidOf(scanned, g) \in SUBSET UsableOf(scanned)
    BY DEF WithGuidOf
  <2>2. IsFiniteSet(WithGuidOf(scanned, g)) /\ WithGuidOf(scanned, g) \in SUBSET Nat
    BY <1>2, <2>1, FS_Subset
  <2> QED BY <1>7, <2>2, GreatestExists
<1>8. ASSUME NEW n \in UsableOf(scanned) PROVE n \in All /\ scanned[n].label # NoLabel
  BY <1>1 DEF UsableOf
<1>9. ASSUME NEW g, NEW n \in WithGuidOf(scanned, g)
      PROVE  n \in UsableOf(scanned) /\ scanned[n].label.guid = g
  BY DEF WithGuidOf
<1> QED BY <1>6, <1>7, <1>8, <1>9

\* The label retained is of a pool there is, at a state it had.
LEMMA TopoTyped ==
  ASSUME OpenInv, Decided
  PROVE  topo.pool \in Pools /\ topo.txg \in DOMAIN Tree[topo.pool]
<1> DEFINE r == RefOf(scanned)
           w == scanned[r].window
<1>1. r \in All /\ scanned[r].label # NoLabel /\ topo = scanned[r].label
  BY RefAndLast, DecidedOn DEF TopoOf
<1>2. Lies(w) /\ topo = Best(w) /\ Usable(w)
  BY <1>1, DecidedOn DEF Usable
<1> HIDE DEF r, w
<1>3. PICK v \in ToSet(Written[w.path]), i \in 1 .. 4 :
        Best(w) = [txg |-> v.txg[i], guid |-> v.guid, pool |-> v.pool, ashift |-> v.ashift]
  BY <1>2, BestOf DEF Lies
<1>4. w.path \in Paths
  BY <1>2 DEF Lies
<1>5. v.pool \in Pools /\ v.txg \in [1 .. 4 -> DOMAIN Tree[v.pool]]
  BY <1>4, SupportAssumption DEF VdevAssumption
<1>6. v.txg[i] \in DOMAIN Tree[v.pool]
  BY <1>5
<1>7. topo.pool = v.pool /\ topo.txg = v.txg[i]
  BY <1>2, <1>3
<1> QED BY <1>5, <1>6, <1>7

\* The columns read are those reported.
DevicesAre ==
  /\ DOMAIN devices = Columns \ Missing
  /\ \A c \in DOMAIN devices : devices[c].path = Leaf(c).path

LEMMA DevicesAreRead ==
  ASSUME OpenInv, Decided
  PROVE  DevicesAre
<1>1. /\ topo = TopoOf(scanned) /\ devices = DevicesOf(scanned)
  BY DecidedOn
<1>2. Children = GuidsOf(scanned)
  BY <1>1, Zenon DEF Children, GuidsOf
<1>3. \A c : WithGuid(Children[c]) = WithGuidOf(scanned, GuidsOf(scanned)[c])
  BY <1>2, SameOperators, Zenon
<1>4. DOMAIN devices = {c \in Columns : WithGuid(Children[c]) # {}}
  BY <1>1, <1>2, <1>3 DEF DevicesOf, Columns
<1>5. Missing = {c \in Columns : WithGuid(Children[c]) = {}}
  <2>1. \A c : Leaf(c).state = "MISSING" <=> WithGuid(Children[c]) = {}
    BY DEF Leaf
  <2> QED BY <2>1 DEF Missing
<1>6. ASSUME NEW c \in DOMAIN devices PROVE devices[c].path = Leaf(c).path
  <2>1. WithGuid(Children[c]) # {}
    BY <1>4
  <2>2. devices[c] = scanned[Max(WithGuidOf(scanned, GuidsOf(scanned)[c]))].window
    BY <1>1 DEF DevicesOf
  <2>3. devices[c] = scanned[Max(WithGuid(Children[c]))].window
    BY <1>3, <2>2, Zenon
  <2>4. Leaf(c) = [state |-> "AVAILABLE", path |-> scanned[Max(WithGuid(Children[c]))].window.path]
    BY <2>1, Zenon DEF Leaf
  <2> QED BY <2>3, <2>4
<1> QED BY <1>4, <1>5, <1>6 DEF DevicesAre

\* Every window lies in its support, whatever the partition tables and the option
\* offset say. (Code: ReadOnlyDevice.__init__.)
THEOREM OpenTypes == Spec => []TypeOK
<1> DEFINE Phase == pc \in {"scan", "try", "rings", "choose", "mos", "opened", "refused", "raised"}
<1>1. Init => Phase
  BY DEF Init
<1>2. Phase /\ [Next]_vars => Phase'
  <2> SUFFICES ASSUME Phase, [Next]_vars PROVE Phase'
    OBVIOUS
  <2>1. CASE CannotOpen \/ BuildTopology \/ ReadUberblocks \/ Choose \/ OpenPool \/ StepBack
    <3>1. pc' \in {"raised", "rings", "choose", "mos", "opened", "scan"}
      <4>1. CASE CannotOpen
        BY <4>1 DEF CannotOpen
      <4>4. CASE BuildTopology
        BY <4>4, Zenon DEF BuildTopology
      <4>2. CASE ReadUberblocks
        BY <4>2 DEF ReadUberblocks
      <4>3. CASE Choose \/ OpenPool \/ StepBack
        BY <4>3 DEF Choose, OpenPool, StepBack
      <4> QED BY <2>1, <4>1, <4>2, <4>3, <4>4
    <3> QED BY <3>1
  <2>2. CASE NoTopology \/ NoUberblock \/ NoMos
    BY <2>2 DEF NoTopology, NoUberblock, NoMos, Refuse
  <2>3. CASE ScanForced \/ NoPartition
    BY <2>3 DEF ScanForced, NoPartition
  <2>4. CASE Scan
    <3>1. pc' = pc \/ pc' = "try"
      BY <2>4 DEF Scan
    <3> QED BY <3>1
  <2>5. CASE TryPartition
    <3>1. pc' = pc \/ pc' = "scan"
      BY <2>5 DEF TryPartition
    <3> QED BY <3>1
  <2>6. CASE UNCHANGED vars
    BY <2>6 DEF vars
  <2> QED BY <2>1, <2>2, <2>3, <2>4, <2>5, <2>6 DEF Next
<1>3. OpenInv /\ Phase => TypeOK
  <2> SUFFICES ASSUME OpenInv, Phase PROVE TypeOK
    OBVIOUS
  <2>1. SInv /\ Scanning /\ txg \in Nat
    BY DEF OpenInv, SInv, Newest
  <2>2. ASSUME NEW n \in All PROVE Lies(scanned[n].window)
    BY <2>1 DEF Scanning
  <2>3. ASSUME NEW o \in open PROVE Lies(o[2])
    <3>1. CASE o \in Held
      <4>1. PICK n \in All : o = <<n, scanned[n].window>>
        BY <3>1 DEF Held
      <4> QED BY <2>2, <4>1
    <3>2. CASE o \notin Held
      <4>1. pc = "try" /\ o = <<N, Whole(Path)>>
        BY <2>1, <3>2 DEF SInv, Descriptors
      <4>2. Path \in Paths /\ Opens(Path, 0)
        BY <2>1, <4>1, PathsType DEF SInv, Trying
      <4> QED BY <4>1, <4>2, WholeLies
    <3> QED BY <3>1, <3>2
  <2>4. \A w \in {scanned[n].window : n \in All} \cup {o[2] : o \in open} : Lies(w)
    BY <2>2, <2>3
  <2>5. cmd \in Commands /\ damage \in Damages
    BY <2>1 DEF Scanning
  <2> QED BY <2>1, <2>4, <2>5 DEF TypeOK, Lies
<1> HIDE DEF Phase
<1>4. Spec => []Phase
  BY <1>1, <1>2, PTL DEF Spec
<1> QED BY <1>3, <1>4, OpenKept, PTL

\* Columns are read from where their vdev begins, whatever else the disks hold.
\* (Code: verify_embedded_checksum, scan_devices, open_pool.)
THEOREM OpenRightOrigin == Spec => []RightOrigin
<1>1. ASSUME OpenInv, Decided, NEW c \in DOMAIN devices
      PROVE  \E v \in ToSet(Written[devices[c].path]) :
               v.start = devices[c].start /\ v.guid = Children[c] /\ v.pool = topo.pool
  <2> DEFINE g == GuidsOf(scanned)[c]
             n == Max(WithGuidOf(scanned, g))
             w == scanned[n].window
             r == RefOf(scanned)
  <2>1. /\ topo = scanned[r].label
        /\ c \in DOMAIN GuidsOf(scanned) /\ WithGuidOf(scanned, g) # {} /\ devices[c] = w
    BY <1>1, DecidedOn DEF DevicesOf, TopoOf
  <2>2. g = Children[c] /\ g \in ToSet(Tree[topo.pool][topo.txg])
    BY <2>1 DEF GuidsOf, TopoOf, Children, ToSet
  <2>3. r \in All /\ scanned[r].label # NoLabel
    BY <1>1, RefAndLast
  <2>4. n \in All /\ scanned[n].label # NoLabel /\ scanned[n].label.guid = g
    BY <1>1, <2>1, RefAndLast
  <2>5. Lies(w) /\ scanned[n].label = Best(w) /\ Usable(w)
    BY <1>1, <2>4, DecidedOn DEF Usable
  <2> HIDE DEF g, n, w, r
  <2>6. PICK v \in ToSet(Written[w.path]) : v.start = w.start /\ Best(w).guid = v.guid
    BY <2>5, BestOf DEF Lies
  <2>7. v.guid = g
    BY <2>4, <2>5, <2>6 DEF w
  <2>8. topo.pool \in Pools /\ topo.txg \in DOMAIN Tree[topo.pool]
    BY <1>1, TopoTyped
  <2>9. v.pool = topo.pool
    <3>1. w.path \in Paths
      BY <2>5 DEF Lies
    <3> QED BY <2>2, <2>6, <2>7, <2>8, <3>1, SupportAssumption DEF VdevAssumption
  <2> QED BY <2>1, <2>2, <2>6, <2>7, <2>9
<1>2. OpenInv => RightOrigin
  BY <1>1 DEF RightOrigin
<1> QED BY <1>2, OpenKept, PTL

\* What the report says available is what is read, and from where it says.
\* (Code: _leaf_from_config against the loop of open_pool.)
THEOREM OpenReportedIsRead == Spec => []ReportedIsRead
<1>1. ASSUME OpenInv, Decided PROVE DevicesAre
  BY <1>1, DevicesAreRead
<1>2. OpenInv => ReportedIsRead
  BY <1>1 DEF ReportedIsRead, DevicesAre
<1> QED BY <1>2, OpenKept, PTL

\* What is opened is the newest state of which a copy can be read, when the
\* uberblocks found are of one pool. (Code: UberblockSet.best, open_pool.)
THEOREM OpenNewestReadable == Spec => []NewestReadable
<1>1. ASSUME OpenInv, pc = "opened", OnePool, NEW u \in jeu, MosReadable(u)
      PROVE  u.txg <= ub.txg
  <2>1. /\ topo = TopoOf(AllKept) /\ devices = DevicesOf(AllKept)
        /\ jeu = JeuOf(damage, AllKept)
    BY <1>1 DEF OpenInv, Found, After, Read
  <2>2. OnePoolOf(damage, AllKept)
    BY <1>1, <2>1 DEF OnePool, OnePoolOf
  <2>3. NoneAbove(damage, AllKept, ub.txg)
    BY <1>1, <2>2 DEF OpenInv, Newest
  <2>4. ReadableOf(TopoOf(AllKept).pool, DevicesOf(AllKept), u)
    BY <1>1, <2>1, SameReadable
  <2> QED BY <1>1, <2>1, <2>3, <2>4 DEF NoneAbove
<1>2. OpenInv => NewestReadable
  BY <1>1 DEF NewestReadable
<1> QED BY <1>2, OpenKept, PTL

\* A raidz1 that lost no more columns than it has parity, and a raidz that lost none,
\* gives the MOS of a state that no support read was left out of: a promise of
\* recoverability_summary() that read_dva_physical() keeps, whatever was damaged.
THEOREM OpenPromiseKept == Spec => []PromiseKept
<1>1. ASSUME OpenInv, Decided, Promised, Parity[topo.pool] = 1 \/ Missing = {}
      PROVE  MosReadable(ub)
  <2>1. ub \in Wanted /\ Wanted \subseteq jeu /\ \A u \in jeu : IsSlot(u)
    BY <1>1 DEF OpenInv, Found, Newest, Decided, Wanted
  <2>2. IsSlot(ub) /\ ub.pool = topo.pool
    BY <1>1, <2>1 DEF Promised
  <2>3. topo.pool \in Pools /\ topo.txg \in DOMAIN Tree[topo.pool]
    BY <1>1, TopoTyped
  <2>4. ub.txg \in DOMAIN Tree[topo.pool]
    BY <2>2 DEF IsSlot
  <2>5. PICK copy \in MosCopies[topo.pool][ub.txg] :
               /\ copy.data \subseteq Columns /\ copy.parity \subseteq Columns
               /\ copy.data \cap copy.parity = {}
               /\ Parity[topo.pool] = 1 => Cardinality(copy.parity) = 1
    <3>1. /\ MosCopies[topo.pool][ub.txg] # {}
          /\ \A copy \in MosCopies[topo.pool][ub.txg] :
               /\ copy.data \cup copy.parity \subseteq DOMAIN Tree[topo.pool][topo.txg]
               /\ copy.data \cap copy.parity = {}
               /\ Parity[topo.pool] # NoParity => Cardinality(copy.parity) = Parity[topo.pool]
      BY <2>3, <2>4, SupportAssumption DEF PoolAssumption
    <3>2. Parity[topo.pool] = 1 => Parity[topo.pool] # NoParity
      BY DEF NoParity
    <3> QED BY <3>1, <3>2 DEF Columns, Children
  <2> DEFINE lost == copy.data \ DOMAIN devices
  <2>6. DOMAIN devices = Columns \ Missing
    BY <1>1, DevicesAreRead DEF DevicesAre
  <2>7. ASSUME lost # {}
        PROVE  /\ Parity[topo.pool] = 1
               /\ Cardinality(lost) <= Cardinality(copy.parity \cap DOMAIN devices)
    <3>1. lost \subseteq Missing /\ Missing # {} /\ Parity[topo.pool] = 1
      BY <1>1, <2>5, <2>6, <2>7
    <3>2. IsFiniteSet(Missing)
      <4>1. IsFiniteSet(Columns)
        BY <2>3, SupportAssumption DEF PoolAssumption, Columns, Children
      <4>2. Missing \in SUBSET Columns
        BY DEF Missing
      <4> QED BY <4>1, <4>2, FS_Subset
    <3>3. Cardinality(Missing) <= 1 /\ Cardinality(Missing) \in Nat
      BY <1>1, <3>1, <3>2, FS_CardinalityType DEF Promised, FullStripeReconstructible
    <3>4. PICK c \in lost : Missing = {c}
      <4>1. Cardinality(Missing) # 0
        BY <3>1, <3>2, FS_EmptySet
      <4>2. Cardinality(Missing) = 1
        BY <3>3, <4>1
      <4>3. \E x : Missing = {x}
        BY <3>2, <4>2, FS_Singleton
      <4> QED BY <2>7, <3>1, <4>3
    <3>5. lost = {c} /\ copy.parity \cap DOMAIN devices = copy.parity
      BY <2>5, <2>6, <3>1, <3>4
    <3>6. Cardinality(lost) = 1
      BY <3>5, FS_Singleton
    <3>7. Cardinality(copy.parity \cap DOMAIN devices) = 1
      BY <2>5, <3>1, <3>5
    <3> QED BY <3>1, <3>6, <3>7
  <2>8. CopyReadable(copy, ub.txg)
    BY <1>1, <2>7 DEF CopyReadable, Promised
  <2> QED BY <2>2, <2>5, <2>8 DEF MosReadable
<1>2. OpenInv => PromiseKept
  BY <1>1 DEF PromiseKept
<1> QED BY <1>2, OpenKept, PTL
=============================================================================
