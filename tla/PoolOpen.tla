------------------------------ MODULE PoolOpen ------------------------------
(***************************************************************************)
(* open_pool() of src/zfsrescue/pool.py: from the supports named on the    *)
(* command line to the MOS.  Each support is scanned for the labels of a   *)
(* vdev, on the whole of it or in its partitions; the newest label tells   *)
(* the topology, the newest uberblock the state of the pool.               *)
(*                                                                         *)
(* Offsets and sizes are counted in labels (256 KiB).  What ZFS wrote on a *)
(* support is a sequence of vdevs, the last one over the others: a disk    *)
(* that had a life in another pool keeps labels of it where nothing was    *)
(* written since.                                                          *)
(***************************************************************************)
EXTENDS Integers, Sequences, FiniteSets, FiniteSetsExt, SequencesExt

CONSTANTS
  Media,        \* path -> size of the support
  Closed,       \* paths that cannot be opened
  Written,      \* path -> vdevs written on it, oldest first
  Tables,       \* path -> partition tables read on it: GPT at each size of sector, MBR
  BigEnough,    \* size above which any partition is tried
  Tree,         \* pool -> txg -> guids of the children of its vdev, in order
  Time,         \* pool -> txg -> timestamp of its uberblock
  MosCopies,    \* pool -> txg -> columns of each copy of its MOS: data, parity
  Parity,       \* pool -> nparity, NoParity if its vdev is no raidz
  Commands,     \* command lines: supports and options
  Damages       \* what may be damaged together: <<path, place, part>>

Paths == DOMAIN Media
Pools == DOMAIN Tree
NoTxg == 0
Configuration == 0     \* the part of a label that is no uberblock
NoParity == -1
NoOffset == -1

\* What is written on supports, in any number and any order: what vdevs a pool
\* had, and where they were.  The guid of a vdev is that of one pool.
VdevAssumption ==
  \A p \in Paths : \A v \in ToSet(Written[p]) :
    /\ v.start \in Nat /\ v.size \in Nat
    /\ v.pool \in Pools
    /\ v.txg \in [1 .. 4 -> DOMAIN Tree[v.pool]]
    /\ v.ubs \subseteq DOMAIN Tree[v.pool] /\ IsFiniteSet(v.ubs)
    /\ \A q \in Pools : \A t \in DOMAIN Tree[q] : v.guid \in ToSet(Tree[q][t]) => q = v.pool

\* The states of a pool are numbered from 1; the blocks of a MOS are in columns
\* that its raidz has, and had, apart from those of their parity.
PoolAssumption ==
  /\ IsFiniteSet(Pools)
  /\ \A q \in Pools :
       /\ Parity[q] \in Int
       /\ DOMAIN Tree[q] \subseteq Nat \ {NoTxg}
       /\ \A t \in DOMAIN Tree[q] :
            /\ Time[q][t] \in Nat
            /\ MosCopies[q][t] # {}
            /\ IsFiniteSet(DOMAIN Tree[q][t])
            /\ \A copy \in MosCopies[q][t] :
                 /\ \A s \in DOMAIN Tree[q] :
                      copy.data \cup copy.parity \subseteq DOMAIN Tree[q][s]
                 /\ copy.data \cap copy.parity = {}
                 /\ Parity[q] # NoParity => Cardinality(copy.parity) = Parity[q]

ASSUME SupportAssumption ==
  /\ IsFiniteSet(Paths)
  /\ Media \in [Paths -> Nat]
  /\ \A p \in Paths : /\ Tables[p] \in Seq(ToSet(Tables[p]))
                      /\ Written[p] \in Seq(ToSet(Written[p]))
  /\ \A p \in Paths : \A t \in ToSet(Tables[p]) :
       /\ t.entries \in Seq(ToSet(t.entries))
       /\ \A e \in ToSet(t.entries) : e.start \in Nat /\ e.length \in Int
  /\ VdevAssumption
  /\ PoolAssumption
  /\ \A c \in Commands : c.paths \in Seq(Paths) /\ c.offset \in Int

VARIABLES
  cmd,          \* the command line
  damage,       \* what is damaged
  txg,          \* argument txg
  scanned,      \* supports scanned so far: window kept and best label
  open,         \* descriptors: <<position of the support, window>>
  try,          \* partitions still to try on the current support
  topo,         \* the label retained: pool, txg, guid, ashift
  devices,      \* column -> window it is read through
  jeu,          \* valid uberblocks, with the support and label they come from
  ub,           \* the one chosen
  pc

vars == <<cmd, damage, txg, scanned, open, try, topo, devices, jeu, ub, pc>>
disks == <<cmd, damage>>
found == <<topo, devices, jeu, ub>>

-----------------------------------------------------------------------------
(* ReadOnlyDevice, labels, uberblocks: what is read through a window.      *)

Whole(p) == [path |-> p, start |-> 0, size |-> Media[p]]

\* A window that starts in the support and is not empty.
Opens(p, start) == p \notin Closed /\ start >= 0 /\ start < Media[p]
\* Mutant: a window is as long as it was asked for.
Window_Uncut(p, start, length) == [path |-> p, start |-> start, size |-> length]

Window(p, start, length) ==
  [path |-> p, start |-> start,
   size |-> IF length < Media[p] - start THEN length ELSE Media[p] - start]

\* vdev_label_offset()
Labels == 0 .. 3
LabelOffset(psize, i) == i + IF i < 2 THEN 0 ELSE psize - 4

\* Where the label i of the k-th vdev written on a support was put.
Place(p, k, i) == Written[p][k].start + LabelOffset(Written[p][k].size, i)

\* The label ZFS wrote last at a place of a support: its vdev, its number there.
Stored(p, at) ==
  {[vdev |-> Written[p][ki[1]], index |-> ki[2]] :
     ki \in {ki \in (DOMAIN Written[p]) \X Labels :
       /\ at = Place(p, ki[1], ki[2])
       /\ \A l \in DOMAIN Written[p], j \in Labels : l > ki[1] => at # Place(p, l, j)}}

\* Mutant: the checksum is not bound to the offset.
Verifies_Anywhere(s, x) == TRUE

\* The checksum of a region covers the offset it was written at.
Verifies(s, x) == LabelOffset(s.vdev.size, s.index) = x

\* What is intact of label i of a window: its configuration or an uberblock.
Intact(w, i, part) ==
  LET x == LabelOffset(w.size, i) IN
  {s \in Stored(w.path, w.start + x) :
     /\ x >= 0 /\ x < w.size
     /\ Verifies(s, x)
     /\ <<w.path, w.start + x, part>> \notin damage}

Config(s) ==
  [txg |-> s.vdev.txg[s.index + 1], guid |-> s.vdev.guid, pool |-> s.vdev.pool,
   ashift |-> s.vdev.ashift]

ValidLabels(w) == {i \in Labels : Intact(w, i, Configuration) # {}}
ConfigOf(w, i) == Config(CHOOSE s \in Intact(w, i, Configuration) : TRUE)

\* The highest txg, the first label that has it.
BestLabel(w) ==
  Min({i \in ValidLabels(w) :
         \A j \in ValidLabels(w) : ConfigOf(w, j).txg <= ConfigOf(w, i).txg})

NoLabel == [txg |-> 0, guid |-> "", pool |-> 0, ashift |-> 0]
Best(w) == IF ValidLabels(w) = {} THEN NoLabel ELSE ConfigOf(w, BestLabel(w))
Usable(w) == Best(w) # NoLabel

-----------------------------------------------------------------------------
(* read_partition_table()                                                  *)

\* Entries out of the support or empty are dropped, those of an MBR at its start
\* too; the others are cut at its end.
Entries(p, t) ==
  {k \in DOMAIN t.entries :
     /\ t.entries[k].start < Media[p]
     /\ t.entries[k].length > 0
     /\ t.kind = "mbr" => t.entries[k].start # 0}
Partition(p, t, k) == Window(p, t.entries[k].start, t.entries[k].length)

\* The tables that say something: for a GPT, an error is something.
Telling(p) ==
  {n \in DOMAIN Tables[p] :
     \/ Entries(p, Tables[p][n]) # {}
     \/ (Tables[p][n].kind = "gpt" /\ Tables[p][n].errors)}

\* Of the first of them, the partitions of ZFS, then the large ones.
Candidates(p) ==
  IF Telling(p) = {} THEN {}
  ELSE LET t == Tables[p][Min(Telling(p))] IN
       {[rank |-> IF t.entries[k].zfs THEN k ELSE Len(t.entries) + k,
         window |-> Partition(p, t, k)] :
          k \in {k \in Entries(p, t) :
                   t.entries[k].zfs \/ Partition(p, t, k).size > BigEnough}}

First(s) == CHOOSE c \in s : \A d \in s : c.rank <= d.rank

-----------------------------------------------------------------------------
(* scan_devices()                                                          *)

N == Len(scanned) + 1
Path == cmd.paths[N]
Forced == cmd.offset # NoOffset
Keep(w) == scanned' = Append(scanned, [window |-> w, label |-> Best(w)])

\* Nothing catches what ReadOnlyDevice() raises: what is open stays open.
CannotOpen ==
  /\ pc = "scan"
  /\ N <= Len(cmd.paths)
  /\ ~Opens(Path, IF Forced THEN cmd.offset ELSE 0)
  /\ pc' = "raised"
  /\ UNCHANGED <<disks, txg, scanned, open, try, found>>

ScanForced ==
  /\ pc = "scan"
  /\ N <= Len(cmd.paths)
  /\ Forced
  /\ Opens(Path, cmd.offset)
  /\ LET w == Window(Path, cmd.offset, Media[Path]) IN
     Keep(w) /\ open' = open \cup {<<N, w>>}
  /\ UNCHANGED <<disks, txg, try, found, pc>>

Scan ==
  /\ pc = "scan"
  /\ N <= Len(cmd.paths)
  /\ ~Forced
  /\ Opens(Path, 0)
  /\ open' = open \cup {<<N, Whole(Path)>>}
  /\ IF Usable(Whole(Path)) \/ ~cmd.partitions \/ Candidates(Path) = {}
     THEN Keep(Whole(Path)) /\ UNCHANGED <<try, pc>>
     ELSE try' = Candidates(Path) /\ pc' = "try" /\ UNCHANGED scanned
  /\ UNCHANGED <<disks, txg, found>>

\* Mutant: the descriptor of the whole support is forgotten.
TryPartition_Leak ==
  /\ pc = "try"
  /\ try # {}
  /\ LET c == First(try)
         w == c.window IN
     IF Usable(w)
     THEN /\ Keep(w)
          /\ open' = open \cup {<<N, w>>}
          /\ try' = {}
          /\ pc' = "scan"
     ELSE try' = try \ {c} /\ UNCHANGED <<scanned, open, pc>>
  /\ UNCHANGED <<disks, txg, found>>

\* The partition is opened, then kept in place of the whole support, or closed.
TryPartition ==
  /\ pc = "try"
  /\ try # {}
  /\ LET c == First(try)
         w == c.window IN
     IF Usable(w)
     THEN /\ Keep(w)
          /\ open' = (open \ {<<N, Whole(Path)>>}) \cup {<<N, w>>}
          /\ try' = {}
          /\ pc' = "scan"
     ELSE try' = try \ {c} /\ UNCHANGED <<scanned, open, pc>>
  /\ UNCHANGED <<disks, txg, found>>

NoPartition ==
  /\ pc = "try"
  /\ try = {}
  /\ Keep(Whole(Path))
  /\ pc' = "scan"
  /\ UNCHANGED <<disks, txg, open, try, found>>

-----------------------------------------------------------------------------
(* build_topology()                                                        *)

All == DOMAIN scanned
UsableOnes == {n \in All : scanned[n].label # NoLabel}

\* The support whose label is the newest, the first of those.
Ref ==
  Min({n \in UsableOnes :
         \A m \in UsableOnes : scanned[m].label.txg <= scanned[n].label.txg})

WithGuid(g) == {n \in UsableOnes : scanned[n].label.guid = g}

\* _leaf_from_config() on the last support of a guid.
Children == Tree[topo.pool][topo.txg]
Columns == DOMAIN Children
Leaf(c) ==
  IF WithGuid(Children[c]) = {} THEN [state |-> "MISSING", path |-> ""]
  ELSE [state |-> "AVAILABLE", path |-> scanned[Max(WithGuid(Children[c]))].window.path]

\* recoverability_summary()
Missing == {c \in Columns : Leaf(c).state = "MISSING"}

\* Mutant: one loss more than there is parity.
FullStripeReconstructible_OneMore == Cardinality(Missing) <= Parity[topo.pool] + 1

FullStripeReconstructible == Cardinality(Missing) <= Parity[topo.pool]

-----------------------------------------------------------------------------
(* open_pool() after the scan.                                             *)

\* PoolOpenError: every support scanned is closed first.
Refuse ==
  /\ pc' = "refused"
  /\ open' = open \ {<<n, scanned[n].window>> : n \in All}
  /\ UNCHANGED <<disks, txg, scanned, try>>

NoTopology ==
  /\ pc = "scan"
  /\ N > Len(cmd.paths)
  /\ UsableOnes # {} => Parity[scanned[Ref].label.pool] = NoParity
  /\ Refuse
  /\ UNCHANGED found

\* Mutant: the first support of a guid is read, the report names the last.
DeviceOf_First(g) == scanned[Min(WithGuid(g))].window

\* The loop over supports: the last of a guid replaces the others.
DeviceOf(g) == scanned[Max(WithGuid(g))].window

BuildTopology ==
  /\ pc = "scan"
  /\ N > Len(cmd.paths)
  /\ UsableOnes # {}
  /\ LET ref == scanned[Ref].label
         guids == Tree[ref.pool][ref.txg] IN
     /\ Parity[ref.pool] # NoParity
     /\ topo' = ref
     /\ devices' = [c \in {c \in DOMAIN guids : WithGuid(guids[c]) # {}} |-> DeviceOf(guids[c])]
  /\ pc' = "rings"
  /\ UNCHANGED <<disks, txg, scanned, open, try, jeu, ub>>

\* read_uberblocks(): slots are cut by the ashift of the topology.
Ring(n, i) ==
  LET w == scanned[n].window IN
  UNION {{[at |-> <<n, i>>, pool |-> s.vdev.pool, txg |-> t, time |-> Time[s.vdev.pool][t]] :
            s \in {s \in Intact(w, i, t) : t \in s.vdev.ubs /\ s.vdev.ashift = topo.ashift}} :
         t \in UNION {v.ubs : v \in ToSet(Written[w.path])}}

ReadUberblocks ==
  /\ pc = "rings"
  /\ jeu' = UNION {Ring(n, i) : n \in All, i \in Labels}
  /\ pc' = "choose"
  /\ UNCHANGED <<disks, txg, scanned, open, try, topo, devices, ub>>

Wanted == IF txg = NoTxg THEN jeu ELSE {u \in jeu : u.txg = txg}

NoUberblock ==
  /\ pc = "choose"
  /\ Wanted = {}
  /\ Refuse
  /\ UNCHANGED found

\* In the order of reading.
Before(u, v) == u.at[1] < v.at[1] \/ (u.at[1] = v.at[1] /\ u.at[2] <= v.at[2])

\* Mutant: the latest timestamp, whatever the txg.
BestUberblock_Latest == CHOOSE u \in jeu : \A o \in jeu : o.time <= u.time

BestUberblock ==
  CHOOSE u \in jeu : \A o \in jeu : o.txg < u.txg \/ (o.txg = u.txg /\ o.time <= u.time)

\* An argument txg takes the first uberblock of that txg.
Choose ==
  /\ pc = "choose"
  /\ Wanted # {}
  /\ ub' = IF txg = NoTxg THEN BestUberblock
           ELSE CHOOSE u \in Wanted : \A o \in Wanted : Before(u, o)
  /\ pc' = "mos"
  /\ UNCHANGED <<disks, txg, scanned, open, try, topo, devices, jeu>>

\* What was written to a vdev reaches its last uberblock; a support left behind
\* holds other bytes where newer blocks are, and its columns are not rebuilt.
UpToDate(w, t) == \E v \in ToSet(Written[w.path]) :
                    v.start = w.start /\ v.pool = topo.pool /\ \E s \in v.ubs : s >= t

\* read_dva_physical(): missing data is rebuilt from the parity that is left, of
\* a raidz1 only; parity is not looked at otherwise.
CopyReadable(copy, t) ==
  LET here == DOMAIN devices
      lost == copy.data \ here
      used == (copy.data \cap here) \cup IF lost = {} THEN {} ELSE copy.parity \cap here
  IN  /\ lost # {} => /\ Parity[topo.pool] = 1
                      /\ Cardinality(lost) <= Cardinality(copy.parity \cap here)
      /\ \A c \in used : UpToDate(devices[c], t)

\* read_objset(): a copy of the MOS can be read and conforms.
MosReadable(u) ==
  /\ u.pool = topo.pool
  /\ \E copy \in MosCopies[u.pool][u.txg] : CopyReadable(copy, u.txg)

OpenPool ==
  /\ pc = "mos"
  /\ MosReadable(ub)
  /\ pc' = "opened"
  /\ UNCHANGED <<disks, txg, scanned, open, try, found>>

NoMos ==
  /\ pc = "mos"
  /\ ~MosReadable(ub)
  /\ Refuse
  /\ UNCHANGED found

\* The procedure of docs/etape10_procedure_reelle.md: when the MOS cannot be
\* read, the command is run again with the txg before.
Older == {u.txg : u \in {u \in jeu : u.txg < ub.txg}}
StepBack ==
  /\ pc = "refused"
  /\ Wanted # {}
  /\ Older # {}
  /\ txg' = Max(Older)
  /\ scanned' = <<>>
  /\ pc' = "scan"
  /\ UNCHANGED <<disks, open, try, found>>

Init ==
  /\ cmd \in Commands
  /\ damage \in Damages
  /\ txg = NoTxg
  /\ scanned = <<>>
  /\ open = {}
  /\ try = {}
  /\ topo = NoLabel
  /\ devices = <<>>
  /\ jeu = {}
  /\ ub = [at |-> <<0, 0>>, pool |-> 0, txg |-> 0, time |-> 0]
  /\ pc = "scan"

Next ==
  \/ CannotOpen \/ ScanForced \/ Scan \/ TryPartition \/ NoPartition
  \/ NoTopology \/ BuildTopology \/ ReadUberblocks \/ NoUberblock \/ Choose \/ OpenPool \/ NoMos \/ StepBack

Spec == Init /\ [][Next]_vars

-----------------------------------------------------------------------------
\* Every window lies in its support, whatever the partition tables and the option
\* offset say: no read goes past its end. (Code: ReadOnlyDevice.__init__, which
\* cuts the window that parttable.py asks for.)
TypeOK ==
  /\ cmd \in Commands /\ damage \in Damages
  /\ txg \in Nat
  /\ \A w \in {scanned[n].window : n \in All} \cup {o[2] : o \in open} :
       w.path \in Paths /\ w.start >= 0 /\ w.size > 0 /\ w.start + w.size <= Media[w.path]
  /\ pc \in {"scan", "try", "rings", "choose", "mos", "opened", "refused", "raised"}

Decided == pc \in {"mos", "opened"}

\* A column is read from the very place where ZFS put its vdev: labels seen
\* through a wrong window, those of an earlier life of the disk or of a partition
\* that shares its end, never shift the data. (Code: verify_embedded_checksum,
\* label_offset, scan_devices, open_pool.)
RightOrigin ==
  Decided => \A c \in DOMAIN devices :
    \E v \in ToSet(Written[devices[c].path]) :
      v.start = devices[c].start /\ v.guid = Children[c] /\ v.pool = topo.pool

\* The columns reported available are those that are read, from the supports
\* reported, two copies of one disk included. (Code: _leaf_from_config and the
\* loop of open_pool, which look devices up apart from one another.)
ReportedIsRead ==
  Decided =>
    /\ DOMAIN devices = Columns \ Missing
    /\ \A c \in DOMAIN devices : devices[c].path = Leaf(c).path

\* An open pool holds one descriptor per support, and a refusal none: neither
\* the whole support a partition replaced nor a partition tried in vain.
\* (Code: scan_devices, open_pool.)
NoStrayDescriptor ==
  /\ pc = "opened" => open = {<<n, scanned[n].window>> : n \in All}
  /\ pc = "refused" => open = {}

OnePool == \A u \in jeu : u.pool = topo.pool

\* When the uberblocks found are those of one pool, what is opened, by itself or by going back
\* txg by txg, is the newest state of which a copy can be read: no torn
\* uberblock, late disk or clock stands in the way. (Code: UberblockSet.best,
\* open_pool with txg; docs/etape10_procedure_reelle.md:187.)
NewestReadable ==
  pc = "opened" /\ OnePool =>
    \A u \in jeu : MosReadable(u) => u.txg <= ub.txg

Promised ==
  /\ FullStripeReconstructible
  /\ ub.pool = topo.pool
  /\ \A c \in DOMAIN devices : UpToDate(devices[c], ub.txg)

\* When the report of a raidz1, or of a raidz that misses no column, says that
\* every stripe can be rebuilt, the MOS of a state that no support read was left
\* out of can be. (Code: recoverability_summary against read_dva_physical.)
PromiseKept ==
  Decided /\ Promised /\ (Parity[topo.pool] = 1 \/ Missing = {}) => MosReadable(ub)

-----------------------------------------------------------------------------
\* What the program says and does not do: "Toute stripe reste reconstructible
\* (pertes <= parite)", of any raidz.
PromiseAlwaysKept == Decided /\ Promised => MosReadable(ub)
=============================================================================
