----------------------------- MODULE Namespace -----------------------------
(***************************************************************************)
(* From the MOS of a pool to the files handed to the extraction: the       *)
(* datasets, found down the hierarchy or by a scan, then the index of each *)
(* of them, on disks of which any part may be lost (_datasets_zpl(),       *)
(* cmd_ls() and cmd_extract() of src/zfsrescue/cli.py).                    *)
(***************************************************************************)
EXTENDS Datasets, FileIndex

CONSTANT Damages   \* what may be lost together

VARIABLE handed    \* files handed out: dataset, name, object and path

vars == <<damage, cmd, pc, walk, naming, entries, index, handed>>

Current == Head(entries)

\* An objset that can be read is opened; its index is built at once.
OpenFs ==
  /\ pc = "offer"
  /\ entries # <<>>
  /\ Correspond(Current)
  /\ ~Mos(Current.oid).hole
  /\ ObjsetReadable(Objset(Current))
  /\ Prepare(Objset(Current))
  /\ pc' = "sweep"
  /\ UNCHANGED <<damage, cmd, walk, naming, entries, handed>>

Step(step, next) ==
  /\ pc = step
  /\ pc' = next
  /\ UNCHANGED <<damage, cmd, walk, naming, entries, handed>>

SweepFs == Step("sweep", "read") /\ Sweep
ReadDir == Step("read", "read") /\ todo # <<>> /\ ReadDirectory
DirsRead == Step("read", "paths") /\ todo = <<>> /\ StartPaths
PathRoot == Step("paths", "paths") /\ todo # <<>> /\ PathOfRoot
PathStart == Step("paths", "paths") /\ todo # <<>> /\ StartClimb
PathOn == Step("paths", "paths") /\ ClimbOn
PathEnd == Step("paths", "paths") /\ ClimbEnds

\* DatasetIndex.files: what the commands go through.
Files == {o \in DOMAIN idx : idx[o].type = "file"}

HandOut ==
  /\ pc = "paths"
  /\ todo = <<>>
  /\ handed' = handed \cup {[dataset |-> Current.oid, name |-> Current.name, object |-> o, path |-> paths[o]] :
                              o \in Files}
  /\ entries' = Tail(entries)
  /\ pc' = "offer"
  /\ fs' = "" /\ table' = LegacyTable /\ root' = NoRoot
  /\ idx' = <<>> /\ todo' = <<>> /\ climb' = Idle /\ paths' = <<>>
  /\ UNCHANGED <<damage, cmd, walk, naming>>

Init == DslInit /\ IndexInit /\ damage \in Damages /\ handed = {}

FindStep == DslStep /\ UNCHANGED <<index, handed>>

\* The command has returned.
Ended == pc \in {"done", "raised"}
Rest == Ended /\ UNCHANGED vars

Next ==
  \/ FindStep \/ OpenFs \/ SweepFs \/ ReadDir \/ DirsRead
  \/ PathRoot \/ PathStart \/ PathOn \/ PathEnd \/ HandOut \/ Rest

\* One thread that nothing blocks: weak fairness of Next, ENABLED <<Next>>_vars
\* written out. The run without deadlock says that it is the negation of Ended.
Fairness == []<>Ended \/ []<><<Next>>_vars

Spec == Init /\ [][Next]_vars /\ Fairness

-----------------------------------------------------------------------------
(* What ZFS wrote, lost or not.                                            *)

FileSystems == DOMAIN Objects \ {c.mos : c \in Commands}

\* Where a component of a path leads from an object: a name, where the directory
\* says; a number or a mark, to the object it tells.
Leads(os, o, c) == IF c.kind = "name" THEN Lookup(os, o, c.text) ELSE c.oid
Followed(os, from, path) ==
  LET at[k \in 0 .. Len(path)] == IF k = 0 THEN from ELSE Leads(os, at[k - 1], path[k]) IN at

TrueRoot(os) == Lookup(os, MasterNode, "ROOT")
IsPath(os, path, o) == o = Followed(os, TrueRoot(os), path)[Len(path)]

\* The directory of a name: from the root, each is a child of the one before.
DslDirs(mos) == {d \in DOMAIN Objects[mos] : Objects[mos][d].bonus = "dsl_dir"}
DslDatasets(mos) == {ds \in DOMAIN Objects[mos] : Objects[mos][ds].bonus = "dsl_dataset"}
RootDir(mos) == Lookup(mos, ObjectDirectory, "root_dataset")
Child(mos, d, name) ==
  IF d \in DslDirs(mos) THEN Lookup(mos, Objects[mos][d].children, name) ELSE NoObject
Descent(mos, path) ==
  LET at[k \in 0 .. Len(path)] == IF k = 0 THEN RootDir(mos) ELSE Child(mos, at[k - 1], path[k]) IN at
TrueDir(mos, path) == Descent(mos, path)[Len(path)]

IsDatasetName(mos, n, ds) ==
  LET d == TrueDir(mos, n.path) IN
  /\ d # NoObject
  /\ IF n.snap = "" THEN Objects[mos][d].head = ds
     ELSE Lookup(mos, Objects[mos][Objects[mos][d].head].snapnames, n.snap) = ds

\* Directories lead to directories and heads are datasets, every directory of a
\* MOS is below its root, and a snapshot has a name.
ASSUME MosAssumption ==
  \A mos \in {c.mos : c \in Commands} :
    /\ mos \in DOMAIN Objects
    /\ RootDir(mos) \in DslDirs(mos)
    /\ \A d \in DslDirs(mos) :
         /\ Objects[mos][d].head \in {NoObject} \cup DslDatasets(mos)
         /\ \A e \in AllEntries(mos, Objects[mos][d].children) : e.value # NoValue => e.value[1] \in DslDirs(mos)
    /\ \A S \in SUBSET DslDirs(mos) :
         /\ RootDir(mos) \in S
         /\ \A d \in S : \A e \in AllEntries(mos, Objects[mos][d].children) :
              e.value # NoValue => e.value[1] \in S
         => S = DslDirs(mos)
    /\ \A ds \in DslDatasets(mos) :
         /\ Objects[mos][ds].hole \/ Objects[mos][ds].objset \in FileSystems
         /\ \A e \in AllEntries(mos, Objects[mos][ds].snapnames) : e.name # ""

\* The names that commands ask for.
PathsAsked == {c.filter.name.path : c \in {c \in Commands : c.filter.kind = "name"}}
ASSUME CommandAssumption == \A path \in PathsAsked : path \in Seq(ToSet(path))

\* In a file system a directory names objects; only the root holds itself.
ASSUME DirectoryAssumption ==
  \A os \in FileSystems : \A d \in DOMAIN Objects[os] : Objects[os][d].type = "dir" =>
    /\ d = TrueRoot(os) \/ Objects[os][d].parent # d
    /\ \A e \in AllEntries(os, d) : e.value # NoValue =>
         e.value[1] \in Nat \ {NoObject} /\ (e.value[1] = d => d = TrueRoot(os))

\* A layout begins with the attributes that all files have, of one word each in
\* the registry, which is one block; that is where ZFS put them in a bonus.
BeginsWithCommon(layout) ==
  /\ layout \in Seq(ToSet(layout)) /\ Len(layout) >= Len(Common)
  /\ \A k \in DOMAIN layout : IF k <= Len(Common) THEN layout[k] = Common[k] ELSE layout[k] \notin ToSet(Common)
ASSUME AttributeAssumption ==
  \A os \in FileSystems :
    LET sa == Lookup(os, MasterNode, "SA_ATTRS")
        registry == Lookup(os, sa, "REGISTRY")
        layouts == Lookup(os, sa, "LAYOUTS") IN
    /\ registry \in DOMAIN Objects[os] =>
         /\ \A k \in DOMAIN Objects[os][registry].blocks : Objects[os][registry].blocks[k].kind = "micro"
         /\ \A a \in ToSet(Common) : ValueOf(os, registry, a) = <<1>>
    /\ \A e \in AllEntries(os, layouts) : e.value # NoValue => BeginsWithCommon(e.value)
    /\ \A o \in DOMAIN Objects[os] : LET b == Objects[os][o].bonus IN b # NoBonus =>
         /\ b.header \in Nat
         /\ \A k \in DOMAIN Common : \A a \in DOMAIN b.body :
              (b.body[a] = <<b.header + k - 1, b.header + k>>) <=> (a = Common[k])
         /\ ToSet(Common) \subseteq DOMAIN b.body

-----------------------------------------------------------------------------
\* What goes through the commands as datasets are dnodes whose bonus is a dataset,
\* and paths are given to nodes of the index only. (Code: scan, read_dsl_dataset,
\* build_index.)
TypeOK ==
  /\ damage \in Damages /\ cmd \in Commands
  /\ pc \in {"start", "raised", "tree", "names", "offer", "sweep", "read", "paths", "done"}
  /\ \A k \in DOMAIN entries : Mos(entries[k].oid).bonus = "dsl_dataset"
  /\ \A h \in handed : Mos(h.dataset).bonus = "dsl_dataset"
  /\ DOMAIN paths \subseteq DOMAIN idx

Offered(ds, o) == {h \in handed : h.dataset = ds /\ h.object = o}
Heads0 == {Mos(d).head : d \in {d \in DOMAIN Objects[cmd.mos] : Mos(d).bonus = "dsl_dir"}}

\* The command asks for a dataset: by no filter, by its number, by the name that a
\* scan finds for it, or by that of a directory whose head it is.
Asked(ds) ==
  \/ cmd.filter \in {NoFilter, ByObject(ds)}
  \/ cmd.scan /\ cmd.filter = ByName(ScanName(ds))
  \/ ~cmd.scan /\ \E path \in PathsAsked :
                    cmd.filter = ByName(Named(path, "")) /\ IsDatasetName(cmd.mos, Named(path, ""), ds)

\* The datasets that can be opened, and their files that can be read.
Readable == {ds \in Found : ~Mos(ds).hole /\ ObjsetReadable(Mos(ds).objset)}
FilesOf(ds) ==
  {o \in DOMAIN Objects[Mos(ds).objset] : Present(Mos(ds).objset, o) /\ Objects[Mos(ds).objset][o].type = "file"}

\* Every file that can be read, in a dataset that can be read and that the command
\* asks for, is handed out. By a scan, this holds whatever else is lost, once each,
\* but a dataset is only known by the name the scan finds (NamedIsOffered is about
\* its own). Without it, it holds for the heads, under their own names, unless the
\* command has warned that the hierarchy is cut or has met its limit of levels,
\* of which it does not warn (HiddenIsSaid is about that).
\* (Code: _noeud, scan, _hierarchie_tronquee, _correspond, _datasets_zpl, build_index.)
ReadableIsOffered ==
  pc = "done" /\ (cmd.scan \/ (~Warned /\ "profondeur" \notin trouble)) =>
    \A ds \in Readable : Asked(ds) /\ (cmd.scan \/ ds \in Heads0) =>
      \A o \in FilesOf(ds) : IF cmd.scan THEN Cardinality(Offered(ds, o)) = 1 ELSE Offered(ds, o) # {}

\* A dataset goes under its name in the pool, or, by a scan, under a synthetic
\* one: no name is pieced together from lists of children partly lost, and no
\* two datasets share one. (Code: _noeud, _noms_des_repertoires, scan.)
NamesTrue ==
  pc = "offer" =>
    \A k \in DOMAIN entries :
      LET e == entries[k] IN
      /\ e.name.oid = NoObject => IsDatasetName(cmd.mos, e.name, e.oid)
      /\ e.name.oid # NoObject => e.name.oid = e.oid /\ cmd.scan

\* A path leads to its object, through the directories ZFS wrote, from the root or
\* from the object that a number or a mark tells, and two files never get the same,
\* whatever directories, attributes or nodes are lost: a file is never filed under
\* the name of another. (Code: build_index, whose names come from directories
\* and whose parents come from either.)
PathsTell == pc = "offer" =>
  /\ \A h \in handed : IsPath(Mos(h.dataset).objset, h.path, h.object)
  /\ \A h, g \in handed : h.dataset = g.dataset /\ h.path = g.path => h.object = g.object

\* An attribute given is the one ZFS wrote, read directly or by an hypothesis,
\* whichever of the layouts and of the registry is lost.
\* (Code: parse_sa_bonus, inferer_disposition_sa; tests/test_zpl_extraction.py:7.)
AttributesTrue == pc = "read" =>
  \A o \in DOMAIN idx : \A a \in DOMAIN idx[o].attrs \cap {"MODE", "SIZE", "PARENT", "LINKS"} :
    idx[o].attrs[a] = a

\* The descent, the scan and the paths end, on hierarchies and parents that loop.
NamespaceEnds == <>Ended

-----------------------------------------------------------------------------
(* What the repository says and the code does not do.                      *)

\* --dataset limits to a dataset, by its name or its number, with --scan too: the
\* files of a readable dataset asked for by its name are handed out.
\* (Code: _correspond; said by cli.py:936 and docs/etape6_navigation.md:106.)
NamedIsOffered ==
  pc = "done" /\ cmd.scan =>
    \A ds \in Readable : \A path \in PathsAsked :
      cmd.filter = ByName(Named(path, "")) /\ IsDatasetName(cmd.mos, Named(path, ""), ds) =>
        \A o \in FilesOf(ds) : Offered(ds, o) # {}

\* The command warns when the descent cannot see all the datasets.
\* (Code: _hierarchie_tronquee, _noeud; said by cli.py:390-391.)
HiddenIsSaid ==
  pc = "done" /\ ~cmd.scan /\ cmd.filter = NoFilter /\ ~Warned =>
    \A ds \in Readable \cap Heads0 : \A o \in FilesOf(ds) : Offered(ds, o) # {}
=============================================================================
