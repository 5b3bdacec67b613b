------------------------------ MODULE Datasets ------------------------------
(***************************************************************************)
(* Where the datasets of a pool are found: down the hierarchy from its     *)
(* root (build_tree() of src/zfsrescue/dsl.py), or among the dnodes of the *)
(* MOS (scan()); and which of them a command goes through (_datasets_zpl() *)
(* of cli.py).                                                             *)
(*                                                                         *)
(* A name is the sequence of directories from the root of the pool, with   *)
(* the name of the snapshot or "".  Sorting, which only changes the order  *)
(* of the output, is left out.                                             *)
(***************************************************************************)
EXTENDS Zap

CONSTANTS
  MaxDepth,   \* levels of the hierarchy that are followed
  Commands    \* [mos, scan, filter]: objset of the pool and options

ObjectDirectory == 1

VARIABLES
  cmd,        \* the command
  pc,
  pending,    \* directories still to visit: <<object, name, depth>>
  nodes,      \* datasets met on the way down
  trouble,    \* what the nodes say of what could not be read
  noms,       \* directory -> name, by the scan
  vus,        \* directories whose children were named
  entries     \* datasets still to go through

walk == <<pending, nodes, trouble>>
naming == <<noms, vus>>

Mos(o) == Objects[cmd.mos][o]

\* read_dsl_dir(), read_dsl_dataset(), _dnode().  They look at the size of the
\* bonus only, where the scan looks at its type: what they are given is of that
\* type in what ZFS wrote (MosAssumption), so both are written alike.
ReadBonus(o, bonus) == Present(cmd.mos, o) /\ Mos(o).bonus = bonus
ReadMosZap(o) == ReadZap(cmd.mos, o)

\* The directory of the root dataset, NoObject if the MOS does not tell.
Racine ==
  LET z == ReadMosZap(ObjectDirectory) IN
  IF ~Present(cmd.mos, ObjectDirectory) \/ Get(z, "root_dataset") = NoValue THEN NoObject
  ELSE Get(z, "root_dataset")[1]

DatasetName(path, snap, oid) == [path |-> path, snap |-> snap, oid |-> oid]
Named(path, snap) == DatasetName(path, snap, NoObject)
Synthetic(oid) == DatasetName(<<>>, "", oid)

-----------------------------------------------------------------------------
(* build_tree(): the hierarchy.                                            *)

\* Without a root, ValueError ends the command.
StartTree ==
  /\ pc = "start"
  /\ ~cmd.scan
  /\ IF Racine = NoObject THEN pc' = "raised" /\ UNCHANGED pending
     ELSE pc' = "tree" /\ pending' = <<<<Racine, <<>>, 0>>>>
  /\ UNCHANGED <<damage, cmd, nodes, trouble, naming, entries>>

\* _noeud() on the first directory that waits, its children put before the others.
Children(z, path, depth) == {<<e.value[1], Append(path, e.name), depth + 1>> : e \in Entries(z)}

Said(b, text) == IF b THEN {text} ELSE {}

VisitTooDeep ==
  /\ pc = "tree"
  /\ pending # <<>>
  /\ Head(pending)[3] > MaxDepth
  /\ pending' = Tail(pending)
  /\ trouble' = trouble \cup {"profondeur"}
  /\ UNCHANGED <<damage, cmd, pc, nodes, naming, entries>>

VisitLostDir ==
  /\ pc = "tree"
  /\ pending # <<>>
  /\ Head(pending)[3] <= MaxDepth
  /\ ~ReadBonus(Head(pending)[1], "dsl_dir")
  /\ pending' = Tail(pending)
  /\ trouble' = trouble \cup {"illisible"}
  /\ UNCHANGED <<damage, cmd, pc, nodes, naming, entries>>

VisitDir ==
  /\ pc = "tree"
  /\ pending # <<>>
  /\ Head(pending)[3] <= MaxDepth
  /\ ReadBonus(Head(pending)[1], "dsl_dir")
  /\ LET d == Mos(Head(pending)[1])
         ds == d.head
         name == Head(pending)[2]
         read == ReadBonus(ds, "dsl_dataset")
         snaps == IF read THEN Mos(ds).snapnames ELSE NoObject
         listed == d.children # NoObject /\ Present(cmd.mos, d.children) IN
     /\ pending' = SetToSeq(IF listed THEN Children(ReadMosZap(d.children), name, Head(pending)[3]) ELSE {})
                   \o Tail(pending)
     /\ nodes' = IF read THEN Append(nodes, [oid |-> ds, name |-> Named(name, "")]) ELSE nodes
     /\ trouble' = trouble
          \cup Said(ds # NoObject /\ ~read, "illisible")
          \cup Said(snaps # NoObject /\ Present(cmd.mos, snaps) /\ ~Complete(ReadMosZap(snaps)), "incomplete")
          \cup Said(d.children # NoObject /\ ~listed, "illisible")
          \cup Said(listed /\ ~Complete(ReadMosZap(d.children)), "incomplete")
  /\ UNCHANGED <<damage, cmd, pc, naming, entries>>

\* _hierarchie_tronquee(): the command warns.
Warned == trouble \cap {"incomplete", "illisible"} # {}

\* _datasets_zpl() without scan, on a second tree built as the first.
TreeDone ==
  /\ pc = "tree"
  /\ pending = <<>>
  /\ entries' = nodes
  /\ pc' = "offer"
  /\ UNCHANGED <<damage, cmd, walk, naming>>

-----------------------------------------------------------------------------
(* scan(): the dnodes of the MOS.                                          *)

Repertoires == {o \in DOMAIN Objects[cmd.mos] : ReadBonus(o, "dsl_dir")}

\* Mutant: every dnode of the MOS is taken.
Found_AnyDnode == {o \in DOMAIN Objects[cmd.mos] : Present(cmd.mos, o)}

Found == {o \in DOMAIN Objects[cmd.mos] : ReadBonus(o, "dsl_dataset")}

StartScan ==
  /\ pc = "start"
  /\ cmd.scan
  /\ IF Racine = NoObject THEN UNCHANGED <<pending, noms>>
     ELSE pending' = <<<<Racine, <<>>, 0>>>> /\ noms' = [o \in {Racine} |-> <<>>]
  /\ pc' = "names"
  /\ UNCHANGED <<damage, cmd, nodes, trouble, vus, entries>>

\* _noms_des_repertoires(): the last directory put down is taken first.
Last1 == Last(pending)[1]

\* The children of a directory not seen yet take its name and theirs.
NameChildren ==
  /\ pc = "names"
  /\ pending # <<>>
  /\ LET z == IF Last1 \notin vus /\ Last1 \in Repertoires /\ Mos(Last1).children # NoObject
                   /\ Present(cmd.mos, Mos(Last1).children)
              THEN ReadMosZap(Mos(Last1).children) ELSE Nothing({})
         sub == Children(z, noms[Last1], 0) IN
     /\ noms' = [o \in DOMAIN noms \cup {s[1] : s \in sub} |->
                   IF \E s \in sub : s[1] = o THEN (CHOOSE s \in sub : s[1] = o)[2] ELSE noms[o]]
     /\ pending' = Front(pending) \o SetToSeq(sub)
  /\ vus' = vus \cup {Last1}
  /\ UNCHANGED <<damage, cmd, pc, nodes, trouble, entries>>

\* The directories whose name is known and that have a given head.
Heads(ds) == {d \in Repertoires \cap DOMAIN noms : Mos(d).head = ds}
Snapshots(ds) ==
  IF ds \in Found /\ Mos(ds).snapnames # NoObject /\ Present(cmd.mos, Mos(ds).snapnames)
  THEN Entries(ReadMosZap(Mos(ds).snapnames)) ELSE {}

\* Mutant: the snapshot takes the name of the dataset that lists it.
ScanName_NoSnapshot(ds) ==
  LET of == {d \in Repertoires \cap DOMAIN noms : \E e \in Snapshots(Mos(d).head) : e.value[1] = ds} IN
  CASE Heads(ds) # {} -> Named(noms[Max(Heads(ds))], "")
    [] Heads(ds) = {} /\ of # {} -> Named(noms[Min(of)], "")
    [] OTHER -> Synthetic(ds)

\* The name of a head, or of the first that lists it as a snapshot, or none.
ScanName(ds) ==
  LET of == {d \in Repertoires \cap DOMAIN noms : \E e \in Snapshots(Mos(d).head) : e.value[1] = ds} IN
  CASE Heads(ds) # {} -> Named(noms[Max(Heads(ds))], "")
    [] Heads(ds) = {} /\ of # {} ->
         Named(noms[Min(of)], (CHOOSE e \in Snapshots(Mos(Min(of)).head) : e.value[1] = ds).name)
    [] OTHER -> Synthetic(ds)

ScanDone ==
  /\ pc = "names"
  /\ pending = <<>>
  /\ entries' = LET of == Ascending(Found) IN [k \in DOMAIN of |-> [oid |-> of[k], name |-> ScanName(of[k])]]
  /\ pc' = "offer"
  /\ UNCHANGED <<damage, cmd, walk, naming>>

-----------------------------------------------------------------------------
(* _datasets_zpl(): the datasets, one at a time.                           *)

\* A filter is the number of a dataset, or a name as the command writes it.
NoFilter == [kind |-> "none"]
ByObject(oid) == [kind |-> "object", oid |-> oid]
ByName(name) == [kind |-> "name", name |-> name]

\* Mutant: a name is no longer taken.
Correspond_NumberOnly(e) == cmd.filter \in {NoFilter, ByObject(e.oid)}

Correspond(e) == cmd.filter \in {NoFilter, ByObject(e.oid), ByName(e.name)}
Objset(e) == Mos(e.oid).objset

\* A dataset that does not match, or whose objset cannot be read.
Skip ==
  /\ pc = "offer"
  /\ entries # <<>>
  /\ ~Correspond(Head(entries)) \/ Mos(Head(entries).oid).hole \/ ~ObjsetReadable(Objset(Head(entries)))
  /\ entries' = Tail(entries)
  /\ UNCHANGED <<damage, cmd, pc, walk, naming>>

AllOffered ==
  /\ pc = "offer"
  /\ entries = <<>>
  /\ pc' = "done"
  /\ UNCHANGED <<damage, cmd, walk, naming, entries>>

DslInit ==
  /\ cmd \in Commands
  /\ pc = "start"
  /\ pending = <<>>
  /\ nodes = <<>>
  /\ trouble = {}
  /\ noms = <<>>
  /\ vus = {}
  /\ entries = <<>>

DslStep ==
  \/ StartTree \/ VisitTooDeep \/ VisitLostDir \/ VisitDir \/ TreeDone
  \/ StartScan \/ NameChildren \/ ScanDone \/ Skip \/ AllOffered
=============================================================================
