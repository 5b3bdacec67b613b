----------------------------- MODULE FileIndex -----------------------------
(***************************************************************************)
(* build_index() of src/zfsrescue/zpl.py: every object of a dataset that   *)
(* can still be read, named from the directories that can, under a path    *)
(* as far as the chain of parents goes.                                    *)
(*                                                                         *)
(* A component of a path is a name, the number of an object without name,  *)
(* or a mark: the chain of parents is lost or loops.                       *)
(***************************************************************************)
EXTENDS SystemAttributes

MasterNode == 1
NoParent == 0
NoRoot == 0
NoName == ""

VARIABLES
  fs,         \* objset being indexed
  table,      \* layouts of the attributes
  root,       \* root_object
  idx,        \* object -> node
  todo,       \* directories to read, then objects to give a path
  climb,      \* the path being followed up
  paths       \* object -> path

index == <<fs, table, root, idx, todo, climb, paths>>

Idle == [at |-> 0, vus |-> {}, tail |-> <<>>]
Name(text) == [kind |-> "name", text |-> text, oid |-> 0]
Number(oid) == [kind |-> "objet", text |-> "", oid |-> oid]
Mark(kind, oid) == [kind |-> kind, text |-> "", oid |-> oid]

Fs(o) == Objects[fs][o]
IsDir(o) == o \in DOMAIN idx /\ idx[o].type = "dir"

\* _prepare()
Prepare(os) ==
  LET master == ReadZap(os, MasterNode)
      known == Present(os, MasterNode)
      value(name) == IF known /\ Get(master, name) # NoValue THEN Get(master, name)[1] ELSE NoRoot IN
  /\ fs' = os
  /\ root' = value("ROOT")
  /\ table' = IF value("SA_ATTRS") = NoRoot THEN LegacyTable ELSE ReadSaTable(os, value("SA_ATTRS"))
  /\ UNCHANGED <<idx, todo, climb, paths>>

\* A node of the sweep: its attributes tell its parent.
Attributes(o) == IF Fs(o).bonus = NoBonus THEN NoAttributes ELSE DecodeBonus(Fs(o).bonus, table)
Swept(o, attrs) ==
  [type |-> Fs(o).type, name |-> NoName, attrs |-> attrs, source |-> "balayage",
   parent |-> IF "PARENT" \in DOMAIN attrs /\ attrs["PARENT"] = "PARENT" THEN Fs(o).parent ELSE NoParent]

Sweep ==
  \E attrs \in {[o \in {o \in DOMAIN Objects[fs] : Present(fs, o)} |-> Attributes(o)]} :
    /\ idx' = [o \in DOMAIN attrs |-> Swept(o, attrs[o])]
    /\ todo' = Ascending({o \in DOMAIN attrs : Fs(o).type = "dir"})
    /\ UNCHANGED <<fs, table, root, climb, paths>>

Absent == [type |-> "?", name |-> NoName, attrs |-> NoAttributes, source |-> "balayage", parent |-> NoParent]

\* The entries of a directory name their objects, those without dnode too.
ReadDirectory ==
  LET dir == Head(todo)
      found == Entries(ReadZap(fs, dir))
      entry(o) == CHOOSE e \in found : e.value[1] = o
      node(o) == IF o \in DOMAIN idx THEN idx[o] ELSE Absent IN
  /\ idx' = [o \in DOMAIN idx \cup {e.value[1] : e \in found} |->
               IF o \in {e.value[1] : e \in found}
               THEN [node(o) EXCEPT !.name = entry(o).name, !.parent = dir, !.source = "repertoire"]
               ELSE idx[o]]
  /\ todo' = Tail(todo)
  /\ UNCHANGED <<fs, table, root, climb, paths>>

StartPaths ==
  /\ todo' = Ascending(DOMAIN idx)
  /\ UNCHANGED <<fs, table, root, idx, climb, paths>>

-----------------------------------------------------------------------------
(* est_racine(), chemin()                                                  *)

\* Mutant: a directory that has lost its parent is taken for the root.
EstRacine_NoParent(o) == o = root \/ (IsDir(o) /\ idx[o].parent \in {o, NoParent})

EstRacine(o) == o = root \/ (IsDir(o) /\ idx[o].parent = o)

Component(o) == IF idx[o].name = NoName THEN Number(o) ELSE Name(idx[o].name)

Give(path) ==
  /\ paths' = [o \in DOMAIN paths \cup {Head(todo)} |-> IF o = Head(todo) THEN path ELSE paths[o]]
  /\ todo' = Tail(todo)
  /\ climb' = Idle
  /\ UNCHANGED <<fs, table>>

\* A root has no name. The first one is the root of the dataset, if none is known.
PathOfRoot ==
  /\ climb = Idle
  /\ EstRacine(Head(todo))
  /\ root' = IF root = NoRoot THEN Head(todo) ELSE root
  /\ idx' = [idx EXCEPT ![Head(todo)].name = NoName]
  /\ Give(<<>>)

StartClimb ==
  /\ climb = Idle
  /\ ~EstRacine(Head(todo))
  /\ climb' = [Idle EXCEPT !.at = Head(todo)]
  /\ UNCHANGED <<fs, table, root, idx, todo, paths>>

\* Mutant: what was seen is forgotten (and the names, to keep the states finite).
ClimbOn_Forgetful ==
  /\ climb # Idle
  /\ ~EstRacine(climb.at)
  /\ IsDir(idx[climb.at].parent)
  /\ climb' = [at |-> idx[climb.at].parent, vus |-> climb.vus, tail |-> climb.tail]
  /\ UNCHANGED <<fs, table, root, idx, todo, paths>>

ClimbOn ==
  /\ climb # Idle
  /\ ~EstRacine(climb.at)
  /\ climb.at \notin climb.vus
  /\ IsDir(idx[climb.at].parent)
  /\ climb' = [at |-> idx[climb.at].parent, vus |-> climb.vus \cup {climb.at},
               tail |-> <<Component(climb.at)>> \o climb.tail]
  /\ UNCHANGED <<fs, table, root, idx, todo, paths>>

ClimbEnds ==
  /\ climb # Idle
  /\ CASE EstRacine(climb.at) -> Give(climb.tail)
       [] ~EstRacine(climb.at) /\ climb.at \in climb.vus -> Give(<<Mark("boucle", climb.at)>> \o climb.tail)
       [] ~EstRacine(climb.at) /\ climb.at \notin climb.vus ->
            ~IsDir(idx[climb.at].parent) /\ Give(<<Mark("perdu", 0), Component(climb.at)>> \o climb.tail)
  /\ UNCHANGED <<root, idx>>

IndexInit ==
  /\ fs = "" /\ table = LegacyTable /\ root = NoRoot
  /\ idx = <<>> /\ todo = <<>> /\ climb = Idle /\ paths = <<>>
=============================================================================
