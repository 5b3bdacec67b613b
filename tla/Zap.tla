-------------------------------- MODULE Zap --------------------------------
(***************************************************************************)
(* read_zap() of src/zfsrescue/zap.py, over the objects of an objset.      *)
(*                                                                         *)
(* An object set is a function from object numbers to objects; a number    *)
(* that is not in its domain is a free slot.  A ZAP is the sequence of its *)
(* blocks: a micro block or a header, then leaves, tables of pointers and  *)
(* free blocks in any order.  Chunks of a leaf are left out: an entry is   *)
(* sound or its chain of chunks is broken. The order of entries, which the *)
(* callers sort, is left out.                                              *)
(***************************************************************************)
EXTENDS Integers, Sequences, FiniteSets, SequencesExt, FiniteSetsExt

CONSTANT Objects   \* objset -> object number -> object
VARIABLE damage    \* <<objset>>, <<objset, object>> and <<objset, object, block>> that cannot be read

NoObject == 0
NoValue == <<>>
Undeclared == -1

-----------------------------------------------------------------------------
(* What ZFS wrote, lost or not.                                            *)

AllEntries(os, o) ==
  IF o \in DOMAIN Objects[os]
  THEN UNION {Objects[os][o].blocks[k].entries : k \in DOMAIN Objects[os][o].blocks}
  ELSE {}
ValueOf(os, o, name) ==
  IF \E e \in AllEntries(os, o) : e.name = name
  THEN (CHOOSE e \in AllEntries(os, o) : e.name = name).value
  ELSE NoValue
Lookup(os, o, name) == IF ValueOf(os, o, name) = NoValue THEN NoObject ELSE ValueOf(os, o, name)[1]

\* Objects are numbered from 1. Entries are in leaves, or in the only block of a
\* micro ZAP, and a name has one value, in the leaves that repeat it too.
ASSUME ObjectsAssumption ==
  \A os \in DOMAIN Objects :
    /\ DOMAIN Objects[os] \subseteq Nat \ {NoObject} /\ IsFiniteSet(DOMAIN Objects[os])
    /\ \A o \in DOMAIN Objects[os] : LET blocks == Objects[os][o].blocks IN
         /\ blocks \in Seq(ToSet(blocks))
         /\ \A k \in DOMAIN blocks :
              /\ IsFiniteSet(blocks[k].entries)
              /\ blocks[k].kind = "micro" => DOMAIN blocks = {1}
              /\ blocks[k].kind \notin {"micro", "leaf"} => blocks[k].entries = {}
         /\ \A e, f \in AllEntries(os, o) : e.name = f.name => e.value = f.value

-----------------------------------------------------------------------------
(* What is read of it.                                                     *)

\* read_objset() and read_dnode(): the object is readable and allocated.
ObjsetReadable(os) == <<os>> \notin damage
Present(os, o) == o \in DOMAIN Objects[os] /\ <<os, o>> \notin damage

\* The numbers of a set, from the smallest.
Ascending(S) == [k \in 1 .. Cardinality(S) |-> CHOOSE x \in S : Cardinality({y \in S : y < x}) = k - 1]

\* _parse_leaf() on the leaves read: the entries whose chains can be followed.
Leaves(blocks, lost) == {k \in DOMAIN blocks \ lost : blocks[k].kind = "leaf"}
Sound(blocks, lost) == {b \in UNION {{k} \X blocks[k].entries : k \in Leaves(blocks, lost)} : b[2].sound}

\* Mutant: the blocks up to the first one lost, which is taken for the end.
ReadFat_UpToLoss(blocks, lost) ==
  [entries |-> {b[2] : b \in {b \in Sound(blocks, lost) : \A l \in lost : b[1] < l}},
   declared |-> Undeclared, missing |-> {}, errors |-> FALSE]

\* A leaf met twice gives its entries once, the first time.
ReadFat(blocks, lost) ==
  LET read == Sound(blocks, lost) IN
  [entries |-> {b[2] : b \in {b \in read : \A c \in read :
                  c[1] < b[1] => c[2].name # b[2].name \/ c[2].cd # b[2].cd}},
   declared |-> blocks[1].declared,
   missing |-> lost,
   errors |-> \E k \in Leaves(blocks, lost) : \E e \in blocks[k].entries : ~e.sound]

Nothing(lost) == [entries |-> {}, declared |-> Undeclared, missing |-> lost, errors |-> TRUE]

Read(blocks, lost) ==
  IF blocks = <<>> \/ 1 \in lost THEN Nothing(lost \cap {1})
  ELSE CASE blocks[1].kind = "micro" ->
              [entries |-> blocks[1].entries, declared |-> Undeclared, missing |-> {}, errors |-> FALSE]
         [] blocks[1].kind = "header" -> ReadFat(blocks, lost)
         [] OTHER -> Nothing({})

Lost(os, o) == {d[3] : d \in {d \in damage : Len(d) = 3 /\ d[1] = os /\ d[2] = o}}
ReadZap(os, o) == Read(Objects[os][o].blocks, Lost(os, o))

Complete(z) ==
  /\ z.missing = {}
  /\ ~z.errors
  /\ z.declared \in {Undeclared, Cardinality(z.entries)}

\* What the callers loop on: the entries that have a value.
Entries(z) == {e \in z.entries : e.value # NoValue}

\* Zap.get()
Get(z, name) ==
  IF \E e \in z.entries : e.name = name THEN (CHOOSE e \in z.entries : e.name = name).value ELSE NoValue
=============================================================================
