----------------------------- MODULE DnodeWalk -----------------------------
(***************************************************************************)
(* DmuReader.iter_dnodes(): a generator goes through the blocks of a meta- *)
(* dnode and yields their dnodes one by one; between two of them, whoever  *)
(* consumes it reads other objects through the same reader and cache (the  *)
(* index of a file system, the scan for datasets).                         *)
(***************************************************************************)
EXTENDS Dmu

CONSTANTS
  PerBlock,     \* dnodes_per_block(meta)
  Dnodes,       \* objects whose slot begins an allocated dnode
  ExtraSlots    \* object -> extra_slots read in its slot

Objects == 0 .. (MaxBlkid + 1) * PerBlock - 1

ASSUME WalkAssumption ==
  /\ PerBlock \in Nat \ {0}
  /\ Dnodes \subseteq Objects
  /\ ExtraSlots \in [Objects -> Nat]

\* The slots the dnode d goes on over.
Inside(d) == d + 1 .. d + ExtraSlots[d]

\* How dnodes are laid out: one does not cross the end of its block, none begins
\* inside another, and a slot that is in none is free, all zeros.
ASSUME LayoutAssumption ==
  /\ \A d \in Dnodes : (d + ExtraSlots[d]) \div PerBlock = d \div PerBlock
  /\ \A d \in Dnodes : Inside(d) \cap Dnodes = {}
  /\ \A o \in Objects \ Dnodes :
       ExtraSlots[o] = 0 \/ \E d \in Dnodes : o \in Inside(d)

VARIABLES
  asker,        \* who called the reader: "walk", "other" or "none"
  wblk,         \* blkid of the generator
  block,        \* b of the generator, Pending before it is read
  slot,         \* i of the generator
  out           \* what was yielded of this block

walk == <<wblk, block, slot, out>>
allvars == <<vars, asker, walk>>

WalkTypeOK ==
  /\ TypeOK
  /\ asker \in {"walk", "other", "none"}
  /\ wblk \in 0 .. MaxBlkid + 1
  /\ block \in {Pending, Failed, Unknown}
               \cup {Recovered(d) : d \in Pointers \cup {Zeros}}
  /\ slot \in Nat
  /\ out \subseteq Objects \X {"dnode", "free", "lost"}

WalkInit ==
  /\ Init
  /\ asker = "none"
  /\ wblk = 0
  /\ block = Pending
  /\ slot = 0
  /\ out = {}

\* nblocks
Blocks == MaxBlkid + 1

Object == wblk * PerBlock + slot

\* Mutant: the generator goes one block too far.
WalkRead_OnePast ==
  /\ block = Pending
  /\ wblk <= Blocks
  /\ Call(wblk)
  /\ asker' = "walk"
  /\ UNCHANGED walk

WalkRead ==
  /\ block = Pending
  /\ wblk < Blocks
  /\ Call(wblk)
  /\ asker' = "walk"
  /\ UNCHANGED walk

WalkGets ==
  /\ pc = "done"
  /\ asker = "walk"
  /\ block' = answer
  /\ answer' = Pending
  /\ pc' = "idle"
  /\ asker' = "none"
  /\ UNCHANGED <<disk, cache, bytes, want, ptr, wblk, slot, out>>

YieldLost ==
  /\ pc = "idle"
  /\ block \in {Failed, Unknown}
  /\ slot < PerBlock
  /\ out' = out \cup {<<Object, "lost">>}
  /\ slot' = slot + 1
  /\ UNCHANGED <<vars, asker, wblk, block>>

\* What parse_dnode() says of the slot.  Zeros are free dnodes of one slot.
Kind == IF block.data # Zeros /\ Object \in Dnodes THEN "dnode" ELSE "free"
Extra == IF block.data = Zeros THEN 0 ELSE ExtraSlots[Object]

\* Mutant: the slots a large dnode goes on over are taken for dnodes.
YieldDnode_OneSlot ==
  /\ pc = "idle"
  /\ block.status = "RECOVERED"
  /\ slot < PerBlock
  /\ out' = out \cup {<<Object, Kind>>}
  /\ slot' = slot + 1
  /\ UNCHANGED <<vars, asker, wblk, block>>

YieldDnode ==
  /\ pc = "idle"
  /\ block.status = "RECOVERED"
  /\ slot < PerBlock
  /\ out' = out \cup {<<Object, Kind>>}
  /\ slot' = slot + 1 + Extra
  /\ UNCHANGED <<vars, asker, wblk, block>>

WalkOn ==
  /\ pc = "idle"
  /\ block # Pending
  /\ slot >= PerBlock
  /\ wblk' = wblk + 1
  /\ block' = Pending
  /\ slot' = 0
  /\ out' = {}
  /\ UNCHANGED <<vars, asker>>

\* read_dnode() and readers of contents: any block, and one past the end.
OtherCalls ==
  /\ \E b \in 0 .. MaxBlkid + 1 : Call(b)
  /\ asker' = "other"
  /\ UNCHANGED walk

OtherGets ==
  /\ pc = "done"
  /\ asker = "other"
  /\ answer' = Pending
  /\ pc' = "idle"
  /\ asker' = "none"
  /\ UNCHANGED <<disk, cache, bytes, want, ptr, walk>>

WalkNext ==
  \/ WalkRead \/ WalkGets \/ YieldLost \/ YieldDnode \/ WalkOn
  \/ OtherCalls \/ OtherGets
  \/ (Step \/ Glitch) /\ UNCHANGED <<asker, walk>>

Spec == WalkInit /\ [][WalkNext]_allvars

-----------------------------------------------------------------------------
Slots == {wblk * PerBlock + i : i \in 0 .. PerBlock - 1}

Covered(o) == \E d \in Dnodes \cap Slots : o \in Inside(d)

\* At the end of a block, every object of it was reported: as it is on the
\* pool, or as lost, all of the block and never a part of it; and no slot in
\* the middle of a large dnode was taken for an object.
\* (Code: DmuReader.iter_dnodes, parse_dnode.)
WalkExact ==
  block # Pending /\ slot >= PerBlock =>
    \/ /\ block.status # "RECOVERED"
       /\ out = Slots \X {"lost"}
    \/ /\ Content(wblk) = Zeros
       /\ out = Slots \X {"free"}
    \/ /\ Content(wblk) = <<0, wblk>>
       /\ out = {<<o, IF o \in Dnodes THEN "dnode" ELSE "free">> :
                    o \in {s \in Slots : ~Covered(s)}}
=============================================================================
