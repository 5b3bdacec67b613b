---------------------------- MODULE MCDnodeWalk ----------------------------
(***************************************************************************)
(* Instance of DnodeWalk: a meta-dnode of three levels and nine blocks.    *)
(***************************************************************************)
EXTENDS DnodeWalk

\* Blocks 0 to 3 are under pointer <<2, 0>> and 4 to 7 under <<2, 1>>; the
\* dnode says the object ends at block 8, for which it has no pointer.
MCNLevels == 3
MCEpb == 2
MCSpan == [l \in 0 .. 2 |-> 2 ^ l]
MCMaxBlkid == 8
MCNBlkptr == 2

\* Blocks 2 and 3 are a hole of level 1, block 1 one of level 0.
MCHoles == {<<1, 1>>, <<0, 1>>}

\* The indirect block over 4 and 5 only holds the pointer of 4; the dnode has
\* no pointer to <<1, 3>>.
MCEntries == [p \in Indirect |-> IF p = <<1, 2>> THEN 1 ELSE 2]

\* A cache of two units keeps blocks of one: indirect blocks, and data that
\* compresses well.
MCWeight == [p \in Pointers |-> IF p \in {<<0, 4>>, <<0, 6>>} THEN 3 ELSE 1]

\* Nothing, a top pointer, an indirect block and the data of another, data.
MCOutages == {{}, {<<2, 1>>}, {<<1, 0>>, <<0, 4>>}, {<<0, 0>>, <<0, 6>>}}

\* Block 0 holds a dnode and a free slot, block 4 a dnode of two slots, block 6
\* two dnodes, block 7 free slots.
MCPerBlock == 2
MCDnodes == {0, 8, 12, 13}
MCExtraSlots == [o \in Objects |-> IF o = 8 THEN 1 ELSE 0]
=============================================================================
