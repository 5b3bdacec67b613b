----------------------------- MODULE MCPoolOpen -----------------------------
(***************************************************************************)
(* Instance of PoolOpen: the disks of a raidz1 of three columns, met whole,*)
(* in a partition, late, copied, replaced or reused, those of a raidz2 and *)
(* one disk of each of two other pools.                                    *)
(***************************************************************************)
EXTENDS PoolOpen

\* Pool 1 is the pool wanted, pool 2 another raidz, pool 3 a mirror, pool 4 a
\* raidz2.
\* At txg 6, the third disk of pool 1 was replaced.
PreReplace == <<"a", "b", "c">>
After == <<"a", "b", "d">>
MCTree == <<[t \in 1 .. 9 |-> IF t < 6 THEN PreReplace ELSE After],
            [t \in 1 .. 9 |-> <<"x", "y">>],
            [t \in 1 .. 9 |-> <<"m", "n">>],
            [t \in 1 .. 9 |-> <<"e", "f", "g", "h">>]>>

\* The clock was set back before txg 8.
MCTime == [p \in 1 .. 4 |-> [t \in 1 .. 9 |-> IF t = 8 THEN 3 ELSE t]]

\* Two copies, or one with data on two columns: some states are lost with two
\* disks.  The last one of the raidz2 has data on two columns, those before on one.
Stripe(parity, data) == [parity |-> parity, data |-> data]
MCMosCopies ==
  <<[t \in 1 .. 9 |-> IF t = 8 THEN {Stripe({2}, {1, 3})} ELSE {Stripe({1}, {2}), Stripe({2}, {3})}],
    [t \in 1 .. 9 |-> {Stripe({1}, {2})}],
    [t \in 1 .. 9 |-> {Stripe({}, {1})}],
    [t \in 1 .. 9 |-> IF t = 9 THEN {Stripe({1, 2}, {3, 4})} ELSE {Stripe({4, 1}, {2})}]>>
MCParity == <<1, 1, -1, 2>>

Vdev(pool, guid, start, size, txgs, ubs) ==
  [pool |-> pool, guid |-> guid, start |-> start, size |-> size,
   txg |-> txgs, ubs |-> ubs, ashift |-> IF pool = 2 THEN 9 ELSE 12]
Same(t) == <<t, t, t, t>>

MCMedia == [p \in {"A", "B", "C", "D", "late", "copy", "reused", "other", "mirror", "bare", "swap", "gone",
                  "E", "F", "G"} |->
              IF p \in {"B", "reused", "bare"} THEN 8 ELSE 5]

MCClosed == {"gone"}

\* A, whole; B, in the second partition, up to the end of the disk; C, replaced
\* by D; late, B as it was at txg 6; copy, a copy of A made at txg 7; reused, B
\* on a disk that was a whole disk of pool 2.
MCWritten == [p \in DOMAIN MCMedia |->
  CASE p = "A" -> <<Vdev(1, "a", 0, 5, <<7, 6, 7, 6>>, {6, 7, 8})>>
    [] p = "B" -> <<Vdev(1, "b", 3, 5, Same(7), {6, 7, 8})>>
    [] p = "C" -> <<Vdev(1, "c", 0, 5, Same(5), {4, 5})>>
    [] p = "D" -> <<Vdev(1, "d", 0, 5, Same(7), {6, 7, 8})>>
    [] p = "late" -> <<Vdev(1, "b", 0, 5, Same(6), {5, 6})>>
    [] p = "copy" -> <<Vdev(1, "a", 0, 5, Same(7), {6, 7})>>
    [] p = "reused" -> <<Vdev(2, "y", 0, 8, Same(9), {8, 9}), Vdev(1, "b", 2, 4, Same(7), {6, 7, 8})>>
    [] p = "other" -> <<Vdev(2, "x", 0, 5, Same(4), {9})>>
    [] p = "mirror" -> <<Vdev(3, "m", 0, 5, Same(9), {9})>>
    [] p = "E" -> <<Vdev(4, "e", 0, 5, Same(9), {8, 9})>>
    [] p = "F" -> <<Vdev(4, "f", 0, 5, Same(9), {8, 9})>>
    [] p = "G" -> <<Vdev(4, "g", 0, 5, Same(9), {8, 9})>>
    [] OTHER -> <<>>]

Entry(zfs, start, length) == [zfs |-> zfs, start |-> start, length |-> length]
Gpt(errors, entries) == [kind |-> "gpt", errors |-> errors, entries |-> entries]
Mbr(entries) == [kind |-> "mbr", errors |-> FALSE, entries |-> entries]

\* A swap that is no candidate, one that is, the partition of B, one that starts
\* after the end of the disk, one that goes past it, entries of no use in an MBR.
MCTables == [p \in DOMAIN MCMedia |->
  CASE p = "B" -> <<Gpt(FALSE, <<>>), Gpt(FALSE, <<Entry(FALSE, 0, 2), Entry(FALSE, 9, 4), Entry(TRUE, 3, 9)>>)>>
    [] p = "reused" -> <<Mbr(<<Entry(FALSE, 0, 8), Entry(FALSE, 1, 1), Entry(FALSE, 2, 4)>>)>>
    [] p = "bare" -> <<Gpt(TRUE, <<>>), Mbr(<<Entry(FALSE, 2, 5)>>)>>
    [] p = "swap" -> <<Mbr(<<Entry(FALSE, 0, 5), Entry(FALSE, 1, 4)>>)>>
    [] OTHER -> <<>>]
MCBigEnough == 1

Command(paths, partitions, offset) ==
  [paths |-> paths, partitions |-> partitions, offset |-> offset]
MCCommands ==
  {Command(ps, part, off) : part \in BOOLEAN, off \in {-1, 3},
     ps \in {<<"A", "B", "D">>, <<"D", "B", "A">>, <<"A", "D">>, <<"B", "C">>, <<"D", "late">>,
             <<"A", "copy", "B">>, <<"copy", "A", "D">>, <<"A", "reused">>, <<"B", "other">>,
             <<"bare", "A", "D">>, <<"A", "gone">>, <<"mirror">>, <<"bare", "swap">>, <<"C">>, <<"B", "mirror">>,
             <<"E", "F", "G">>, <<"E", "G">>}}

Raidz2Commands == {Command(<<"E", "F", "G">>, FALSE, -1)}
NoDamages == {{}}

\* Labels of A, B and the reused disk, uberblocks torn in the middle of the
\* last txg, every uberblock of C.
Torn == {<<p, x, 8>> : p \in {"A", "D"}, x \in 0 .. 4} \cup {<<"C", x, t>> : x \in 0 .. 4, t \in {4, 5}}
MCDamages ==
  {UNION s : s \in SUBSET
     {{<<"A", x, Configuration>> : x \in {0, 1, 2, 3}}, {<<"B", 3, Configuration>>, <<"B", 4, Configuration>>},
      {<<"reused", x, Configuration>> : x \in {0, 1, 6, 7}}, Torn, {<<"B", x, 8>> : x \in 3 .. 7}}}
=============================================================================
