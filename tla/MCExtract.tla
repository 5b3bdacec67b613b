----------------------------- MODULE MCExtract -----------------------------
(* Instances of Extract: values of the constants a .cfg cannot write.      *)
EXTENDS Extract

OneDataset == <<1, 1>>
TwoDatasets == <<1, 2>>

\* Two files far from each other.
Apart == <<1, 2>>
NoAncestors == [t \in {1, 2} |-> {}]

\* The path of file 2 goes through file 1.
Nested == [t \in {1, 2} |-> IF t = 2 THEN {1} ELSE {}]

\* "p/a/b" and "p/a_b" have the same prefixe: their files share a path.
Shared == <<1, 1>>
SharedAncestors == [t \in {1} |-> {}]

Sizes == <<2, 1>>
TwoBlocks == <<2, 2>>

\* Sizes in half blocks: the first file ends within its last block.
HalfSizes == <<3, 2>>
TwoHalfSizes == <<3, 4>>

\* File 2 was extended by truncate(1): one block, of a size of three.
Extended2 == <<4, 6>>

\* The layout of the attributes is read, or lost, for a whole dataset.
SizesKnown == {{1, 2}}
SizesOrNone == {{1, 2}, {}}

\* File 2 holds zeros on the pool.
Null2 == <<{}, {1}>>
NoNull == <<{}, {}>>

\* Option sets.
Default == [fill |-> TRUE, skip |-> FALSE, lost |-> FALSE, apart |-> TRUE,
            resume |-> FALSE]
Resuming == [Default EXCEPT !.resume = TRUE]
Truncating == [Default EXCEPT !.fill = FALSE]
Skipping == [Resuming EXCEPT !.skip = TRUE]
WritingLost == [Default EXCEPT !.lost = TRUE]
Mixing == [Default EXCEPT !.apart = FALSE]

ApartOptions == {Default, Resuming, Truncating, Skipping, WritingLost}
NestedOptions == {Default, Mixing, Resuming}
OnlyDefault == {Default}
=============================================================================
