---------------------------- MODULE MCLabelRead ----------------------------
(***************************************************************************)
(* Instance of LabelRead: buffers that hold a list in a list, or two pairs *)
(* one after the other, with sizes that overlap, overrun or go back.       *)
(***************************************************************************)
EXTENDS LabelRead

MCSizes == {-1, 0, 5, 7, 9}
MCLengths == {-1, 0, 1}
MCTypes == {0, 5, 9, 10, 14, 17, 20}
MCCounts == {-1, 0, 1}

FewSizes == {0, 5}
FewTypes == {1, 5}
=============================================================================
