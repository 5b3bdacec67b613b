---------------------------- MODULE BlockSource ----------------------------
(***************************************************************************)
(* What read_block() promises the layers above it (DMU, ZPL, extraction):  *)
(* one answer for one call, the block itself whenever what is left of its  *)
(* copies determines it, and a refusal otherwise.  The caller never learns *)
(* how many copies, columns or reconstructions it took.  Of a block that   *)
(* has no checksum, only an answer is promised.                            *)
(***************************************************************************)

VARIABLES
  readable,     \* does what is left of the block determine it? (constant)
  checked,      \* is there a checksum to tell? (constant)
  outcome       \* "pending", then "delivered" or "refused"

Init ==
  /\ readable \in BOOLEAN
  /\ checked \in BOOLEAN
  /\ outcome = "pending"

Deliver == outcome = "pending" /\ (checked => readable)  /\ outcome' = "delivered"
Refuse  == outcome = "pending" /\ (checked => ~readable) /\ outcome' = "refused"

Next == (Deliver \/ Refuse) /\ UNCHANGED <<readable, checked>>

Spec ==
  /\ Init
  /\ [][Next]_<<readable, checked, outcome>>
  /\ WF_<<readable, checked, outcome>>(Next)
=============================================================================
