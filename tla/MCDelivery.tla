------------------------------ MODULE MCDelivery ------------------------------
(* Small instances of Delivery: two of the six files, a few release IDs. *)
EXTENDS Delivery, TLC

Symmetry == Permutations(ReleaseId) \cup Permutations(File)
=============================================================================
