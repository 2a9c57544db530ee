------------------------------ MODULE MCIncusRun ------------------------------
(* Successive runs of one matrix entry; the bounds are in the configurations. *)
EXTENDS IncusRun
=============================================================================
