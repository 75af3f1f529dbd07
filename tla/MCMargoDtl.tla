----------------------------- MODULE MCMargoDtl ------------------------------
(* Instances of MargoDtl for TLC. *)
EXTENDS MargoDtl
=============================================================================
