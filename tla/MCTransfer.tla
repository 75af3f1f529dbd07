----------------------------- MODULE MCTransfer ------------------------------
(* Instances of Transfer and RangeTransfer for TLC. *)
EXTENDS RangeTransfer
=============================================================================
