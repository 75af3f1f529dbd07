------------------------------ MODULE MCMkDirs -------------------------------
(* Instances of MkDirs for TLC. *)
EXTENDS MkDirs
=============================================================================
