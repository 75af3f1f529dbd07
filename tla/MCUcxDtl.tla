------------------------------ MODULE MCUcxDtl -------------------------------
(* Instances of UcxDtl for TLC. *)
EXTENDS UcxDtl

CONSTANTS a, b, pidA, pidB, pidC

\* Three consumers whose pids differ.
DistinctPids ==
    [c \in Consumers |-> CASE c = a -> pidA [] c = b -> pidB [] OTHER -> pidC]
=============================================================================
