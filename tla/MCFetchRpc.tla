----------------------------- MODULE MCFetchRpc ------------------------------
(* Instances of FetchRpc, and so of FetchPool, for TLC. *)
EXTENDS FetchRpc
=============================================================================
