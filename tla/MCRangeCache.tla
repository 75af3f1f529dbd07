---------------------------- MODULE MCRangeCache -----------------------------
(* Instances of RangeCache for TLC. *)
EXTENDS RangeCache, TLC

CONSTANTS p1, p2, t1, t2

\* Two processes with one thread each.
SingleThreaded == t1 :> p1 @@ t2 :> p2

\* A request covers either block or both.
TwoBlocks == {1, 2}
TwoSpans == {{1}, {2}, {1, 2}}
=============================================================================
