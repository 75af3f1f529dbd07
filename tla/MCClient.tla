------------------------------ MODULE MCClient -------------------------------
(* Instances of Client for TLC. *)
EXTENDS Client, TLC

\* A producer, and a process that is both and is set to reinitialise.
SomeEnvs ==
    {[reinit |-> FALSE, fsync_write |-> FALSE, prod |-> "path", cons |-> "null"],
     [reinit |-> TRUE, fsync_write |-> TRUE, prod |-> "path", cons |-> "path"]}

\* One path empty, both given, none given.
SomeParams ==
    {[reinit |-> FALSE, fsync_write |-> FALSE, prod |-> "path", cons |-> "empty"],
     [reinit |-> FALSE, fsync_write |-> TRUE, prod |-> "path", cons |-> "path"],
     [reinit |-> FALSE, fsync_write |-> FALSE, prod |-> "null", cons |-> "null"]}

\* Many calls on contexts and few on streams, or the other way round; and as many
\* of both as let the managed path come while a stream has its file open.
SomeBudgets == {<<3, 0>>, <<2, 2>>, <<1, 6>>}

\* Streams and files are interchangeable, and no property is about fairness.
Symmetry == Permutations(Streams) \cup Permutations(Files)
=============================================================================
