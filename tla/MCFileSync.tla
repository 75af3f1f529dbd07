----------------------------- MODULE MCFileSync ------------------------------
(* Instances of FileSync for TLC. *)
EXTENDS FileSync

CONSTANTS c1, n1, n2

\* The producer is on n1.  The consumers share the other node, or one of
\* them is beside the producer, or all are.
Remote == [c \in Consumers |-> n2]
Spread == [c \in Consumers |-> IF c = c1 THEN n1 ELSE n2]
Beside == [c \in Consumers |-> n1]

Deploy(nodeOf, shared, locks, fsync, api, faults) ==
    [nodeOf |-> nodeOf, shared |-> shared, locks |-> locks, fsync |-> fsync,
     api |-> api, faults |-> faults]

\* Consumers away from the producer; shared storage with a producer that
\* locks and flushes; C++ streams without locks; closes and stores that fail
\* half way.
SafeConfigs ==
    {Deploy(Remote, FALSE, TRUE, FALSE, api, {"lock", "kvs", "rpc", "open"}) :
        api \in {"open", "fopen"}} \cup
    {Deploy(Spread, TRUE, TRUE, TRUE, "fopen", {"kvs"}),
     Deploy(Spread, FALSE, FALSE, FALSE, "stream", {"lock", "kvs", "rpc", "kill"}),
     Deploy(Remote, FALSE, TRUE, FALSE, "fopen", {"rpc", "open", "store", "close"})}

\* A consumer on the node of the producer, storage not shared.
LocalConfigs == {Deploy(Beside, FALSE, TRUE, TRUE, "fopen", {})}
=============================================================================
