---------------------------- MODULE FetchService ----------------------------
(***************************************************************************)
(* What the fetch service promises a client of dyad.fetch and              *)
(* dyad.fetch_range: each request is one streaming RPC that is received    *)
(* once, carries the data at most once, and is closed once.  No threads,   *)
(* queues or pipes appear here.  FetchPool is shown to implement it.       *)
(***************************************************************************)
CONSTANT Requests

VARIABLE st    \* what has happened to each request

State == {"unseen", "pending", "sent", "served", "empty", "failed"}

TypeOK == st \in [Requests -> State]

Init == st = [r \in Requests |-> "unseen"]

Move(r, from, to) == st[r] = from /\ st' = [st EXCEPT ![r] = to]

\* A callback receives the request and answers it on the spot, or keeps it.
Receive(r) == \E to \in {"pending", "served", "failed"} : Move(r, "unseen", to)

\* The data goes out ahead of the closing message.
SendData(r) == Move(r, "pending", "sent")

\* ENODATA closes the stream: after the data, or together with it, or
\* without any when the send failed.
Finish(r) ==
    \/ Move(r, "sent", "served")
    \/ \E to \in {"served", "empty"} : Move(r, "pending", to)

\* An errno closes the stream; the data may have left before the failure.
Fail(r) == \E from \in {"pending", "sent"} : Move(r, from, "failed")

Next == \E r \in Requests : Receive(r) \/ SendData(r) \/ Finish(r) \/ Fail(r)

Spec == Init /\ [][Next]_st
=============================================================================
