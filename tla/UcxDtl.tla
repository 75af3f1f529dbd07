------------------------------- MODULE UcxDtl --------------------------------
(***************************************************************************)
(* The UCX data transport (src/dyad/dtl/ucx_dtl.c) with its endpoint cache *)
(* (ucx_ep_cache.cpp): one module process that serves dyad.fetch requests  *)
(* one callback at a time, and the consumers it writes to by RDMA.         *)
(*                                                                         *)
(* Each request carries the consumer's worker address, remote key and      *)
(* buffer address.  rpc_unpack() keeps them in the one handle of the       *)
(* module, establish_connection() finds or creates an endpoint under the   *)
(* key pid << 32, send() puts the file into the consumer's buffer, and     *)
(* close_connection() resets the handle, unless the callback left through  *)
(* an error.  The consumer polls the first word of its buffer, then waits  *)
(* for the closing message of the RPC.                                     *)
(*                                                                         *)
(* An address, a packed key, a buffer address and an endpoint are each     *)
(* named by the consumer they belong to; a file by its consumer and the    *)
(* number of the fetch.  ucp_put_nbx() is taken to have reached the remote *)
(* memory when its request completes.                                      *)
(***************************************************************************)
EXTENDS Naturals, FiniteSets

CONSTANTS
    Consumers,    \* consumer processes
    Pid,          \* Pid[c]: process id of c on its own node
    None,         \* NULL
    Self,         \* the worker address of the module itself
    Zero,         \* first word of a buffer that was reset
    MaxFetches    \* bound on the fetches of one consumer

Pids == {Pid[c] : c \in Consumers}

ASSUME UcxAssumption ==
    /\ Pid \in [Consumers -> Pids]
    /\ None \notin Consumers \cup {Self} \cup Pids
    /\ Self \notin Consumers
    /\ Zero \notin Consumers \X (1..MaxFetches)
    /\ MaxFetches \in Nat

VARIABLES
    phase,       \* the module's handle: before init, in use, finalized
    h,           \* its fields: ep, remote_address, rkey_buf, rkey, cons_buf_ptr
                 \* and consumer_conn_key
    ep_cache,    \* cached endpoint of each connection key
    open,        \* endpoints created with ucp_ep_create() and not closed
    cb,          \* where the request callback is
    cur,         \* the consumer whose request it serves
    skipped,     \* auxiliary: has a callback ever left after connecting
                 \* without close_connection()?
    pending,     \* consumers whose request is on its way to the module
    cpc,         \* where each consumer is in dyad_get_data()
    nth,         \* fetches each consumer has begun
    net_buf,     \* content of each consumer's RDMA buffer
    reply,       \* closing message of its current RPC
    got          \* what its last fetch that returned OK handed over

moduleVars == <<phase, h, ep_cache, open, cb, cur, skipped>>
consumerVars == <<pending, cpc, nth, net_buf, reply, got>>
vars == <<moduleVars, consumerVars>>

File == Consumers \X (1..MaxFetches)
Handle == [ep : Consumers \cup {None}, remote_address : Consumers \cup {None},
           rkey_buf : Consumers \cup {None}, rkey : Consumers \cup {None},
           cons_buf_ptr : Consumers \cup {None, Self}, consumer_conn_key : Pids \cup {None}]

TypeOK ==
    /\ phase \in {"init", "up", "down"}
    /\ h \in Handle
    /\ ep_cache \in [Pids -> Consumers \cup {None}]
    /\ open \subseteq Consumers \cup {Self}
    /\ cb \in {"idle", "read", "connect", "send", "close"}
    /\ cur \in Consumers \cup {None}
    /\ skipped \in BOOLEAN
    /\ pending \subseteq Consumers
    /\ cpc \in [Consumers -> {"idle", "poll", "eos", "store"}]
    /\ nth \in [Consumers -> 0..MaxFetches]
    /\ net_buf \in [Consumers -> File \cup {Zero}]
    /\ reply \in [Consumers -> {"none", "ENODATA", "error"}]
    /\ got \in [Consumers -> File \cup {None}]
\* The handle as malloc() and the assignments of dyad_dtl_ucx_init() leave it.
NewHandle == [ep |-> None, remote_address |-> None, rkey_buf |-> None, rkey |-> None,
              cons_buf_ptr |-> None, consumer_conn_key |-> None]

Init ==
    /\ phase = "init"
    /\ h = NewHandle
    /\ ep_cache = [k \in Pids |-> None]
    /\ open = {}
    /\ cb = "idle"
    /\ cur = None
    /\ skipped = FALSE
    /\ pending = {}
    /\ cpc = [c \in Consumers |-> "idle"]
    /\ nth = [c \in Consumers |-> 0]
    /\ net_buf = [c \in Consumers |-> Zero]
    /\ reply = [c \in Consumers |-> "none"]
    /\ got = [c \in Consumers |-> None]

-----------------------------------------------------------------------------
(* The module's handle: init and finalize.                                 *)

\* ucx_warmup() connects to the module's own worker.  The handle of a sender
\* has no rkey_buf yet, so the warm-up send is refused before it starts, and
\* that exit neither disconnects nor fails.
Warmup == open' = open \cup {Self}

\* dyad_dtl_ucx_init(): the buffer address is a placeholder until the first
\* request; ep is reset after the warm-up.  A failure finalizes the handle.
DtlInit ==
    /\ phase = "init"
    /\ \/ /\ phase' = "up"
          /\ h' = [h EXCEPT !.cons_buf_ptr = Self]
          /\ Warmup
       \/ phase' = "down" /\ UNCHANGED <<h, open>>
    /\ UNCHANGED <<ep_cache, cb, cur, skipped, consumerVars>>

\* dyad_ucx_ep_cache_finalize(): every cached endpoint is disconnected, and
\* its entry erased.
CacheFinalize ==
    /\ open' = open \ {ep_cache[k] : k \in Pids}
    /\ ep_cache' = [k \in Pids |-> None]

\* Variant: the cache is deleted and its endpoints are not disconnected.
FinalizeForgets ==
    /\ phase = "up"
    /\ cb = "idle"
    /\ phase' = "down"
    /\ h' = NewHandle
    /\ ep_cache' = [k \in Pids |-> None]
    /\ UNCHANGED <<open, cb, cur, skipped, consumerVars>>

\* dyad_dtl_ucx_finalize(), between two callbacks: the connection, the cached
\* endpoints, then all the handle refers to.
Finalize ==
    /\ phase = "up"
    /\ cb = "idle"
    /\ phase' = "down"
    /\ h' = NewHandle
    /\ CacheFinalize
    /\ UNCHANGED <<cb, cur, skipped, consumerVars>>

-----------------------------------------------------------------------------
(* dyad_fetch_request_cb() on the module.                                  *)

\* Leave the callback through fetch_error: close_connection() is skipped.
RespondError(c) ==
    /\ reply' = [reply EXCEPT ![c] = "error"]
    /\ cb' = "idle"

\* Variant: the address of an earlier request is kept if there is one.
UnpackKeepsAddress(c) ==
    /\ phase = "up" /\ cb = "idle" /\ c \in pending
    /\ pending' = pending \ {c}
    /\ cur' = c
    /\ h' = [h EXCEPT !.cons_buf_ptr = c, !.consumer_conn_key = Pid[c],
                      !.remote_address = IF @ = None THEN c ELSE @, !.rkey_buf = c]
    /\ cb' = "read"
    /\ UNCHANGED <<phase, ep_cache, open, skipped, cpc, nth, net_buf, reply, got>>

\* Variant: the pid is left out of the connection key.
UnpackSharedKey(c) ==
    /\ phase = "up" /\ cb = "idle" /\ c \in pending
    /\ pending' = pending \ {c}
    /\ cur' = c
    /\ h' = [h EXCEPT !.cons_buf_ptr = c, !.consumer_conn_key = CHOOSE k \in Pids : TRUE,
                      !.remote_address = c, !.rkey_buf = c]
    /\ cb' = "read"
    /\ UNCHANGED <<phase, ep_cache, open, skipped, cpc, nth, net_buf, reply, got>>

\* dyad_dtl_ucx_rpc_unpack(): the fields of the handle are overwritten one
\* after the other, so a failure leaves the later ones as they were.
Unpack(c) ==
    /\ phase = "up" /\ cb = "idle" /\ c \in pending
    /\ pending' = pending \ {c}
    /\ cur' = c
    /\ LET named == [h EXCEPT !.cons_buf_ptr = c, !.consumer_conn_key = Pid[c]]
           addressed == [named EXCEPT !.remote_address = c]
       IN  \/ /\ h' = [addressed EXCEPT !.rkey_buf = c]
              /\ cb' = "read"
              /\ UNCHANGED reply
           \/ /\ h' \in {h, [named EXCEPT !.remote_address = None],
                         [addressed EXCEPT !.rkey_buf = None]}
              /\ RespondError(c)
    /\ UNCHANGED <<phase, ep_cache, open, skipped, cpc, nth, net_buf, got>>

\* The file is opened, locked and read into the module's buffer, or not.
ReadFile ==
    /\ cb = "read"
    /\ \/ cb' = "connect" /\ UNCHANGED reply
       \/ RespondError(cur)
    /\ UNCHANGED <<phase, h, ep_cache, open, cur, skipped, pending, cpc, nth, net_buf, got>>

\* dyad_ucx_ep_cache_find(): refuses when the handle has an endpoint already.
Find ==
    /\ h.ep = None
    /\ ep_cache[h.consumer_conn_key] # None
    /\ h' = [h EXCEPT !.ep = ep_cache[h.consumer_conn_key]]
    /\ cb' = "send"
    /\ UNCHANGED <<ep_cache, open, reply>>

\* ucx_connect() to the address of the request.
Connect ==
    /\ h' = [h EXCEPT !.ep = h.remote_address]
    /\ open' = open \cup {h.remote_address}

\* dyad_ucx_ep_cache_insert(), after find() has failed: a key that is cached
\* already is a success that leaves ep alone.
Insert ==
    \/ /\ h.ep # None
       /\ ep_cache[h.consumer_conn_key] # None
       /\ cb' = "send"
       /\ UNCHANGED <<h, ep_cache, open, reply>>
    \/ /\ ep_cache[h.consumer_conn_key] = None
       /\ Connect
       /\ ep_cache' = [ep_cache EXCEPT ![h.consumer_conn_key] = h.remote_address]
       /\ cb' = "send"
       /\ UNCHANGED reply
    \/ /\ ep_cache[h.consumer_conn_key] = None
       /\ RespondError(cur)
       /\ UNCHANGED <<h, ep_cache, open>>

\* dyad_dtl_ucx_establish_connection() in mode DYAD_COMM_SEND.
Establish ==
    /\ cb = "connect"
    /\ Find \/ Insert
    /\ UNCHANGED <<phase, cur, skipped, pending, cpc, nth, net_buf, got>>

\* ucx_send_no_wait(): the remote key is unpacked and the file is put through
\* the endpoint.  A put on the endpoint of another consumer fails, or writes
\* into the memory of that one.
Put ==
    /\ h' = [h EXCEPT !.rkey = h.rkey_buf]
    /\ net_buf' = [net_buf EXCEPT ![h.ep] = <<cur, nth[cur]>>]

\* Either of the two calls fails and nothing is written.
PutFails ==
    /\ h' \in {h, [h EXCEPT !.rkey = h.rkey_buf]}
    /\ UNCHANGED net_buf

\* dyad_dtl_ucx_send() waits for the request; the put may be reported as
\* failed although it has written.
Send ==
    /\ cb = "send"
    /\ \/ Put /\ cb' = "close" /\ UNCHANGED reply
       \/ (Put \/ PutFails) /\ RespondError(cur)
    /\ skipped' = (skipped \/ cb' = "idle")
    /\ UNCHANGED <<phase, ep_cache, open, cur, pending, cpc, nth, got>>

\* dyad_dtl_ucx_close_connection(), then the closing ENODATA message.
CloseConnection ==
    /\ cb = "close"
    /\ h' = [h EXCEPT !.ep = None, !.remote_address = None, !.rkey_buf = None, !.rkey = None]
    /\ reply' = [reply EXCEPT ![cur] = "ENODATA"]
    /\ cb' = "idle"
    /\ UNCHANGED <<phase, ep_cache, open, cur, skipped, pending, cpc, nth, net_buf, got>>

-----------------------------------------------------------------------------
(* dyad_get_data() on a consumer.                                          *)

\* dyad_dtl_ucx_rpc_pack() resets the first word of the buffer; if it or the
\* RPC fails, the call returns an error.
Pack(c) ==
    /\ cpc[c] = "idle"
    /\ nth[c] < MaxFetches
    /\ nth' = [nth EXCEPT ![c] = @ + 1]
    /\ net_buf' = [net_buf EXCEPT ![c] = Zero]
    /\ reply' = [reply EXCEPT ![c] = "none"]
    /\ got' = [got EXCEPT ![c] = None]
    /\ \/ pending' = pending \cup {c} /\ cpc' = [cpc EXCEPT ![c] = "poll"]
       \/ UNCHANGED <<pending, cpc>>
    /\ UNCHANGED moduleVars

\* dyad_dtl_ucx_recv(): poll until the first word is not zero.
Recv(c) ==
    /\ cpc[c] = "poll"
    /\ net_buf[c] # Zero
    /\ cpc' = [cpc EXCEPT ![c] = "eos"]
    /\ UNCHANGED <<moduleVars, pending, nth, net_buf, reply, got>>

\* get_done: the closing message has to be ENODATA.
EndOfStream(c) ==
    /\ cpc[c] = "eos"
    /\ reply[c] # "none"
    /\ cpc' = [cpc EXCEPT ![c] = IF reply[c] = "ENODATA" THEN "store" ELSE "idle"]
    /\ UNCHANGED <<moduleVars, pending, nth, net_buf, reply, got>>

\* The size is read from the head of the buffer, and dyad_cons_store() copies
\* the file straight out of it.
Store(c) ==
    /\ cpc[c] = "store"
    /\ got' = [got EXCEPT ![c] = net_buf[c]]
    /\ cpc' = [cpc EXCEPT ![c] = "idle"]
    /\ UNCHANGED <<moduleVars, pending, nth, net_buf, reply>>

-----------------------------------------------------------------------------
Callback ==
    \/ \E c \in Consumers : Unpack(c)
    \/ ReadFile
    \/ Establish
    \/ Send
    \/ CloseConnection

Consumer(c) == Pack(c) \/ Recv(c) \/ EndOfStream(c) \/ Store(c)

Next ==
    \/ DtlInit
    \/ Finalize
    \/ Callback
    \/ \E c \in Consumers : Consumer(c)

Spec == Init /\ [][Next]_vars

-----------------------------------------------------------------------------
\* dyad_get_data() that returns OK hands over the file it asked for.
OkMeansMyFile ==
    \A c \in Consumers : got[c] # None => got[c] = <<c, nth[c]>>

\* It does so whatever fails before a connection is made, as long as every
\* connection was closed again: no put lands in a buffer that belongs to
\* another request, or that its consumer is copying from.
ClosedOkMeansMyFile == skipped \/ OkMeansMyFile

\* The endpoint cache owns the endpoints: each one that is open is cached
\* under the pid of the consumer it leads to, none is created twice, and
\* dyad_dtl_ucx_finalize() leaves none open (the warm-up endpoint apart).
EndpointsAreCached ==
    /\ open \ {Self} = {ep_cache[k] : k \in Pids} \ {None}
    /\ \A k \in Pids : ep_cache[k] # None => Pid[ep_cache[k]] = k

\* When the handle has no endpoint left over, establish_connection() yields
\* the endpoint of the consumer whose request is being served, be it cached
\* by an earlier request or new, whatever other requests left in the handle.
FreshConnectionIsRequesters ==
    [][cb = "connect" /\ cb' = "send" /\ h.ep = None => h'.ep = cur]_vars
=============================================================================
