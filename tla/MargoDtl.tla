------------------------------ MODULE MargoDtl -------------------------------
(***************************************************************************)
(* The Margo data transport (src/dyad/dtl/margo_dtl.c): the module, which  *)
(* is the Margo client and pushes files, and its consumers, each a Margo   *)
(* server with one handle.                                                 *)
(*                                                                         *)
(* A request carries the consumer's address.  rpc_unpack() resolves it     *)
(* through the address cache into remote_addr, the one such field of the   *)
(* module's handle.  A request served inside the callback is sent to that  *)
(* field; one handed to the worker pool takes the address along            *)
(* (detach_request()) and is sent from the completion watcher.  Either way *)
(* margo_forward() blocks the reactor until data_ready_rpc() of the        *)
(* consumer has pulled the data into recv_buffer and answered.  The        *)
(* consumer polls recv_ready, takes the buffer and then waits for the      *)
(* closing message of the RPC.                                             *)
(*                                                                         *)
(* A resolved address is named by its consumer, a file by its consumer and *)
(* the number of the fetch.  In the code margo_addr_lookup() takes a       *)
(* reference and margo_addr_free() gives it back: refs counts both.        *)
(***************************************************************************)
EXTENDS Integers

CONSTANTS
    Consumers,    \* consumer processes
    None,         \* NULL
    MaxFetches    \* bound on the fetches of one consumer

ASSUME MargoAssumption ==
    /\ MaxFetches \in Nat
    /\ None \notin Consumers
    /\ None \notin Consumers \X (1..MaxFetches)

File == Consumers \X (1..MaxFetches)

VARIABLES
    phase,        \* the module's handle: before init, in use, finalized (or the
                  \* broker died)
    remote_addr,  \* the handle's remote_addr
    addr_cache,   \* consumers whose address is cached
    refs,         \* references taken minus references given back, per address
    requests,     \* requests on their way to the module, and how each is served
    detached,     \* requests in the worker pool: file and address taken along
    sending,      \* what the reactor is serving or pushing, or None
    cpc,          \* where each consumer is in dyad_get_data()
    nth,          \* fetches each consumer has begun
    hpc,          \* where its data_ready_rpc() is
    incoming,     \* file that the running data_ready_rpc() was called for
    recv_buffer,  \* its receive buffer: None or the file in it
    recv_ready,   \* its recv_ready
    reply,        \* closing message of its current RPC
    got,          \* file taken out of the buffer by its current fetch
    rc            \* what its last fetch returned

moduleVars == <<phase, remote_addr, addr_cache, refs, requests, detached, sending>>
consumerVars == <<cpc, nth, hpc, incoming, recv_buffer, recv_ready, reply, got, rc>>
vars == <<moduleVars, consumerVars>>

Request == [file : File, how : {"inline", "detached"}]
Detached == [file : File, addr : Consumers]
Sending == [file : File, to : Consumers, st : {"read", "forward", "pushed", "answered"}]

TypeOK ==
    /\ phase \in {"new", "up", "failed", "gone"}
    /\ remote_addr \in Consumers \cup {None}
    /\ addr_cache \in SUBSET Consumers
    /\ refs \in [Consumers -> Int]
    /\ requests \in SUBSET Request
    /\ detached \in SUBSET Detached
    /\ sending \in Sending \cup {None}
    /\ cpc \in [Consumers -> {"idle", "recv", "reset", "eos", "dead"}]
    /\ nth \in [Consumers -> 0..MaxFetches]
    /\ hpc \in [Consumers -> {"idle", "alloc", "pull", "respond", "ready"}]
    /\ incoming \in [Consumers -> File \cup {None}]
    /\ recv_buffer \in [Consumers -> File \cup {None}]
    /\ recv_ready \in [Consumers -> BOOLEAN]
    /\ reply \in [Consumers -> {"none", "ENODATA", "error"}]
    /\ got \in [Consumers -> File \cup {None}]
    /\ rc \in [Consumers -> {"none", "OK", "error"}]

Init ==
    /\ phase = "new"
    /\ remote_addr = None
    /\ addr_cache = {}
    /\ refs = [c \in Consumers |-> 0]
    /\ requests = {}
    /\ detached = {}
    /\ sending = None
    /\ cpc = [c \in Consumers |-> "idle"]
    /\ nth = [c \in Consumers |-> 0]
    /\ hpc = [c \in Consumers |-> "idle"]
    /\ incoming = [c \in Consumers |-> None]
    /\ recv_buffer = [c \in Consumers |-> None]
    /\ recv_ready = [c \in Consumers |-> FALSE]
    /\ reply = [c \in Consumers |-> "none"]
    /\ got = [c \in Consumers |-> None]
    /\ rc = [c \in Consumers |-> "none"]

-----------------------------------------------------------------------------
(* The handle of the module.                                               *)

\* dyad_dtl_margo_init() in DYAD_COMM_SEND mode: the fields are cleared, the
\* protocol is looked for, Margo is started and the operations are set.
DtlInit ==
    /\ phase = "new"
    /\ phase' = "up"
    /\ UNCHANGED <<remote_addr, addr_cache, refs, requests, detached, sending, consumerVars>>

\* The protocol, margo_init() or margo_addr_self() fails: the handle is freed
\* and the module does not load, so no request is ever answered.
DtlInitFails ==
    /\ phase = "new"
    /\ phase' = "failed"
    /\ UNCHANGED <<remote_addr, addr_cache, refs, requests, detached, sending, consumerVars>>

\* dyad_dtl_margo_finalize(), when the module is unloaded: remote_addr and
\* every cached address are given back.
Finalize ==
    /\ phase = "up"
    /\ sending = None
    /\ phase' = "gone"
    /\ refs' = [c \in Consumers |->
                    refs[c] - (IF c \in addr_cache THEN 1 ELSE 0)
                            - (IF c = remote_addr THEN 1 ELSE 0)]
    /\ addr_cache' = {}
    /\ UNCHANGED <<remote_addr, requests, detached, sending, consumerVars>>

\* Variant: the address is resolved anew for every request.
LookupAlways(c) ==
    /\ addr_cache' = addr_cache \cup {c}
    /\ refs' = [refs EXCEPT ![c] = @ + 1]

\* dyad_dtl_margo_addr_cache_lookup(): an address is resolved once and then
\* found in the cache.
AddrCacheLookup(c) ==
    /\ addr_cache' = addr_cache \cup {c}
    /\ refs' = IF c \in addr_cache THEN refs ELSE [refs EXCEPT ![c] = @ + 1]

\* flux_respond_error(): the closing message of the request.
Respond(f, msg) == reply' = [reply EXCEPT ![f[1]] = msg]

-----------------------------------------------------------------------------
(* The request callbacks.  They run on the reactor, which serves nothing   *)
(* else while a push is under way.                                         *)

ReactorFree == phase = "up" /\ sending = None

\* rpc_unpack() of a request that is served inside the callback.
Unpack(r) ==
    /\ ReactorFree
    /\ r \in requests
    /\ r.how = "inline"
    /\ requests' = requests \ {r}
    /\ AddrCacheLookup(r.file[1])
    /\ remote_addr' = r.file[1]
    /\ sending' = [file |-> r.file, to |-> r.file[1], st |-> "read"]
    /\ UNCHANGED <<phase, detached, consumerVars>>

\* The message, the lookup, or the growing of the cache fails (an address
\* that was looked up for it is given back).  remote_addr keeps what it was.
UnpackFails(r) ==
    /\ ReactorFree
    /\ r \in requests
    /\ requests' = requests \ {r}
    /\ Respond(r.file, "error")
    /\ UNCHANGED <<phase, remote_addr, addr_cache, refs, detached, sending,
                   cpc, nth, hpc, incoming, recv_buffer, recv_ready, got, rc>>

\* Variant: the address stays in the handle and is read there when the
\* request is sent.
DetachShares(r) ==
    /\ ReactorFree
    /\ r \in requests
    /\ r.how = "detached"
    /\ requests' = requests \ {r}
    /\ AddrCacheLookup(r.file[1])
    /\ remote_addr' = r.file[1]
    /\ detached' = {[d EXCEPT !.addr = r.file[1]] :
                       d \in detached \cup {[file |-> r.file, addr |-> r.file[1]]}}
    /\ UNCHANGED <<phase, sending, consumerVars>>

\* rpc_unpack_range() followed by rpc_detach_request(): the item takes the
\* address out of the handle.
Detach(r) ==
    /\ ReactorFree
    /\ r \in requests
    /\ r.how = "detached"
    /\ requests' = requests \ {r}
    /\ AddrCacheLookup(r.file[1])
    /\ remote_addr' = None
    /\ detached' = detached \cup {[file |-> r.file, addr |-> r.file[1]]}
    /\ UNCHANGED <<phase, sending, consumerVars>>

\* The request state cannot be allocated, which leaves the address in the
\* handle, or the buffer cannot, when the state is freed again.
DetachFails(r) ==
    /\ ReactorFree
    /\ r \in requests
    /\ r.how = "detached"
    /\ requests' = requests \ {r}
    /\ AddrCacheLookup(r.file[1])
    /\ remote_addr' \in {r.file[1], None}
    /\ Respond(r.file, "error")
    /\ UNCHANGED <<phase, detached, sending,
                   cpc, nth, hpc, incoming, recv_buffer, recv_ready, got, rc>>

\* The file was read: dyad_dtl_margo_send() to the address in the handle.
Send ==
    /\ sending # None
    /\ sending.st = "read"
    /\ sending' = [sending EXCEPT !.st = "forward", !.to = remote_addr]
    /\ UNCHANGED <<phase, remote_addr, addr_cache, refs, requests, detached, consumerVars>>

\* The file cannot be opened, locked or read, or get_buffer() fails.
ReadFails ==
    /\ sending # None
    /\ sending.st = "read"
    /\ Respond(sending.file, "error")
    /\ sending' = None
    /\ UNCHANGED <<phase, remote_addr, addr_cache, refs, requests, detached,
                   cpc, nth, hpc, incoming, recv_buffer, recv_ready, got, rc>>

\* Variant: the address is given back after the send.
SendDetachedFrees(d) ==
    /\ ReactorFree
    /\ d \in detached
    /\ detached' = detached \ {d}
    /\ sending' = [file |-> d.file, to |-> d.addr, st |-> "forward"]
    /\ refs' = [refs EXCEPT ![d.addr] = @ - 1]
    /\ UNCHANGED <<phase, remote_addr, addr_cache, requests, consumerVars>>

\* dyad_dtl_margo_send_detached(), called by the completion watcher.
SendDetached(d) ==
    /\ ReactorFree
    /\ d \in detached
    /\ detached' = detached \ {d}
    /\ sending' = [file |-> d.file, to |-> d.addr, st |-> "forward"]
    /\ UNCHANGED <<phase, remote_addr, addr_cache, refs, requests, consumerVars>>

\* Variant: the item is freed and its stream left open.
AbortDetachedSilent(d) ==
    /\ ReactorFree
    /\ d \in detached
    /\ detached' = detached \ {d}
    /\ UNCHANGED <<phase, remote_addr, addr_cache, refs, requests, sending, consumerVars>>

\* The worker could not read the range: dyad_dtl_margo_abort_detached().
AbortDetached(d) ==
    /\ ReactorFree
    /\ d \in detached
    /\ detached' = detached \ {d}
    /\ Respond(d.file, "error")
    /\ UNCHANGED <<phase, remote_addr, addr_cache, refs, requests, sending,
                   cpc, nth, hpc, incoming, recv_buffer, recv_ready, got, rc>>

\* margo_forward(): the consumer's data_ready_rpc() is started.
Forward ==
    /\ sending # None
    /\ sending.st = "forward"
    /\ cpc[sending.to] # "dead"
    /\ hpc[sending.to] = "idle"
    /\ sending' = [sending EXCEPT !.st = "pushed"]
    /\ hpc' = [hpc EXCEPT ![sending.to] = "alloc"]
    /\ incoming' = [incoming EXCEPT ![sending.to] = sending.file]
    /\ UNCHANGED <<phase, remote_addr, addr_cache, refs, requests, detached,
                   cpc, nth, recv_buffer, recv_ready, reply, got, rc>>

\* dyad_dtl_margo_send_to() returns after the answer; the stream is closed.
ForwardDone ==
    /\ sending # None
    /\ sending.st = "answered"
    /\ Respond(sending.file, "ENODATA")
    /\ sending' = None
    /\ UNCHANGED <<phase, remote_addr, addr_cache, refs, requests, detached,
                   cpc, nth, hpc, incoming, recv_buffer, recv_ready, got, rc>>

\* Variant: a push that failed is tried again.
ForwardRetries ==
    /\ sending # None
    /\ sending.st \in {"forward", "pushed", "answered"}
    /\ sending' = [sending EXCEPT !.st = "forward"]
    /\ UNCHANGED <<phase, remote_addr, addr_cache, refs, requests, detached, consumerVars>>

\* One of the calls of dyad_dtl_margo_send_to() fails, before, during or
\* after the consumer's handler: a consumer may have the data and still be
\* told of an error.
ForwardFails ==
    /\ sending # None
    /\ sending.st \in {"forward", "pushed", "answered"}
    /\ Respond(sending.file, "error")
    /\ sending' = None
    /\ UNCHANGED <<phase, remote_addr, addr_cache, refs, requests, detached,
                   cpc, nth, hpc, incoming, recv_buffer, recv_ready, got, rc>>

\* margo_bulk_create() or margo_create() fails: the error exits test and then
\* free local_bulk or mh, which nothing has set.  Where the stack does not
\* happen to hold a null handle this ends the broker.
SendCrashes ==
    /\ sending # None
    /\ sending.st = "forward"
    /\ phase' = "gone"
    /\ sending' = None
    /\ UNCHANGED <<remote_addr, addr_cache, refs, requests, detached, consumerVars>>

-----------------------------------------------------------------------------
(* data_ready_rpc() on the consumer, in an execution stream of its own.    *)

HandlerAlloc(c) ==
    /\ hpc[c] = "alloc"
    /\ hpc' = [hpc EXCEPT ![c] = "pull"]
    /\ recv_buffer' = [recv_buffer EXCEPT ![c] = None]
    /\ UNCHANGED <<moduleVars, cpc, nth, incoming, recv_ready, reply, got, rc>>

HandlerPull(c) ==
    /\ hpc[c] = "pull"
    /\ hpc' = [hpc EXCEPT ![c] = "respond"]
    /\ recv_buffer' = [recv_buffer EXCEPT ![c] = incoming[c]]
    /\ UNCHANGED <<moduleVars, cpc, nth, incoming, recv_ready, reply, got, rc>>

\* margo_respond(): the reactor goes on, if it still waits for this answer.
HandlerRespond(c) ==
    /\ hpc[c] = "respond"
    /\ hpc' = [hpc EXCEPT ![c] = "ready"]
    /\ sending' = IF sending # None /\ sending.to = c /\ sending.st = "pushed"
                  THEN [sending EXCEPT !.st = "answered"] ELSE sending
    /\ UNCHANGED <<phase, remote_addr, addr_cache, refs, requests, detached,
                   cpc, nth, incoming, recv_buffer, recv_ready, reply, got, rc>>

HandlerReady(c) ==
    /\ hpc[c] = "ready"
    /\ hpc' = [hpc EXCEPT ![c] = "idle"]
    /\ recv_ready' = [recv_ready EXCEPT ![c] = TRUE]
    /\ UNCHANGED <<moduleVars, cpc, nth, incoming, recv_buffer, reply, got, rc>>

\* A Mercury call fails: assert() ends the consumer process.
HandlerAborts(c) ==
    /\ hpc[c] \in {"alloc", "pull", "respond"}
    /\ hpc' = [hpc EXCEPT ![c] = "idle"]
    /\ cpc' = [cpc EXCEPT ![c] = "dead"]
    /\ UNCHANGED <<moduleVars, nth, incoming, recv_buffer, recv_ready, reply, got, rc>>

-----------------------------------------------------------------------------
(* dyad_get_data() and dyad_get_data_range() of a consumer.                *)

\* rpc_pack() with the consumer's own address, and the RPC.  The response
\* and the connection are no steps of Margo: it goes on to recv().
Call(c, how) ==
    /\ cpc[c] = "idle"
    /\ nth[c] < MaxFetches
    /\ nth' = [nth EXCEPT ![c] = @ + 1]
    /\ requests' = requests \cup {[file |-> <<c, nth[c] + 1>>, how |-> how]}
    /\ reply' = [reply EXCEPT ![c] = "none"]
    /\ got' = [got EXCEPT ![c] = None]
    /\ rc' = [rc EXCEPT ![c] = "none"]
    /\ cpc' = [cpc EXCEPT ![c] = "recv"]
    /\ UNCHANGED <<phase, remote_addr, addr_cache, refs, detached, sending,
                   hpc, incoming, recv_buffer, recv_ready>>

\* The address cannot be printed, the object not be packed, or the RPC not
\* be sent.
CallFails(c) ==
    /\ cpc[c] = "idle"
    /\ nth[c] < MaxFetches
    /\ nth' = [nth EXCEPT ![c] = @ + 1]
    /\ rc' = [rc EXCEPT ![c] = "error"]
    /\ UNCHANGED <<moduleVars, cpc, hpc, incoming, recv_buffer, recv_ready, reply, got>>

\* dyad_dtl_margo_recv(): once recv_ready is set the buffer is copied and
\* freed, and then recv_ready is cleared.
Recv(c) ==
    /\ cpc[c] = "recv"
    /\ recv_ready[c]
    /\ got' = [got EXCEPT ![c] = recv_buffer[c]]
    /\ recv_buffer' = [recv_buffer EXCEPT ![c] = None]
    /\ cpc' = [cpc EXCEPT ![c] = "reset"]
    /\ UNCHANGED <<moduleVars, nth, hpc, incoming, recv_ready, reply, rc>>

RecvReset(c) ==
    /\ cpc[c] = "reset"
    /\ recv_ready' = [recv_ready EXCEPT ![c] = FALSE]
    /\ cpc' = [cpc EXCEPT ![c] = "eos"]
    /\ UNCHANGED <<moduleVars, nth, hpc, incoming, recv_buffer, reply, got, rc>>

\* flux_rpc_get() at the end of dyad_get_data(): only ENODATA is success.
EndOfStream(c) ==
    /\ cpc[c] = "eos"
    /\ reply[c] # "none"
    /\ rc' = [rc EXCEPT ![c] = IF reply[c] = "ENODATA" THEN "OK" ELSE "error"]
    /\ cpc' = [cpc EXCEPT ![c] = "idle"]
    /\ UNCHANGED <<moduleVars, nth, hpc, incoming, recv_buffer, recv_ready, reply, got>>

-----------------------------------------------------------------------------
\* The reactor has something to do and does it, well or badly.
Reactor ==
    \/ \E r \in requests : Unpack(r) \/ UnpackFails(r) \/ Detach(r) \/ DetachFails(r)
    \/ \E d \in detached : SendDetached(d) \/ AbortDetached(d)
    \/ Send \/ ReadFails \/ Forward \/ ForwardDone \/ ForwardFails

Handler(c) == HandlerAlloc(c) \/ HandlerPull(c) \/ HandlerRespond(c) \/ HandlerReady(c)

Client(c) == Recv(c) \/ RecvReset(c) \/ EndOfStream(c)

Next ==
    \/ DtlInit \/ DtlInitFails \/ Finalize \/ SendCrashes
    \/ Reactor
    \/ \E c \in Consumers :
        \/ Handler(c) \/ HandlerAborts(c)
        \/ \E how \in {"inline", "detached"} : Call(c, how)
        \/ CallFails(c)
        \/ Client(c)

Spec == Init /\ [][Next]_vars

\* margo_forward() waits for the handler of a consumer that is alive.
AwaitsHandler ==
    /\ sending # None
    /\ sending.st \in {"forward", "pushed"}
    /\ cpc[sending.to] # "dead" /\ hpc[sending.to] # "idle"

(***************************************************************************)
(* The reactor runs as long as the module is loaded; handlers and clients  *)
(* that can go on do.  Nobody has to call.  No failure ends the wait for a *)
(* handler that runs, but margo_forward() to a consumer that has died      *)
(* returns with an error.                                                  *)
(***************************************************************************)
FairSpec ==
    /\ Spec
    /\ WF_vars(~AwaitsHandler /\ Reactor)
    /\ \A c \in Consumers : WF_vars(Handler(c)) /\ WF_vars(Client(c))
-----------------------------------------------------------------------------
(* Properties.                                                             *)

\* A fetch that returns DYAD_RC_OK hands over the file that was asked for,
\* whatever other requests went through the handle's remote_addr, the cache
\* and the worker pool in the meantime.
OkMeansMyFile ==
    \A c \in Consumers :
        cpc[c] = "idle" /\ rc[c] = "OK" => got[c] = <<c, nth[c]>>

\* data_ready_rpc() takes over recv_buffer and recv_ready without a test: a
\* push may arrive only at a consumer that waits with both of them clear, or
\* data nobody has read is lost and its memory leaks.
PushFindsBufferFree ==
    \A c \in Consumers :
        hpc[c] # "idle" => /\ cpc[c] = "recv"
                           /\ ~recv_ready[c]
                           /\ hpc[c] \in {"alloc", "pull"} => recv_buffer[c] = None

\* The address cache owns the addresses: each consumer's is resolved once and
\* stays resolved as long as the handle, a detached request or a send uses it.
UsedAddressIsLive ==
    phase = "up" =>
        /\ \A c \in Consumers : refs[c] = IF c \in addr_cache THEN 1 ELSE 0
        /\ remote_addr # None => remote_addr \in addr_cache
        /\ \A d \in detached : d.addr \in addr_cache
        /\ sending # None => sending.to \in addr_cache

\* Every request the module gets is closed, unless it is unloaded or dies: none
\* is forgotten between the callback, the pool, the push and the watcher.
RequestIsClosed ==
    \A c \in Consumers :
        phase = "up" /\ cpc[c] = "recv" ~> reply[c] # "none" \/ phase = "gone"

\* The one handle of the module, shared by all requests, never refers to an
\* address that has been given back.
HandleSound == TypeOK /\ UsedAddressIsLive
=============================================================================
