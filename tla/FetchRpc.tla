------------------------------ MODULE FetchRpc -------------------------------
(***************************************************************************)
(* The two ends of a fetch together: dyad_get_data() and                   *)
(* dyad_get_data_range() on the consumer (src/dyad/client/dyad_client.c)   *)
(* against the service of FetchPool on the producer's broker.  The client  *)
(* calls recv() of the DTL for the data, then waits for one more RPC       *)
(* message that must be ENODATA.  With the Flux DTL recv() reads the same  *)
(* RPC stream; with Margo it waits for the data to be pushed by the        *)
(* data_ready RPC and does not look at the stream.                         *)
(***************************************************************************)
EXTENDS FetchPool

VARIABLES client,  \* where the client of each request is, or its return code
          nread    \* messages of the stream the client has taken

rpcVars == <<vars, client, nread>>

Returned == {"OK", "RPC_FINISHED", "BADRPC", "SYSFAIL"}

RpcTypeOK ==
    /\ client \in [Requests -> {"idle", "recv", "eos", "nobuf"} \cup Returned]
    /\ nread \in [Requests -> 0..2]

RpcInit ==
    /\ Init
    /\ client = [r \in Requests |-> "idle"]
    /\ nread = [r \in Requests |-> 0]

\* rpc_pack() and flux_rpc_pack(), either of which may fail before anything
\* is sent; establish_connection() does nothing on the receiving side.
ClientCall(r) ==
    /\ client[r] = "idle"
    /\ \E to \in {"recv", "BADRPC"} : client' = [client EXCEPT ![r] = to]
    /\ UNCHANGED <<vars, nread>>

\* Variant: the end of the stream taken for an empty file.
RecvFluxEmptyOk(r) ==
    /\ dtl = "flux"
    /\ Len(stream[r]) > nread[r]
    /\ nread' = [nread EXCEPT ![r] = @ + 1]
    /\ client' = [client EXCEPT ![r] =
                    CASE stream[r][nread[r] + 1] = "data" -> "eos"
                      [] stream[r][nread[r] + 1] = "ENODATA" -> "OK"
                      [] stream[r][nread[r] + 1] = "error" -> "BADRPC"]

\* Variant: an error message is skipped and recv() waits for the next one.
RecvFluxSkipsError(r) ==
    /\ dtl = "flux"
    /\ Len(stream[r]) > nread[r]
    /\ nread' = [nread EXCEPT ![r] = @ + 1]
    /\ client' = [client EXCEPT ![r] =
                    IF stream[r][nread[r] + 1] = "data" THEN "eos" ELSE "recv"]

\* dyad_dtl_flux_recv(): the next message of the stream decides.  When there
\* is no buffer for the data, the client still waits for the end of stream.
RecvFlux(r) ==
    /\ dtl = "flux"
    /\ Len(stream[r]) > nread[r]
    /\ nread' = [nread EXCEPT ![r] = @ + 1]
    /\ LET msg == stream[r][nread[r] + 1]
       IN  \E to \in CASE msg = "data" -> {"eos", "nobuf"}
                      [] msg = "ENODATA" -> {"RPC_FINISHED"}
                      [] msg = "error" -> {"BADRPC"} :
             client' = [client EXCEPT ![r] = to]

\* dyad_dtl_margo_recv(): polls recv_ready, which only data_ready_rpc() sets.
RecvMargo(r) ==
    /\ dtl = "margo"
    /\ Len(stream[r]) > nread[r]
    /\ stream[r][nread[r] + 1] = "data"
    /\ nread' = [nread EXCEPT ![r] = @ + 1]
    /\ client' = [client EXCEPT ![r] = "eos"]

ClientRecv(r) ==
    /\ client[r] = "recv"
    /\ RecvFlux(r) \/ RecvMargo(r)
    /\ UNCHANGED vars

\* get_done: one more message, which has to be ENODATA.
ClientEndOfStream(r) ==
    /\ client[r] \in {"eos", "nobuf"}
    /\ Len(stream[r]) > nread[r]
    /\ nread' = [nread EXCEPT ![r] = @ + 1]
    /\ client' = [client EXCEPT ![r] =
                    IF stream[r][nread[r] + 1] # "ENODATA" THEN "BADRPC"
                    ELSE IF @ = "eos" THEN "OK" ELSE "SYSFAIL"]
    /\ UNCHANGED vars

\* A step of the module; a request reaches it only after its client's call.
ModuleStep ==
    /\ Next
    /\ \A r \in arrived' \ arrived : client[r] = "recv"
    /\ UNCHANGED <<client, nread>>

Deliver(r) ==
    /\ client[r] = "recv"
    /\ RejectRequest(r) \/ ServeInline(r) \/ (r \in RangeRequests /\ EnqueueRange(r))
    /\ UNCHANGED <<client, nread>>

RpcNext ==
    \/ ModuleStep
    \/ \E r \in Requests : ClientCall(r) \/ ClientRecv(r) \/ ClientEndOfStream(r)

(***************************************************************************)
(* On top of FetchPool's fairness: Flux delivers a request that was sent,  *)
(* the reactor runs its callback, and a client that can go on does.        *)
(***************************************************************************)
RpcSpec ==
    /\ RpcInit
    /\ [][RpcNext]_rpcVars
    /\ Fairness
    /\ \A r \in Requests :
        /\ WF_rpcVars(Deliver(r))
        /\ WF_rpcVars(ClientRecv(r) \/ ClientEndOfStream(r))

-----------------------------------------------------------------------------
\* dyad_get_data() reports success only for a fetch the module served: the
\* client got the data and the whole stream, and no worker failure, failed
\* send or abort is ever mistaken for a success.
OkMeansServed ==
    \A r \in Requests : client[r] = "OK" =>
        /\ stream[r] = <<"data", "ENODATA">>
        /\ itemRc[r] # "error"
        /\ ~InFlight(r)

\* As long as the module stays loaded dyad_get_data() comes back, with the
\* data or with an error, whatever happened in the module: always over Flux
\* RPC, where recv() looks at the RPC stream; over Margo, where recv() only
\* polls recv_ready, whenever the data was pulled.
ServedClientReturns ==
    \A r \in Requests :
        (client[r] = "recv" /\ (dtl = "flux" \/ (stream[r] # <<>> /\ stream[r][1] = "data")))
            ~> (client[r] \in Returned \/ phase # "running")

\* Through callback, work queue, worker, completion queue and watcher, every
\* request that was accepted is in one place until its stream is closed, and in
\* none afterwards: at most one data message and one closing message go out, an
\* open request is never dropped, and its item and its detached state are used
\* up once.
RequestsAccounted ==
    TypeOK /\ RpcTypeOK /\ StreamWellFormed /\ OpenIsInFlight /\ ItemReleasedOnce
=============================================================================
