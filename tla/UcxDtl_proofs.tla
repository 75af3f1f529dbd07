---------------------------- MODULE UcxDtl_proofs ----------------------------
(***************************************************************************)
(* Proofs about the UCX transport, for any consumers, pids and number of   *)
(* fetches.                                                                *)
(***************************************************************************)
EXTENDS UcxDtl, TLAPS

\* A request that is on its way or being served was made by a consumer, in
\* its current fetch; a consumer past recv() has something in its buffer.
RequestInv ==
    /\ \A c \in pending : nth[c] # 0
    /\ cb # "idle" => cur \in Consumers /\ nth[cur] # 0
    /\ \A c \in Consumers : cpc[c] \in {"eos", "store"} => net_buf[c] # Zero

\* Until the endpoint is there, the handle has the address and the key of the
\* request being served.
HandleInv ==
    cb \in {"read", "connect"} =>
        h.remote_address = cur /\ h.consumer_conn_key = Pid[cur]

TypeInv == TypeOK /\ RequestInv /\ HandleInv
CacheInv == TypeInv /\ EndpointsAreCached

LEMMA HandleFields ==
    ASSUME h \in Handle
    PROVE  /\ h.ep \in Consumers \cup {None}
           /\ h.remote_address \in Consumers \cup {None}
           /\ h.rkey_buf \in Consumers \cup {None}
           /\ h.consumer_conn_key \in Pids \cup {None}
  BY DEF Handle

LEMMA TypeInvInit == Init => TypeInv
  <1> SUFFICES ASSUME Init PROVE TypeInv
    OBVIOUS
  <1>1. h \in Handle
    BY DEF Init, NewHandle, Handle
  <1>2. skipped \in BOOLEAN
    BY Zenon DEF Init
  <1> QED
    BY <1>1, <1>2, UcxAssumption DEF Init, TypeInv, TypeOK, RequestInv, HandleInv

LEMMA TypeInvStep == TypeInv /\ [Next]_vars => TypeInv'
  <1> SUFFICES ASSUME TypeInv, [Next]_vars PROVE TypeInv'
    OBVIOUS
  <1> USE DEF TypeInv, TypeOK, RequestInv, HandleInv
  <1>1. CASE DtlInit
    BY <1>1 DEF DtlInit, Warmup, consumerVars, Handle
  <1>2. CASE Finalize
    BY <1>2 DEF Finalize, CacheFinalize, NewHandle, consumerVars, Handle
  <1>3. ASSUME NEW c \in Consumers, Unpack(c) PROVE TypeInv'
    <2>1. Pid[c] \in Pids
      BY DEF Pids
    <2>2. h' \in Handle
      BY <1>3, <2>1 DEF Unpack, Handle
    <2>3. HandleInv'
      BY <1>3 DEF Unpack, RespondError, Handle
    <2>4. RequestInv'
      BY <1>3 DEF Unpack, RespondError
    <2>5. TypeOK'
      BY <1>3, <2>2 DEF Unpack, RespondError
    <2> QED
      BY <2>3, <2>4, <2>5
  <1>4. CASE ReadFile
    BY <1>4 DEF ReadFile, RespondError
  <1>5. CASE Establish
    <2>1. h.consumer_conn_key \in Pids /\ h.remote_address \in Consumers
      BY <1>5 DEF Establish, Pids
    <2>2. h' \in Handle /\ ep_cache' \in [Pids -> Consumers \cup {None}]
      BY <1>5, <2>1 DEF Establish, Find, Insert, Connect, Handle
    <2> QED
      BY <1>5, <2>1, <2>2 DEF Establish, Find, Insert, Connect, RespondError
  <1>6. CASE Send
    <2>1. h' \in Handle
      BY <1>6, HandleFields DEF Send, Put, PutFails, Handle
    <2>2. <<cur, nth[cur]>> \in File
      BY <1>6, UcxAssumption DEF Send, File
    <2>3. <<cur, nth[cur]>> # Zero
      BY <2>2, UcxAssumption DEF File
    <2> QED
      BY <1>6, <2>1, <2>2, <2>3 DEF Send, Put, PutFails, RespondError
  <1>7. CASE CloseConnection
    BY <1>7 DEF CloseConnection, Handle
  <1>8. ASSUME NEW c \in Consumers, Pack(c) PROVE TypeInv'
    BY <1>8, UcxAssumption DEF Pack, moduleVars
  <1>9. ASSUME NEW c \in Consumers, Recv(c) \/ EndOfStream(c) \/ Store(c) PROVE TypeInv'
    BY <1>9 DEF Recv, EndOfStream, Store, moduleVars
  <1>10. CASE UNCHANGED vars
    BY <1>10 DEF vars, moduleVars, consumerVars
  <1> QED
    BY <1>1, <1>2, <1>3, <1>4, <1>5, <1>6, <1>7, <1>8, <1>9, <1>10 DEF Next, Callback, Consumer

\* Types of the transport's state: an endpoint in the handle or in the cache
\* always leads to a consumer, never back to the module, and what dyad_get_data()
\* hands over is always some file, never the reset word of a buffer.
THEOREM UcxTypeCorrect == Spec => []TypeOK
  <1>1. TypeInv => TypeOK
    BY DEF TypeInv
  <1> QED
    BY <1>1, TypeInvInit, TypeInvStep, PTL DEF Spec

\* Distinct consumers have distinct pids, as consumers of one node do.
PidsDistinct == \A c, d \in Consumers : Pid[c] = Pid[d] => c = d

LEMMA CacheInvStep == CacheInv /\ [Next]_vars => CacheInv'
  <1> SUFFICES ASSUME CacheInv, [Next]_vars PROVE CacheInv'
    OBVIOUS
  <1>1. TypeInv'
    BY TypeInvStep DEF CacheInv
  <1> SUFFICES EndpointsAreCached'
    BY <1>1 DEF CacheInv
  <1> USE DEF CacheInv, EndpointsAreCached
  <1>2. CASE DtlInit
    BY <1>2 DEF DtlInit, Warmup
  <1>3. CASE Finalize
    BY <1>3, UcxAssumption DEF Finalize, CacheFinalize
  <1>4. CASE Establish
    <2>1. CASE Find
      BY <1>4, <2>1 DEF Find
    <2>2. CASE Insert
      <3> DEFINE k == h.consumer_conn_key
                 a == h.remote_address
      <3>1. k \in Pids /\ a \in Consumers /\ k = Pid[a]
        BY <1>4 DEF Establish, TypeInv, HandleInv, RequestInv, Pids
      <3>2. CASE UNCHANGED <<ep_cache, open>>
        BY <3>2
      <3>3. CASE /\ ep_cache[k] = None
                 /\ ep_cache' = [ep_cache EXCEPT ![k] = a]
                 /\ open' = open \cup {a}
        BY <3>1, <3>3, UcxAssumption DEF TypeInv, TypeOK
      <3> QED
        BY <2>2, <3>2, <3>3 DEF Insert, Connect
    <2> QED
      BY <1>4, <2>1, <2>2 DEF Establish
  <1>5. CASE UNCHANGED <<ep_cache, open>>
    BY <1>5
  <1> QED
    BY <1>2, <1>3, <1>4, <1>5 DEF Next, Callback, Consumer, Unpack, ReadFile, Send,
       CloseConnection, Pack, Recv, EndOfStream, Store, moduleVars, vars

LEMMA CacheInvInit == Init => CacheInv
  BY TypeInvInit DEF Init, CacheInv, EndpointsAreCached

\* dyad_ucx_ep_cache_insert() and _finalize(): for any consumers, also such as
\* share a pid, and whatever fails, the endpoints that are open are those of
\* the cache, each under the pid of the consumer it leads to.
THEOREM CacheOwnsEndpoints == Spec => []EndpointsAreCached
  <1>1. CacheInv => EndpointsAreCached
    BY DEF CacheInv
  <1> QED
    BY <1>1, CacheInvInit, CacheInvStep, PTL DEF Spec

LEMMA FreshStep ==
    ASSUME PidsDistinct, CacheInv, [Next]_vars,
           cb = "connect", cb' = "send", h.ep = None
    PROVE  h'.ep = cur
  <1>1. Establish
    BY DEF Next, Callback, Consumer, DtlInit, Finalize, Unpack, ReadFile, Send, RespondError,
       CloseConnection, Pack, Recv, EndOfStream, Store, moduleVars, vars
  <1>2. /\ h \in Handle
        /\ cur \in Consumers
        /\ h.remote_address = cur
        /\ h.consumer_conn_key = Pid[cur]
        /\ Pid[cur] \in Pids
        /\ ep_cache[Pid[cur]] \in Consumers \cup {None}
    BY DEF CacheInv, TypeInv, TypeOK, RequestInv, HandleInv, Pids
  <1>3. CASE Find
    <2>1. h'.ep = ep_cache[Pid[cur]] /\ ep_cache[Pid[cur]] # None
      BY <1>2, <1>3 DEF Find, Handle
    <2>2. Pid[ep_cache[Pid[cur]]] = Pid[cur]
      BY <1>2, <2>1 DEF CacheInv, EndpointsAreCached
    <2> QED
      BY <1>2, <2>1, <2>2 DEF PidsDistinct
  <1>4. CASE Insert
    BY <1>2, <1>4 DEF Insert, Connect, RespondError, Handle
  <1> QED
    BY <1>1, <1>3, <1>4 DEF Establish

\* dyad_dtl_ucx_establish_connection(): if no two consumers have the same pid,
\* a request that starts with a clean handle is connected to its own consumer,
\* however many requests failed or connected before.
THEOREM FreshConnection ==
    ASSUME PidsDistinct
    PROVE  Spec => FreshConnectionIsRequesters
  <1>1. CacheInv /\ [Next]_vars
            => [cb = "connect" /\ cb' = "send" /\ h.ep = None => h'.ep = cur]_vars
    BY FreshStep
  <1> QED
    BY <1>1, CacheInvInit, CacheInvStep, PTL DEF Spec, FreshConnectionIsRequesters

-----------------------------------------------------------------------------
\* As long as every connection was closed again: the handle has an endpoint only
\* while a file is put, and it is the requester's; the request is being answered
\* once; and what is in a consumer's buffer is the file of its current fetch.
\* ClosedOkMeansMyFile rests on all three: a late put or a second answer would
\* change the buffer under a consumer that is past recv().
FileInv ==
    /\ cb \in {"idle", "read", "connect"} => h.ep = None
    /\ cb \in {"send", "close"} => h.ep = cur
    /\ cb # "idle" =>
        cpc[cur] \in {"poll", "eos"} /\ reply[cur] = "none" /\ cur \notin pending
    /\ \A c \in pending : cpc[c] = "poll" /\ reply[c] = "none" /\ net_buf[c] = Zero
    /\ \A c \in Consumers :
        /\ cpc[c] = "poll" => net_buf[c] \in {Zero, <<c, nth[c]>>}
        /\ cpc[c] \in {"eos", "store"} => net_buf[c] = <<c, nth[c]>>
        /\ got[c] # None => got[c] = <<c, nth[c]>>

ClosedInv == skipped \/ FileInv

\* Where consumers have pids of their own, every step keeps the handle and the
\* buffers in this state until a callback leaves a connection behind.
LEMMA FileInvStep ==
    ASSUME PidsDistinct, CacheInv, ClosedInv, [Next]_vars
    PROVE  ClosedInv'
  <1> SUFFICES ASSUME ~skipped, FileInv, ~skipped' PROVE FileInv'
    <2>1. skipped \in BOOLEAN /\ (skipped => skipped')
      BY DEF CacheInv, TypeInv, TypeOK, Next, DtlInit, Finalize, Callback, Unpack, ReadFile,
         Establish, Send, CloseConnection, Consumer, Pack, Recv, EndOfStream, Store,
         consumerVars, moduleVars, vars
    <2> QED
      BY <2>1 DEF ClosedInv
  <1> USE DEF FileInv, CacheInv, TypeInv, TypeOK, RequestInv
  <1>1. CASE DtlInit
    BY <1>1 DEF DtlInit, consumerVars, Handle
  <1>2. CASE Finalize
    BY <1>2 DEF Finalize, NewHandle, consumerVars
  <1>3. ASSUME NEW c \in Consumers, Unpack(c) PROVE FileInv'
    <2>1. h'.ep = h.ep
      BY <1>3 DEF Unpack, Handle
    <2> QED
      BY <1>3, <2>1 DEF Unpack, RespondError
  <1>4. CASE ReadFile
    BY <1>4 DEF ReadFile, RespondError
  <1>5. CASE Establish
    <2>1. /\ UNCHANGED <<cur, pending, cpc, nth, net_buf, got>>
          /\ cb = "connect" /\ h.ep = None
      BY <1>5 DEF Establish
    <2>2. CASE cb' = "send"
      <3>1. h'.ep = cur
        BY <1>5, <2>1, <2>2, FreshStep
      <3>2. UNCHANGED reply
        BY <1>5, <2>2 DEF Establish, Find, Insert, RespondError
      <3> QED
        BY <2>1, <2>2, <3>1, <3>2
    <2>3. CASE cb' # "send"
      <3>1. cb' = "idle" /\ UNCHANGED h /\ reply' = [reply EXCEPT ![cur] = "error"]
        BY <1>5, <2>3 DEF Establish, Find, Insert, RespondError
      <3> QED
        BY <2>1, <3>1
    <2> QED
      BY <2>2, <2>3
  <1>6. CASE Send
    <2>1. /\ cb = "send" /\ cb' = "close" /\ UNCHANGED <<cur, pending, cpc, nth, got, reply>>
          /\ h' = [h EXCEPT !.rkey = h.rkey_buf]
          /\ net_buf' = [net_buf EXCEPT ![h.ep] = <<cur, nth[cur]>>]
      BY <1>6 DEF Send, Put, RespondError
    <2>2. h'.ep = h.ep
      BY <2>1 DEF Handle
    <2> QED
      BY <2>1, <2>2
  <1>7. CASE CloseConnection
    BY <1>7 DEF CloseConnection, Handle
  <1>8. ASSUME NEW c \in Consumers, Pack(c) PROVE FileInv'
    BY <1>8 DEF Pack, moduleVars
  <1>9. ASSUME NEW c \in Consumers, Recv(c) \/ EndOfStream(c) \/ Store(c) PROVE FileInv'
    <2>1. CASE Recv(c)
      <3>1. /\ UNCHANGED <<h, cb, cur, pending, nth, net_buf, reply, got>>
            /\ cpc[c] = "poll" /\ cpc' = [cpc EXCEPT ![c] = "eos"]
            /\ net_buf[c] = <<c, nth[c]>> /\ c \notin pending
        BY <2>1 DEF Recv, moduleVars
      <3> QED
        BY <3>1
    <2>2. CASE EndOfStream(c)
      BY <2>2 DEF EndOfStream, moduleVars
    <2>3. CASE Store(c)
      BY <2>3 DEF Store, moduleVars
    <2> QED
      BY <1>9, <2>1, <2>2, <2>3
  <1>10. CASE UNCHANGED vars
    BY <1>10 DEF vars, moduleVars, consumerVars
  <1> HIDE DEF FileInv
  <1> QED
    BY <1>1, <1>2, <1>3, <1>4, <1>5, <1>6, <1>7, <1>8, <1>9, <1>10 DEF Next, Callback, Consumer

\* dyad_get_data() over UCX that returns OK hands over the file it asked for, for
\* any consumers with pids of their own and whatever fails before a connection is
\* made, as long as no callback has left a connection open.
THEOREM ClosedOkIsMyFile ==
    ASSUME PidsDistinct
    PROVE  Spec => []ClosedOkMeansMyFile
  <1>1. Init => CacheInv /\ ClosedInv
    BY CacheInvInit DEF Init, ClosedInv, FileInv, NewHandle
  <1>2. CacheInv /\ ClosedInv /\ [Next]_vars => CacheInv' /\ ClosedInv'
    BY CacheInvStep, FileInvStep
  <1>3. ClosedInv => ClosedOkMeansMyFile
    BY DEF ClosedInv, FileInv, ClosedOkMeansMyFile, OkMeansMyFile
  <1> QED
    BY <1>1, <1>2, <1>3, PTL DEF Spec
=============================================================================
