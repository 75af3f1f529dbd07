--------------------------- MODULE MargoDtl_proofs ---------------------------
(***************************************************************************)
(* Proofs about the Margo transport, for any consumers and any number of   *)
(* fetches.                                                                *)
(***************************************************************************)
EXTENDS MargoDtl, TLAPS

\* Consumer c has called and nothing has reached it yet.
Waits(c) ==
    /\ cpc[c] = "recv" /\ hpc[c] = "idle"
    /\ ~recv_ready[c] /\ recv_buffer[c] = None
    /\ reply[c] = "none"

\* f is the file that its consumer waits for.
Asked(f) == f = <<f[1], nth[f[1]]>> /\ Waits(f[1])

\* A request is in one place of the module and its consumer waits for it there,
\* until the push has begun; the reply comes last.
RequestInv ==
    /\ \A r \in requests : Asked(r.file)
    /\ \A d \in detached : Asked(d.file) /\ d.addr = d.file[1]
    /\ sending # None =>
        /\ sending.file = <<sending.to, nth[sending.to]>>
        /\ reply[sending.to] = "none" /\ cpc[sending.to] # "idle"
        /\ sending.st = "read" => remote_addr = sending.to
        /\ sending.st \in {"read", "forward"} => Waits(sending.to)

\* No consumer has two requests in the module.
OneRequestEach ==
    /\ \A r, s \in requests : r.file[1] = s.file[1] => r = s
    /\ \A d, e \in detached : d.file[1] = e.file[1] => d = e
    /\ \A r \in requests, d \in detached : r.file[1] # d.file[1]
    /\ sending # None =>
        /\ \A r \in requests : r.file[1] # sending.to
        /\ \A d \in detached : d.file[1] # sending.to

\* Whatever has reached consumer c belongs to the fetch it is in.
Delivered(c) ==
    /\ hpc[c] # "idle" =>
        /\ cpc[c] = "recv" /\ ~recv_ready[c] /\ incoming[c] = <<c, nth[c]>>
        /\ recv_buffer[c] = IF hpc[c] \in {"alloc", "pull"} THEN None ELSE <<c, nth[c]>>
    /\ hpc[c] = "idle" /\ cpc[c] = "recv" =>
        recv_buffer[c] = IF recv_ready[c] THEN <<c, nth[c]>> ELSE None
    /\ cpc[c] \in {"reset", "eos"} => got[c] = <<c, nth[c]>> /\ recv_buffer[c] = None
    /\ cpc[c] = "reset" => recv_ready[c]
    /\ cpc[c] = "eos" => ~recv_ready[c]
    /\ cpc[c] = "idle" =>
        /\ ~recv_ready[c] /\ recv_buffer[c] = None
        /\ rc[c] = "OK" => got[c] = <<c, nth[c]>>

\* UsedAddressIsLive from the start of the handle to its end.
AddressInv ==
    phase \in {"new", "up"} =>
        /\ \A c \in Consumers : refs[c] = IF c \in addr_cache THEN 1 ELSE 0
        /\ remote_addr # None => remote_addr \in addr_cache
        /\ \A d \in detached : d.addr \in addr_cache
        /\ sending # None => sending.to \in addr_cache

MargoInv ==
    /\ TypeOK
    /\ RequestInv
    /\ OneRequestEach
    /\ \A c \in Consumers : Delivered(c)
    /\ AddressInv


\* OkMeansMyFile says something of a consumer that is back from its call only, and
\* a push reaches it in six steps of two threads; the parts of MargoInv say where
\* its file is in each of them.  Every step preserves them together: a push needs
\* to know who waits, and a consumer what is still under way for it.
LEMMA MargoStep == MargoInv /\ [Next]_vars => MargoInv'
<1> USE MargoAssumption
<1> SUFFICES ASSUME MargoInv, [Next]_vars PROVE MargoInv'
    OBVIOUS
<1> USE DEF MargoInv, TypeOK, Request, Detached, Sending, RequestInv, OneRequestEach,
        Asked, Waits, Delivered, AddressInv
<1>0. /\ \A f \in File : f[1] \in Consumers /\ f[2] \in 1..MaxFetches /\ f = <<f[1], f[2]>>
      /\ \A k \in Consumers, n \in 1..MaxFetches : <<k, n>> \in File
      /\ \A r \in requests : r.file \in File
      /\ \A d \in detached : d.file \in File /\ d.addr \in Consumers
      /\ sending # None => sending.file \in File /\ sending.to \in Consumers
    BY DEF File
<1> USE <1>0
<1>1. CASE DtlInit
    BY <1>1 DEF DtlInit, consumerVars
<1>2. CASE DtlInitFails
    BY <1>2 DEF DtlInitFails, consumerVars
<1>3. CASE Finalize
    BY <1>3 DEF Finalize, consumerVars
<1>4. ASSUME NEW r \in requests, Unpack(r) PROVE MargoInv'
    BY <1>4 DEF Unpack, ReactorFree, AddrCacheLookup, consumerVars
<1>5. ASSUME NEW r \in requests, UnpackFails(r) PROVE MargoInv'
    BY <1>5 DEF UnpackFails, ReactorFree, Respond
<1>6. ASSUME NEW r \in requests, Detach(r) PROVE MargoInv'
    BY <1>6 DEF Detach, ReactorFree, AddrCacheLookup, consumerVars
<1>7. ASSUME NEW r \in requests, DetachFails(r) PROVE MargoInv'
    BY <1>7 DEF DetachFails, ReactorFree, AddrCacheLookup, Respond
<1>8. CASE Send
  <2>1. TypeOK'
    BY <1>8 DEF Send, consumerVars
  <2>2. RequestInv'
    BY <1>8 DEF Send, consumerVars
  <2>3. OneRequestEach'
    BY <1>8 DEF Send, consumerVars
  <2>4. (\A k \in Consumers : Delivered(k))'
    BY <1>8 DEF Send, consumerVars
  <2>5. AddressInv'
    BY <1>8 DEF Send, consumerVars
  <2> QED BY <2>1, <2>2, <2>3, <2>4, <2>5
<1>9. CASE ReadFails
    BY <1>9 DEF ReadFails, Respond
<1>10. ASSUME NEW d \in detached, SendDetached(d) PROVE MargoInv'
    BY <1>10 DEF SendDetached, ReactorFree, consumerVars
<1>11. ASSUME NEW d \in detached, AbortDetached(d) PROVE MargoInv'
    BY <1>11 DEF AbortDetached, ReactorFree, Respond
<1>12. CASE Forward
    BY <1>12 DEF Forward
<1>13. CASE ForwardDone
    BY <1>13 DEF ForwardDone, Respond
<1>14. CASE ForwardFails
    BY <1>14 DEF ForwardFails, Respond
<1>15. CASE SendCrashes
    BY <1>15 DEF SendCrashes, consumerVars
<1>16. ASSUME NEW c \in Consumers, HandlerAlloc(c) PROVE MargoInv'
  <2>1. TypeOK'
    BY <1>16 DEF HandlerAlloc, moduleVars
  <2>2. RequestInv'
    BY <1>16 DEF HandlerAlloc, moduleVars
  <2>3. OneRequestEach'
    BY <1>16 DEF HandlerAlloc, moduleVars
  <2>4. (\A k \in Consumers : Delivered(k))'
    BY <1>16 DEF HandlerAlloc, moduleVars
  <2>5. AddressInv'
    BY <1>16 DEF HandlerAlloc, moduleVars
  <2> QED BY <2>1, <2>2, <2>3, <2>4, <2>5
<1>17. ASSUME NEW c \in Consumers, HandlerPull(c) PROVE MargoInv'
  <2>1. TypeOK'
    BY <1>17 DEF HandlerPull, moduleVars
  <2>2. RequestInv'
    BY <1>17 DEF HandlerPull, moduleVars
  <2>3. OneRequestEach'
    BY <1>17 DEF HandlerPull, moduleVars
  <2>4. (\A k \in Consumers : Delivered(k))'
    BY <1>17 DEF HandlerPull, moduleVars
  <2>5. AddressInv'
    BY <1>17 DEF HandlerPull, moduleVars
  <2> QED BY <2>1, <2>2, <2>3, <2>4, <2>5
<1>18. ASSUME NEW c \in Consumers, HandlerRespond(c) PROVE MargoInv'
    BY <1>18 DEF HandlerRespond
<1>19. ASSUME NEW c \in Consumers, HandlerReady(c) PROVE MargoInv'
    BY <1>19 DEF HandlerReady, moduleVars
<1>20. ASSUME NEW c \in Consumers, HandlerAborts(c) PROVE MargoInv'
    BY <1>20 DEF HandlerAborts, moduleVars
<1>21. ASSUME NEW c \in Consumers, NEW how \in {"inline", "detached"}, Call(c, how) PROVE MargoInv'
  <2>1. TypeOK'
    BY <1>21 DEF Call
  <2>2. RequestInv'
    BY <1>21 DEF Call
  <2>3. OneRequestEach'
    BY <1>21 DEF Call
  <2>4. (\A k \in Consumers : Delivered(k))'
    BY <1>21 DEF Call
  <2>5. AddressInv'
    BY <1>21 DEF Call
  <2> QED BY <2>1, <2>2, <2>3, <2>4, <2>5
<1>22. ASSUME NEW c \in Consumers, CallFails(c) PROVE MargoInv'
    BY <1>22 DEF CallFails, moduleVars
<1>23. ASSUME NEW c \in Consumers, Recv(c) PROVE MargoInv'
    BY <1>23 DEF Recv, moduleVars
<1>24. ASSUME NEW c \in Consumers, RecvReset(c) PROVE MargoInv'
    BY <1>24 DEF RecvReset, moduleVars
<1>25. ASSUME NEW c \in Consumers, EndOfStream(c) PROVE MargoInv'
    BY <1>25 DEF EndOfStream, moduleVars
<1>26. CASE UNCHANGED vars
    BY <1>26 DEF vars, moduleVars, consumerVars
<1> HIDE <1>0 DEF MargoInv
<1> QED
    BY <1>1, <1>2, <1>3, <1>4, <1>5, <1>6, <1>7, <1>8, <1>9, <1>10, <1>11, <1>12, <1>13,
       <1>14, <1>15, <1>16, <1>17, <1>18, <1>19, <1>20, <1>21, <1>22, <1>23, <1>24, <1>25, <1>26
       DEF Next, Reactor, Handler, Client

\* Requests, pushes and buffers of all consumers, in every reachable state.
LEMMA MargoInvariant == Spec => []MargoInv
<1>1. Init => MargoInv
    BY MargoAssumption
       DEF Init, MargoInv, TypeOK, RequestInv, OneRequestEach, Delivered, AddressInv
<1> QED BY <1>1, MargoStep, PTL DEF Spec

\* Whatever requests were unpacked, detached, sent or refused before, an address
\* that the handle, a detached request or a send still uses has not been given
\* back, and each consumer's is resolved once.
THEOREM MargoHandleSound == Spec => []HandleSound
<1>1. MargoInv => HandleSound
    BY DEF MargoInv, AddressInv, HandleSound, UsedAddressIsLive
<1> QED BY <1>1, MargoInvariant, PTL

\* data_ready_rpc() may take recv_buffer and recv_ready over without a test: no
\* push arrives while either is in use, for any mix of inline and detached
\* requests and any failures of pushes that had already delivered.
THEOREM MargoBufferIsFree == Spec => []PushFindsBufferFree
<1>1. MargoInv => PushFindsBufferFree
    BY DEF MargoInv, Delivered, PushFindsBufferFree
<1> QED BY <1>1, MargoInvariant, PTL

\* dyad_get_data() over Margo that returns DYAD_RC_OK has the file it asked for:
\* requests of other consumers never redirect a push, and a push of an earlier
\* fetch never arrives late.
THEOREM MargoOkIsMyFile == Spec => []OkMeansMyFile
<1>1. MargoInv => OkMeansMyFile
    BY DEF MargoInv, Delivered, OkMeansMyFile
<1> QED BY <1>1, MargoInvariant, PTL
=============================================================================
