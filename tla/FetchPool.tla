------------------------------ MODULE FetchPool ------------------------------
(***************************************************************************)
(* The fetch service of the DYAD Flux module                               *)
(* (src/dyad/service/flux_module/dyad.c): the reactor thread, which runs   *)
(* the request callbacks and the completion watcher, and the pool of       *)
(* worker threads that do the blocking file I/O of dyad.fetch_range        *)
(* requests.                                                               *)
(*                                                                         *)
(* A range request travels  reactor -> work queue -> worker -> completion  *)
(* queue -> reactor.  Two hand-offs can lose it: the condition variable    *)
(* (work_cond) that wakes a worker and the self-pipe (completion_pipe)     *)
(* that wakes the reactor.  Each critical section of work_mutex and of     *)
(* completion_mutex is one atomic step; everything else interleaves.       *)
(* No DTL of the repository sets send_detached_is_thread_safe, so it is    *)
(* always the watcher that sends the data of a range request.  With Flux   *)
(* RPC the data is a message of the RPC stream; with Margo the client      *)
(* pulls it over RDMA, which stream records as its "data" message.         *)
(***************************************************************************)
EXTENDS Naturals, Sequences, FiniteSets

CONSTANTS
    RangeRequests,     \* dyad.fetch_range request messages that may arrive
    FileRequests,      \* dyad.fetch (whole-file) request messages that may arrive
    Workers,           \* worker threads dyad_fetch_pool_start() tries to create
    NoItem,            \* a worker's item pointer between two requests
    PipeCapacity       \* wakeup bytes completion_pipe can hold

Requests == RangeRequests \cup FileRequests

ASSUME RequestsAssumption ==
    /\ RangeRequests \cap FileRequests = {}
    /\ NoItem \notin Requests
ASSUME PipeAssumption == PipeCapacity \in Nat \ {0}

VARIABLES
    dtl,           \* the DTL the module was loaded with
    phase,         \* where mod_main() is
    started,       \* worker threads that exist (num_fetch_workers of them)
    arrived,       \* requests a callback of the reactor has been run for
    workq,         \* work_head ... work_tail
    wpc,           \* where each worker thread is
    item,          \* the work item each worker thread holds
    itemRc,        \* item->rc: the outcome the worker stored
    consumed,      \* calls of rpc_send_detached()/rpc_abort_detached() on
                   \* the item's req_state
    completionq,   \* completion_head ... completion_tail
    pipe,          \* unread bytes in completion_pipe
    rpc,           \* where the reactor thread is in the completion watcher
    batch,         \* the list the watcher took off the completion queue
    stream         \* messages sent back for each request, in order

vars == <<dtl, phase, started, arrived, workq, wpc, item, itemRc, consumed,
          completionq, pipe, rpc, batch, stream>>

poolVars == <<dtl, phase, started>>
workerVars == <<wpc, item>>
itemVars == <<itemRc, consumed>>
handbackVars == <<completionq, pipe, rpc, batch>>

Message == {"data", "ENODATA", "error"}

(***************************************************************************)
(* A worker is at "top" when it is about to lock work_mutex and test the   *)
(* loop condition, in "wait" inside pthread_cond_wait(), in "process"      *)
(* during the file I/O, in "push" before the completion queue, in "wake"   *)
(* before the pipe write.                                                  *)
(***************************************************************************)
WorkerPc == {"none", "top", "wait", "process", "push", "wake", "exited"}

TypeOK ==
    /\ dtl \in {"flux", "margo"}
    /\ phase \in {"loading", "running", "stopping", "stopped"}
    /\ started \in SUBSET Workers
    /\ arrived \in SUBSET Requests
    /\ workq \in Seq(RangeRequests)
    /\ wpc \in [Workers -> WorkerPc]
    /\ item \in [Workers -> RangeRequests \cup {NoItem}]
    /\ itemRc \in [Requests -> {"unset", "OK", "error"}]
    /\ consumed \in [Requests -> Nat]
    /\ completionq \in Seq(RangeRequests)
    /\ pipe \in 0..PipeCapacity
    /\ rpc \in {"idle", "take", "reply", "close"}
    /\ batch \in Seq(RangeRequests)
    /\ stream \in [Requests -> Seq(Message)]

Init ==
    /\ dtl \in {"flux", "margo"}
    /\ phase = "loading"
    /\ started = {}
    /\ arrived = {}
    /\ workq = <<>>
    /\ wpc = [w \in Workers |-> "none"]
    /\ item = [w \in Workers |-> NoItem]
    /\ itemRc = [r \in Requests |-> "unset"]
    /\ consumed = [r \in Requests |-> 0]
    /\ completionq = <<>>
    /\ pipe = 0
    /\ rpc = "idle"
    /\ batch = <<>>
    /\ stream = [r \in Requests |-> <<>>]

-----------------------------------------------------------------------------
(* dyad_fetch_pool_start() and the way mod_main() drives the pool.         *)

\* Any number of the threads may be created: pipe(), the watcher or the
\* first pthread_create() failing leaves none, a later failure leaves some.
PoolStart ==
    /\ phase = "loading"
    /\ phase' = "running"
    /\ started' \in SUBSET Workers
    /\ wpc' = [w \in Workers |-> IF w \in started' THEN "top" ELSE "none"]
    /\ UNCHANGED <<dtl, arrived, workq, item, itemVars, handbackVars, stream>>

\* Variant: the broadcast of work_cond is forgotten.
PoolStopQuiet ==
    /\ phase = "running"
    /\ rpc = "idle"
    /\ phase' = "stopping"
    /\ UNCHANGED <<dtl, started, arrived, workq, workerVars, itemVars, handbackVars, stream>>

\* flux_reactor_run() returns between two callbacks; dyad_fetch_pool_stop()
\* then sets workers_shutdown and broadcasts work_cond.
PoolStop ==
    /\ phase = "running"
    /\ rpc = "idle"
    /\ phase' = "stopping"
    /\ wpc' = [w \in Workers |-> IF wpc[w] = "wait" THEN "top" ELSE wpc[w]]
    /\ UNCHANGED <<dtl, started, arrived, workq, item, itemVars, handbackVars, stream>>

\* pthread_join() of every worker, then the watcher is destroyed.
PoolJoined ==
    /\ phase = "stopping"
    /\ \A w \in started : wpc[w] = "exited"
    /\ phase' = "stopped"
    /\ UNCHANGED <<dtl, started, arrived, workq, workerVars, itemVars, handbackVars, stream>>

-----------------------------------------------------------------------------
(* Request callbacks: each runs to its end on the reactor thread.          *)

ReactorFree == phase = "running" /\ rpc = "idle"

\* The message is not streaming or cannot be unpacked, an allocation or the
\* inline file I/O or send fails: flux_respond_error() closes the stream at
\* once.  A Margo send can fail after the client has pulled the data.  If
\* get_buffer() is what failed in the threaded path, the request had been
\* detached and is aborted first.
RejectRequest(r) ==
    /\ ReactorFree
    /\ r \notin arrived
    /\ arrived' = arrived \cup {r}
    /\ \/ stream' = [stream EXCEPT ![r] = Append(@, "error")]
       \/ /\ dtl = "margo"
          /\ r \in FileRequests \/ started = {}
          /\ stream' = [stream EXCEPT ![r] = Append(Append(@, "data"), "error")]
    /\ \/ UNCHANGED consumed
       \/ /\ r \in RangeRequests /\ started # {}
          /\ consumed' = [consumed EXCEPT ![r] = @ + 1]
    /\ UNCHANGED <<poolVars, workq, workerVars, itemRc, handbackVars>>

\* The whole-file callback, and the range callback when there is no worker:
\* everything happens inline (when it fails, the step is RejectRequest).
ServeInline(r) ==
    /\ ReactorFree
    /\ r \notin arrived
    /\ r \in FileRequests \/ started = {}
    /\ arrived' = arrived \cup {r}
    /\ stream' = [stream EXCEPT ![r] = Append(Append(@, "data"), "ENODATA")]
    /\ UNCHANGED <<poolVars, workq, workerVars, itemVars, handbackVars>>

\* Variant: the item is linked and nobody is signalled.
SignalNobody == UNCHANGED wpc

\* pthread_cond_signal(): one sleeping worker, if any, goes back to the test.
SignalWork ==
    LET sleeping == {w \in Workers : wpc[w] = "wait"}
    IN  \/ sleeping = {} /\ UNCHANGED wpc
        \/ \E w \in sleeping : wpc' = [wpc EXCEPT ![w] = "top"]

\* The range callback with a worker pool: detach, link the item, signal.
EnqueueRange(r) ==
    /\ ReactorFree
    /\ started # {}
    /\ r \notin arrived
    /\ arrived' = arrived \cup {r}
    /\ workq' = Append(workq, r)
    /\ SignalWork
    /\ UNCHANGED <<poolVars, item, itemVars, handbackVars, stream>>

-----------------------------------------------------------------------------
(* dyad_fetch_worker_main(), _process() and _finish().                     *)

\* Variant: workers_shutdown is obeyed before the queue is empty.
WorkerTakeExits(w) ==
    /\ wpc[w] = "top"
    /\ \/ /\ workq # <<>> /\ phase # "stopping"
          /\ item' = [item EXCEPT ![w] = Head(workq)]
          /\ workq' = Tail(workq)
          /\ wpc' = [wpc EXCEPT ![w] = "process"]
       \/ /\ workq = <<>> \/ phase = "stopping"
          /\ wpc' = [wpc EXCEPT ![w] = IF phase = "stopping" THEN "exited" ELSE "wait"]
          /\ UNCHANGED <<item, workq>>
    /\ UNCHANGED <<poolVars, arrived, itemVars, handbackVars, stream>>

\* The critical section of work_mutex at the top of the worker loop.
WorkerTake(w) ==
    /\ wpc[w] = "top"
    /\ \/ /\ workq # <<>>
          /\ item' = [item EXCEPT ![w] = Head(workq)]
          /\ workq' = Tail(workq)
          /\ wpc' = [wpc EXCEPT ![w] = "process"]
       \/ /\ workq = <<>>
          /\ wpc' = [wpc EXCEPT ![w] = IF phase = "stopping" THEN "exited" ELSE "wait"]
          /\ UNCHANGED <<item, workq>>
    /\ UNCHANGED <<poolVars, arrived, itemVars, handbackVars, stream>>

\* pthread_cond_wait() may return without a signal.
SpuriousWakeup(w) ==
    /\ wpc[w] = "wait"
    /\ wpc' = [wpc EXCEPT ![w] = "top"]
    /\ UNCHANGED <<poolVars, arrived, workq, item, itemVars, handbackVars, stream>>

\* The file I/O of one item; it succeeds or fails, and stores the outcome.
WorkerProcess(w) ==
    /\ wpc[w] = "process"
    /\ \E rc \in {"OK", "error"} : itemRc' = [itemRc EXCEPT ![item[w]] = rc]
    /\ wpc' = [wpc EXCEPT ![w] = "push"]
    /\ UNCHANGED <<poolVars, arrived, workq, item, consumed, handbackVars, stream>>

\* dyad_fetch_worker_finish(): link the item under completion_mutex.
WorkerPush(w) ==
    /\ wpc[w] = "push"
    /\ completionq' = Append(completionq, item[w])
    /\ item' = [item EXCEPT ![w] = NoItem]
    /\ wpc' = [wpc EXCEPT ![w] = "wake"]
    /\ UNCHANGED <<poolVars, arrived, workq, itemVars, pipe, rpc, batch, stream>>

\* dyad_fetch_worker_finish(): write one byte to the non-blocking pipe; on a
\* full pipe the byte is dropped (EAGAIN).
WorkerWake(w) ==
    /\ wpc[w] = "wake"
    /\ pipe' = IF pipe < PipeCapacity THEN pipe + 1 ELSE pipe
    /\ wpc' = [wpc EXCEPT ![w] = "top"]
    /\ UNCHANGED <<poolVars, arrived, workq, item, itemVars, completionq, rpc, batch, stream>>

-----------------------------------------------------------------------------
(* dyad_fetch_completion_watcher_cb(), on the reactor thread.              *)

\* The fd watcher fires on a readable pipe; the callback reads it empty.
WatcherDrain ==
    /\ ReactorFree
    /\ pipe > 0
    /\ pipe' = 0
    /\ rpc' = "take"
    /\ UNCHANGED <<poolVars, arrived, workq, workerVars, itemVars, completionq, batch, stream>>

\* Variant: completion_head is not reset when the list is taken.
WatcherTakeKeepsList ==
    /\ rpc = "take"
    /\ batch' = completionq
    /\ rpc' = "reply"
    /\ UNCHANGED <<poolVars, arrived, workq, workerVars, itemVars, completionq, pipe, stream>>

\* The critical section of completion_mutex: the whole list is taken.
WatcherTake ==
    /\ rpc = "take"
    /\ batch' = completionq
    /\ completionq' = <<>>
    /\ rpc' = "reply"
    /\ UNCHANGED <<poolVars, arrived, workq, workerVars, itemVars, pipe, stream>>

\* Variant: the send is tried again when it has failed.
WatcherSendRetries ==
    LET r == Head(batch)
    IN  /\ rpc = "reply"
        /\ batch # <<>>
        /\ consumed' = [consumed EXCEPT ![r] = @ + 1]
        /\ \/ /\ itemRc[r] = "OK"
              /\ stream' = [stream EXCEPT ![r] = Append(@, "data")]
              /\ \E next \in {"close", "reply"} : rpc' = next
           \/ UNCHANGED stream /\ rpc' = "close"
        /\ UNCHANGED <<poolVars, arrived, workq, workerVars, itemRc, completionq, pipe, batch>>

\* One turn of the loop over the list, first half: rpc_send_detached(), or
\* rpc_abort_detached() after a failure.  Either uses up req_state.  A send
\* that fails is only logged; over RDMA it may fail after the client has
\* pulled the data.
WatcherSend ==
    LET r == Head(batch)
    IN  /\ rpc = "reply"
        /\ batch # <<>>
        /\ consumed' = [consumed EXCEPT ![r] = @ + 1]
        /\ \/ itemRc[r] = "OK" /\ stream' = [stream EXCEPT ![r] = Append(@, "data")]
           \/ UNCHANGED stream
        /\ rpc' = "close"
        /\ UNCHANGED <<poolVars, arrived, workq, workerVars, itemRc, completionq, pipe, batch>>

\* Second half: the message that closes the stream, then the item is
\* destroyed.
WatcherClose ==
    LET r == Head(batch)
    IN  /\ rpc = "close"
        /\ stream' = [stream EXCEPT ![r] =
                Append(@, IF itemRc[r] = "OK" THEN "ENODATA" ELSE "error")]
        /\ batch' = Tail(batch)
        /\ rpc' = "reply"
        /\ UNCHANGED <<poolVars, arrived, workq, workerVars, itemVars, completionq, pipe>>

\* Variant: the pipe is drained again after the list has been answered.
WatcherReturnDrains ==
    /\ rpc = "reply"
    /\ batch = <<>>
    /\ pipe' = 0
    /\ rpc' = "idle"
    /\ UNCHANGED <<poolVars, arrived, workq, workerVars, itemVars, completionq, batch, stream>>

\* The list is exhausted: the callback returns to the reactor.
WatcherReturn ==
    /\ rpc = "reply"
    /\ batch = <<>>
    /\ rpc' = "idle"
    /\ UNCHANGED <<poolVars, arrived, workq, workerVars, itemVars, completionq, pipe, batch, stream>>

-----------------------------------------------------------------------------
Request == \E r \in Requests :
    \/ RejectRequest(r)
    \/ ServeInline(r)
    \/ r \in RangeRequests /\ EnqueueRange(r)

Worker(w) ==
    \/ WorkerTake(w)
    \/ WorkerProcess(w)
    \/ WorkerPush(w)
    \/ WorkerWake(w)

Watcher == WatcherDrain \/ WatcherTake \/ WatcherSend \/ WatcherClose \/ WatcherReturn

\* mod_main() has returned.
Stopped == phase = "stopped" /\ UNCHANGED vars

Next ==
    \/ PoolStart
    \/ PoolStop
    \/ PoolJoined
    \/ Request
    \/ \E w \in Workers : Worker(w) \/ SpuriousWakeup(w)
    \/ Watcher
    \/ Stopped

Spec == Init /\ [][Next]_vars

(***************************************************************************)
(* The kernel schedules every worker thread, file I/O and the locks it     *)
(* takes come to an end, the reactor polls its watchers, and pthread_join  *)
(* returns.  Nothing forces a request to arrive or the module to be        *)
(* unloaded, and no wakeup is ever spurious on schedule.                   *)
(***************************************************************************)
Fairness ==
    /\ \A w \in Workers : WF_vars(Worker(w))
    /\ WF_vars(Watcher)
    /\ WF_vars(PoolJoined)

FairSpec == Spec /\ Fairness
-----------------------------------------------------------------------------
(* Properties.                                                             *)

\* r is linked in the list q.
On(q, r) == \E i \in 1..Len(q) : q[i] = r

Queued(r) == On(workq, r)
Held(r) == \E w \in Workers : item[w] = r
Completed(r) == On(completionq, r)
Taken(r) == On(batch, r)

\* The item of r is linked in a queue or referenced by a thread.
InFlight(r) == Queued(r) \/ Held(r) \/ Completed(r) \/ Taken(r)

ClosedStreams ==
    {<<"data", "ENODATA">>, <<"ENODATA">>, <<"error">>, <<"data", "error">>}
Closed(r) == stream[r] \in ClosedStreams

\* dyad_fetch_worker_finish() / dyad_fetch_completion_watcher_cb(): whatever
\* the interleaving of workers and watcher, a client sees at most one data
\* message and then exactly one closing message: nothing after the close,
\* no second close, and never data after the close.
StreamWellFormed ==
    \A r \in Requests : stream[r] \in ClosedStreams \cup {<<>>, <<"data">>}

\* A request whose stream is still open is never dropped: its item is linked
\* in exactly the place the next step takes it from.
OpenIsInFlight == \A r \in arrived : Closed(r) \/ InFlight(r)

\* Ownership of the work item: once the stream is closed the item has been
\* destroyed, so no queue and no thread may still refer to it, and the
\* detached request state was used up exactly once (never sent twice, never
\* leaked) unless the callback never detached it.
ItemReleasedOnce ==
    \A r \in RangeRequests :
        /\ Closed(r) => ~InFlight(r)
        /\ consumed[r] <= 1
        /\ Closed(r) /\ itemRc[r] # "unset" => consumed[r] = 1

\* The self-pipe never loses a wakeup, even when it is full (the comment at
\* the end of dyad_fetch_worker_finish()): an item on the completion queue
\* has a byte in the pipe, or a worker about to write one, or a watcher that
\* has not taken the list yet.
NoLostWakeup ==
    completionq # <<>> =>
        \/ pipe > 0
        \/ rpc = "take"
        \/ \E w \in Workers : wpc[w] = "wake"

\* work_cond never loses a signal: while an item waits in the work queue some
\* worker is awake and will come back to the test.
WorkNotStranded ==
    workq # <<>> => \E w \in started : wpc[w] \notin {"wait", "exited"}

\* dyad_fetch_pool_stop() joins the workers only after they have emptied the
\* work queue: no accepted request is left unread by any worker.
StopDrainsWork ==
    phase = "stopped" => workq = <<>> /\ \A w \in Workers : item[w] = NoItem

\* Every request the reactor accepts is answered and its stream closed,
\* unless the module is unloaded first.
AcceptedIsAnswered ==
    \A r \in Requests : r \in arrived ~> (Closed(r) \/ phase # "running")

\* Unloading the module terminates: the workers notice workers_shutdown
\* wherever they are, and pthread_join() returns.
StopTerminates == phase = "stopping" ~> phase = "stopped"

\* What has happened to a request, as a client of the service sees it.
ServiceState(r) ==
    CASE stream[r] = <<"data", "ENODATA">> -> "served"
      [] stream[r] = <<"ENODATA">> -> "empty"
      [] stream[r] \in {<<"error">>, <<"data", "error">>} -> "failed"
      [] stream[r] = <<"data">> -> "sent"
      [] OTHER -> IF r \in arrived THEN "pending" ELSE "unseen"

Service == INSTANCE FetchService WITH st <- [r \in Requests |-> ServiceState(r)]

\* The pool of threads implements the one-stream-per-request service: every
\* step of a callback, a worker or the watcher is a step of the abstract
\* service or invisible to the client.
ImplementsService == Service!Spec
=============================================================================
