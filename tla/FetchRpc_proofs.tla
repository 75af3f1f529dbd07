--------------------------- MODULE FetchRpc_proofs ---------------------------
(***************************************************************************)
(* Proofs about the fetch service of FetchPool and about its two ends      *)
(* together: the module's stream as dyad_get_data() and                    *)
(* dyad_get_data_range() read it.  For any number of requests and worker   *)
(* threads, any pipe size, and for the Flux and the Margo DTL.             *)
(***************************************************************************)
EXTENDS FetchRpc, TLAPS, SequenceTheorems

\* A worker thread holds an item exactly between taking it and handing it
\* over, the threads that exist are the ones that were started, and the
\* watcher closes the stream of an item it has.
HoldsItem ==
    /\ \A w \in Workers :
        wpc[w] \in {"process", "push"} <=> item[w] # NoItem
    /\ \A w \in Workers : wpc[w] = "none" <=> w \notin started
    /\ phase = "loading" => started = {}
    /\ rpc = "close" => batch # <<>>

TypeInv == TypeOK /\ HoldsItem

\* What pthread_cond_signal() does to the worker threads: it leaves them as
\* they are when none sleeps, or moves one sleeper back to the test.
WakesOne ==
    \/ /\ \A w \in Workers : wpc[w] # "wait"
       /\ wpc' = wpc
    \/ \E w \in Workers :
        /\ wpc[w] = "wait"
        /\ wpc' = [wpc EXCEPT ![w] = "top"]

\* pthread_cond_signal(), restated without the set of sleeping workers.
LEMMA SignalWorkWakes == SignalWork => WakesOne
    BY DEF SignalWork, WakesOne

\* The type of the state, and of the item a worker holds, is preserved by
\* every step of the pool.
LEMMA TypeInvStep == TypeInv /\ [Next]_vars => TypeInv'
<1> USE RequestsAssumption, PipeAssumption
<1> SUFFICES ASSUME TypeInv, [Next]_vars PROVE TypeInv'
    OBVIOUS
<1>1. CASE PoolStart
    BY <1>1 DEF TypeInv, TypeOK, HoldsItem, PoolStart, itemVars, handbackVars, WorkerPc, Requests
<1>2. CASE PoolStop
    BY <1>2 DEF TypeInv, TypeOK, HoldsItem, PoolStop, itemVars, handbackVars, WorkerPc, Requests
<1>3. CASE PoolJoined
    BY <1>3 DEF TypeInv, TypeOK, HoldsItem, PoolJoined, workerVars, itemVars, handbackVars
<1>4. ASSUME NEW r \in Requests, RejectRequest(r) PROVE TypeInv'
  <2> USE <1>4
  <2>1. /\ arrived' \in SUBSET Requests
        /\ UNCHANGED <<dtl, phase, started, workq, wpc, item, itemRc, completionq, pipe, rpc, batch>>
    BY DEF TypeInv, TypeOK, RejectRequest, poolVars, workerVars, handbackVars
  <2>2. stream' \in [Requests -> Seq(Message)]
    <3>1. /\ Append(stream[r], "error") \in Seq(Message)
          /\ Append(Append(stream[r], "data"), "error") \in Seq(Message)
      BY DEF TypeInv, TypeOK, Message
    <3>2. \/ stream' = [stream EXCEPT ![r] = Append(stream[r], "error")]
          \/ stream' = [stream EXCEPT ![r] = Append(Append(stream[r], "data"), "error")]
      BY Zenon DEF RejectRequest
    <3> QED BY <3>1, <3>2 DEF TypeInv, TypeOK
  <2>3. consumed' \in [Requests -> Nat]
    <3>1. \/ consumed' = consumed
          \/ consumed' = [consumed EXCEPT ![r] = consumed[r] + 1]
      BY Zenon DEF RejectRequest
    <3>2. consumed \in [Requests -> Nat]
      BY DEF TypeInv, TypeOK
    <3> QED BY <3>1, <3>2
  <2> QED BY <2>1, <2>2, <2>3 DEF TypeInv, TypeOK, HoldsItem
<1>5. ASSUME NEW r \in Requests, ServeInline(r) PROVE TypeInv'
  <2>1. /\ arrived' \in SUBSET Requests
        /\ UNCHANGED <<dtl, phase, started, workq, wpc, item, itemRc, consumed, completionq, pipe, rpc, batch>>
    BY <1>5 DEF TypeInv, TypeOK, ServeInline, poolVars, workerVars, itemVars, handbackVars
  <2>2. stream' \in [Requests -> Seq(Message)]
    BY <1>5 DEF TypeInv, TypeOK, ServeInline, Message
  <2> QED BY <2>1, <2>2 DEF TypeInv, TypeOK, HoldsItem
<1>6. ASSUME NEW r \in RangeRequests, EnqueueRange(r) PROVE TypeInv'
  <2> USE <1>6
  <2>1. /\ arrived' \in SUBSET Requests
        /\ UNCHANGED <<dtl, phase, started, item, itemRc, consumed, completionq, pipe, rpc, batch, stream>>
    BY DEF TypeInv, TypeOK, EnqueueRange, poolVars, itemVars, handbackVars, Requests
  <2>2. workq' \in Seq(RangeRequests)
    BY DEF TypeInv, TypeOK, EnqueueRange
  <2>3. wpc' \in [Workers -> WorkerPc] /\ HoldsItem'
    BY <2>1, SignalWorkWakes DEF TypeInv, TypeOK, EnqueueRange, HoldsItem, WorkerPc, WakesOne
  <2> QED BY <2>1, <2>2, <2>3 DEF TypeInv, TypeOK
<1>7. ASSUME NEW w \in Workers, WorkerTake(w) PROVE TypeInv'
  <2> USE <1>7
  <2>1. UNCHANGED <<dtl, phase, started, arrived, itemRc, consumed, completionq, pipe, rpc, batch, stream>>
    BY DEF WorkerTake, poolVars, itemVars, handbackVars
  <2>2. CASE workq # <<>>
    <3>1. Head(workq) \in RangeRequests /\ Tail(workq) \in Seq(RangeRequests)
      BY <2>2 DEF TypeInv, TypeOK
    <3>2. /\ item' = [item EXCEPT ![w] = Head(workq)]
          /\ workq' = Tail(workq)
          /\ wpc' = [wpc EXCEPT ![w] = "process"]
      BY <2>2 DEF WorkerTake
    <3> QED BY <2>1, <3>1, <3>2 DEF TypeInv, TypeOK, HoldsItem, WorkerPc, Requests, WorkerTake
  <2>3. CASE workq = <<>>
    <3>1. /\ UNCHANGED <<item, workq>>
          /\ \/ wpc' = [wpc EXCEPT ![w] = "exited"]
             \/ wpc' = [wpc EXCEPT ![w] = "wait"]
      BY <2>3 DEF WorkerTake
    <3> QED BY <2>1, <3>1 DEF TypeInv, TypeOK, HoldsItem, WorkerPc, WorkerTake
  <2> QED BY <2>2, <2>3
<1>8. ASSUME NEW w \in Workers, SpuriousWakeup(w) PROVE TypeInv'
    BY <1>8 DEF TypeInv, TypeOK, HoldsItem, SpuriousWakeup, poolVars, itemVars, handbackVars, WorkerPc
<1>9. ASSUME NEW w \in Workers, WorkerProcess(w) PROVE TypeInv'
    BY <1>9 DEF TypeInv, TypeOK, HoldsItem, WorkerProcess, poolVars, handbackVars, WorkerPc
<1>10. ASSUME NEW w \in Workers, WorkerPush(w) PROVE TypeInv'
    BY <1>10 DEF TypeInv, TypeOK, HoldsItem, WorkerPush, poolVars, itemVars, WorkerPc
<1>11. ASSUME NEW w \in Workers, WorkerWake(w) PROVE TypeInv'
    BY <1>11 DEF TypeInv, TypeOK, HoldsItem, WorkerWake, poolVars, itemVars, WorkerPc
<1>12. CASE WatcherDrain
    BY <1>12 DEF TypeInv, TypeOK, HoldsItem, WatcherDrain, poolVars, workerVars, itemVars
<1>13. CASE WatcherTake
    BY <1>13 DEF TypeInv, TypeOK, HoldsItem, WatcherTake, poolVars, workerVars, itemVars
<1>14. CASE WatcherSend
  <2> USE <1>14
  <2>0. Head(batch) \in Requests
    BY DEF TypeInv, TypeOK, WatcherSend, Requests
  <2>1. /\ UNCHANGED <<dtl, phase, started, arrived, workq, wpc, item, itemRc, completionq, pipe, batch>>
        /\ rpc' = "close" /\ batch # <<>>
    BY DEF WatcherSend, poolVars, workerVars
  <2>2. stream' \in [Requests -> Seq(Message)]
    <3>1. Append(stream[Head(batch)], "data") \in Seq(Message)
      BY <2>0 DEF TypeInv, TypeOK, Message
    <3>2. \/ stream' = stream
          \/ stream' = [stream EXCEPT ![Head(batch)] = Append(stream[Head(batch)], "data")]
      BY Zenon DEF WatcherSend
    <3> QED BY <3>1, <3>2 DEF TypeInv, TypeOK
  <2>3. consumed' \in [Requests -> Nat]
    BY <2>0 DEF TypeInv, TypeOK, WatcherSend
  <2> QED BY <2>0, <2>1, <2>2, <2>3 DEF TypeInv, TypeOK, HoldsItem
<1>15. CASE WatcherClose
  <2> USE <1>15
  <2>0. batch # <<>>
    BY DEF TypeInv, HoldsItem, WatcherClose
  <2>1. Head(batch) \in Requests /\ batch' \in Seq(RangeRequests)
    BY <2>0 DEF TypeInv, TypeOK, WatcherClose, Requests
  <2>2. /\ UNCHANGED <<dtl, phase, started, arrived, workq, wpc, item, itemRc, consumed, completionq, pipe>>
        /\ rpc' = "reply"
    BY DEF WatcherClose, poolVars, workerVars, itemVars
  <2>3. stream' \in [Requests -> Seq(Message)]
    <3>1. /\ Append(stream[Head(batch)], "ENODATA") \in Seq(Message)
          /\ Append(stream[Head(batch)], "error") \in Seq(Message)
      BY <2>1 DEF TypeInv, TypeOK, Message
    <3> QED BY <3>1 DEF TypeInv, TypeOK, WatcherClose
  <2> QED BY <2>1, <2>2, <2>3 DEF TypeInv, TypeOK, HoldsItem
<1>16. CASE WatcherReturn
    BY <1>16 DEF TypeInv, TypeOK, HoldsItem, WatcherReturn, poolVars, workerVars, itemVars
<1>17. CASE UNCHANGED vars
    BY <1>17 DEF TypeInv, TypeOK, HoldsItem, vars
<1> QED
    BY <1>1, <1>2, <1>3, <1>4, <1>5, <1>6, <1>7, <1>8, <1>9, <1>10,
       <1>11, <1>12, <1>13, <1>14, <1>15, <1>16, <1>17
       DEF Next, Request, Worker, Watcher, Stopped

\* Every variable of the pool keeps its type for any number of requests and
\* workers; in particular the pipe never holds more than it can, and only
\* range requests reach the queues of the workers and of the watcher.
THEOREM TypeCorrect == Spec => []TypeOK
<1>1. Init => TypeInv
    BY RequestsAssumption, PipeAssumption
       DEF Init, TypeInv, TypeOK, HoldsItem, WorkerPc, Requests
<1>2. TypeInv => TypeOK
    BY DEF TypeInv
<1> QED BY <1>1, <1>2, TypeInvStep, PTL DEF Spec

-----------------------------------------------------------------------------
\* What the two hand-offs need beside the properties themselves: nothing is
\* queued before the pool starts or without a worker, and a worker exits
\* only during the shutdown, once the work queue is empty for good.
ExitInv ==
    /\ phase = "loading" => workq = <<>> /\ completionq = <<>>
    /\ started = {} => workq = <<>>
    /\ \A w \in Workers :
        wpc[w] = "exited" => workq = <<>> /\ phase \in {"stopping", "stopped"}
    /\ phase = "stopped" => \A w \in started : wpc[w] = "exited"

HandoffInv == ExitInv /\ NoLostWakeup /\ WorkNotStranded

\* No step of the reactor, of a worker or of the shutdown can strand an item
\* on one of the two queues.
LEMMA HandoffStep == TypeInv /\ HandoffInv /\ [Next]_vars => HandoffInv'
<1> USE RequestsAssumption, PipeAssumption
<1> SUFFICES ASSUME TypeInv, HandoffInv, [Next]_vars PROVE HandoffInv'
    OBVIOUS
<1> USE DEF HandoffInv, ExitInv, NoLostWakeup, WorkNotStranded
<1>1. CASE PoolStart
    BY <1>1 DEF PoolStart, itemVars, handbackVars, TypeInv, TypeOK
<1>2. CASE PoolStop
    BY <1>2 DEF PoolStop, itemVars, handbackVars, TypeInv, TypeOK
<1>3. CASE PoolJoined
    BY <1>3 DEF PoolJoined, workerVars, handbackVars
<1>4. ASSUME NEW r \in Requests, RejectRequest(r) PROVE HandoffInv'
    BY <1>4 DEF RejectRequest, poolVars, workerVars, handbackVars
<1>5. ASSUME NEW r \in Requests, ServeInline(r) PROVE HandoffInv'
    BY <1>5 DEF ServeInline, poolVars, workerVars, handbackVars
<1>6. ASSUME NEW r \in RangeRequests, EnqueueRange(r) PROVE HandoffInv'
  <2> USE <1>6
  <2>1. /\ phase = "running" /\ started # {}
        /\ UNCHANGED <<dtl, phase, started, completionq, pipe, rpc>>
    BY DEF EnqueueRange, ReactorFree, poolVars, handbackVars
  <2>2. WakesOne
    BY SignalWorkWakes DEF EnqueueRange
  <2>3. \A w \in Workers : wpc[w] = "wake" => wpc'[w] = "wake"
    BY <2>2 DEF WakesOne, TypeInv, TypeOK
  <2>4. \A w \in Workers : wpc'[w] # "exited"
    BY <2>1, <2>2 DEF WakesOne, TypeInv, TypeOK
  <2>5. \E w \in started : wpc'[w] \notin {"wait", "exited"}
    <3>1. CASE \E w \in Workers : wpc[w] = "wait"
      BY <2>2, <3>1 DEF WakesOne, TypeInv, TypeOK, HoldsItem
    <3>2. CASE \A w \in Workers : wpc[w] # "wait"
      BY <2>1, <2>2, <2>4, <3>2 DEF WakesOne, TypeInv, TypeOK
    <3> QED BY <3>1, <3>2
  <2> QED BY <2>1, <2>3, <2>4, <2>5
<1>7. ASSUME NEW w \in Workers, WorkerTake(w) PROVE HandoffInv'
  <2> USE <1>7
  <2>1. UNCHANGED <<dtl, phase, started, completionq, pipe, rpc>>
    BY DEF WorkerTake, poolVars, handbackVars
  <2>2. wpc[w] = "top" /\ w \in started
    BY DEF WorkerTake, TypeInv, TypeOK, HoldsItem
  <2>3. CASE workq # <<>>
    <3>1. wpc' = [wpc EXCEPT ![w] = "process"]
      BY <2>3 DEF WorkerTake
    <3> QED BY <2>1, <2>2, <2>3, <3>1 DEF TypeInv, TypeOK
  <2>4. CASE workq = <<>>
    <3>1. /\ workq' = <<>>
          /\ wpc' = [wpc EXCEPT ![w] = IF phase = "stopping" THEN "exited" ELSE "wait"]
      BY <2>4 DEF WorkerTake
    <3>2. phase # "stopped"
      BY <2>2
    <3> QED BY <2>1, <2>2, <3>1, <3>2 DEF TypeInv, TypeOK
  <2> QED BY <2>3, <2>4
<1>8. ASSUME NEW w \in Workers, SpuriousWakeup(w) PROVE HandoffInv'
    BY <1>8 DEF SpuriousWakeup, poolVars, handbackVars, TypeInv, TypeOK
<1>9. ASSUME NEW w \in Workers, WorkerProcess(w) PROVE HandoffInv'
    BY <1>9 DEF WorkerProcess, poolVars, handbackVars, TypeInv, TypeOK
<1>10. ASSUME NEW w \in Workers, WorkerPush(w) PROVE HandoffInv'
    BY <1>10 DEF WorkerPush, poolVars, TypeInv, TypeOK, HoldsItem
<1>11. ASSUME NEW w \in Workers, WorkerWake(w) PROVE HandoffInv'
    BY <1>11 DEF WorkerWake, poolVars, TypeInv, TypeOK
<1>12. CASE WatcherDrain
    BY <1>12 DEF WatcherDrain, poolVars, workerVars
<1>13. CASE WatcherTake
    BY <1>13 DEF WatcherTake, poolVars, workerVars
<1>14. CASE WatcherSend
    BY <1>14 DEF WatcherSend, poolVars, workerVars
<1>15. CASE WatcherClose
    BY <1>15 DEF WatcherClose, poolVars, workerVars
<1>16. CASE WatcherReturn
    BY <1>16 DEF WatcherReturn, poolVars, workerVars
<1>17. CASE UNCHANGED vars
    BY <1>17 DEF vars
<1> QED
    BY <1>1, <1>2, <1>3, <1>4, <1>5, <1>6, <1>7, <1>8, <1>9, <1>10,
       <1>11, <1>12, <1>13, <1>14, <1>15, <1>16, <1>17
       DEF Next, Request, Worker, Watcher, Stopped

\* The hand-off invariant holds in every reachable state of the pool.
LEMMA HandoffInvariant == Spec => [](TypeInv /\ HandoffInv)
<1>1. Init => TypeInv /\ HandoffInv
    BY RequestsAssumption, PipeAssumption
       DEF Init, TypeInv, TypeOK, HoldsItem, WorkerPc, Requests, HandoffInv,
           ExitInv, NoLostWakeup, WorkNotStranded
<1> QED BY <1>1, TypeInvStep, HandoffStep, PTL DEF Spec

\* The self-pipe never loses a wakeup, however small it is and however many
\* workers write to it.
THEOREM WakeupNeverLost == Spec => []NoLostWakeup
    BY HandoffInvariant, PTL DEF HandoffInv

\* pthread_cond_signal() once per item is enough, for any number of workers:
\* an item never waits on the work queue with every worker asleep or gone.
THEOREM WorkNeverStranded == Spec => []WorkNotStranded
    BY HandoffInvariant, PTL DEF HandoffInv

\* When the workers have been joined the work queue is empty and no thread
\* died with an item in its hands.
THEOREM ShutdownDrains == Spec => []StopDrainsWork
<1>1. TypeInv /\ HandoffInv => StopDrainsWork
  <2> SUFFICES ASSUME TypeInv, HandoffInv, phase = "stopped"
               PROVE workq = <<>> /\ \A w \in Workers : item[w] = NoItem
    BY DEF StopDrainsWork
  <2>1. workq = <<>>
    BY DEF HandoffInv, ExitInv, TypeInv, TypeOK
  <2>2. \A w \in Workers : item[w] = NoItem
    BY DEF HandoffInv, ExitInv, TypeInv, TypeOK, HoldsItem
  <2> QED BY <2>1, <2>2
<1> QED BY <1>1, HandoffInvariant, PTL

-----------------------------------------------------------------------------
\* No item is linked twice in the list q.
Distinct(q) == \A i, j \in 1..Len(q) : q[i] = q[j] => i = j

\* The item of a request is in at most one place, and there once.
LinkedOnce ==
    /\ Distinct(workq) /\ Distinct(completionq) /\ Distinct(batch)
    /\ \A v, w \in Workers : item[v] = item[w] /\ item[v] # NoItem => v = w
    /\ \A r \in Requests :
        /\ Queued(r) => ~Held(r) /\ ~Completed(r) /\ ~Taken(r)
        /\ Held(r) => ~Completed(r) /\ ~Taken(r)
        /\ Completed(r) => ~Taken(r)

\* Nothing has been sent for r and its detached state has not been used.
Untouched(r) == stream[r] = <<>> /\ consumed[r] = 0

\* The watcher is between the two halves of its turn for r.
Sent(r) ==
    /\ consumed[r] = 1
    /\ stream[r] = <<>> \/ (stream[r] = <<"data">> /\ itemRc[r] = "OK")

\* r has been answered, and what was sent agrees with the worker's outcome.
Finished(r) ==
    /\ Closed(r)
    /\ consumed[r] <= 1
    /\ itemRc[r] # "unset" => consumed[r] = 1
    /\ stream[r] = <<"data", "ENODATA">> => itemRc[r] # "error"

\* How far the answer to r is follows from where its item is.  StreamWellFormed,
\* OpenIsInFlight and ItemReleasedOnce are not inductive by themselves: that a
\* second close cannot happen depends on the item having left every queue, and
\* that nothing is dropped on each queue handing its item to the next owner.
Stage(r) ==
    /\ r \notin arrived => Untouched(r) /\ itemRc[r] = "unset" /\ ~InFlight(r)
    /\ Queued(r) \/ Held(r) \/ Completed(r) => Untouched(r)
    /\ Taken(r) => IF rpc = "close" /\ r = Head(batch) THEN Sent(r) ELSE Untouched(r)
    /\ r \in arrived => InFlight(r) \/ Finished(r)

StageInv ==
    /\ rpc \in {"idle", "take"} => batch = <<>>
    /\ \A r \in Requests : Stage(r)

OwnInv == LinkedOnce /\ StageInv

\* Append() to an empty and to a one-message stream.
LEMMA AppendToOne ==
    ASSUME NEW x, NEW y
    PROVE  /\ Append(<<>>, x) = <<x>>
           /\ Append(<<x>>, y) = <<x, y>>
<1> DEFINE S == {x, y}
<1>1. /\ <<x>> \in Seq(S) /\ Len(<<x>>) = 1 /\ <<x>>[1] = x
      /\ <<x, y>> \in Seq(S) /\ Len(<<x, y>>) = 2 /\ <<x, y>>[1] = x /\ <<x, y>>[2] = y
    OBVIOUS
<1>2. /\ Append(<<x>>, y) \in Seq(S) /\ Len(Append(<<x>>, y)) = 2
      /\ Append(<<x>>, y)[1] = x /\ Append(<<x>>, y)[2] = y
    BY <1>1
<1>3. Append(<<>>, x) = <<x>>
    OBVIOUS
<1> HIDE DEF S
<1>4. \A i \in 1..2 : Append(<<x>>, y)[i] = <<x, y>>[i]
    BY <1>1, <1>2
<1> QED BY <1>1, <1>2, <1>3, <1>4, SeqEqual

\* What is linked in an empty list, after linking at the end and after taking
\* the first item off: the three things the code does to its lists.
LEMMA OnEmpty == ASSUME NEW r PROVE ~On(<<>>, r)
    BY DEF On

\* Linking an item at the end of a list.
LEMMA OnAppend ==
    ASSUME NEW S, NEW q \in Seq(S), NEW x \in S, NEW r
    PROVE  On(Append(q, x), r) <=> On(q, r) \/ r = x
<1>1. Append(q, x)[Len(q) + 1] = x /\ Len(Append(q, x)) = Len(q) + 1
  OBVIOUS
<1>2. \A i \in 1..Len(q) : Append(q, x)[i] = q[i]
  OBVIOUS
<1>3. Len(q) \in Nat
  OBVIOUS
<1> QED BY <1>1, <1>2, <1>3 DEF On

\* Taking the first item off a list.
LEMMA OnHeadTail ==
    ASSUME NEW S, NEW q \in Seq(S), q # <<>>, Distinct(q)
    PROVE  /\ On(q, Head(q))
           /\ \A r : On(Tail(q), r) <=> On(q, r) /\ r # Head(q)
<1>1. Len(q) \in Nat \ {0} /\ Head(q) = q[1] /\ Len(Tail(q)) = Len(q) - 1
  OBVIOUS
<1>2. \A i \in 1..(Len(q) - 1) : Tail(q)[i] = q[i + 1]
  OBVIOUS
<1>3. On(q, Head(q))
  BY <1>1 DEF On
<1>4. ASSUME NEW r, On(Tail(q), r) PROVE On(q, r) /\ r # Head(q)
  <2>1. PICK i \in 1..(Len(q) - 1) : q[i + 1] = r
    BY <1>1, <1>2, <1>4 DEF On
  <2>2. i + 1 \in 1..Len(q) /\ i + 1 # 1 /\ 1 \in 1..Len(q)
    BY <1>1
  <2> QED BY <1>1, <2>1, <2>2 DEF On, Distinct
<1>5. ASSUME NEW r, On(q, r), r # Head(q) PROVE On(Tail(q), r)
  <2>1. PICK i \in 1..Len(q) : q[i] = r
    BY <1>5 DEF On
  <2>2. i - 1 \in 1..(Len(q) - 1) /\ (i - 1) + 1 = i
    BY <1>1, <1>5, <2>1
  <2>3. Tail(q)[i - 1] = r
    BY <1>2, <2>1, <2>2
  <2> QED BY <1>1, <2>2, <2>3 DEF On
<1> QED BY <1>3, <1>4, <1>5

\* Those three operations keep a list free of duplicates.
LEMMA DistinctEmpty == Distinct(<<>>)
    BY DEF Distinct

\* A new item linked at the end does not repeat another.
LEMMA DistinctAppend ==
    ASSUME NEW S, NEW q \in Seq(S), NEW x \in S, Distinct(q), ~On(q, x)
    PROVE  Distinct(Append(q, x))
<1>1. /\ Len(q) \in Nat /\ Len(Append(q, x)) = Len(q) + 1
      /\ Append(q, x)[Len(q) + 1] = x
      /\ \A i \in 1..Len(q) : Append(q, x)[i] = q[i]
  OBVIOUS
<1> QED BY <1>1 DEF Distinct, On

\* Neither does taking the first item off.
LEMMA DistinctTail ==
    ASSUME NEW S, NEW q \in Seq(S), q # <<>>, Distinct(q)
    PROVE  Distinct(Tail(q))
<1>1. /\ Len(q) \in Nat \ {0} /\ Len(Tail(q)) = Len(q) - 1
      /\ \A i \in 1..(Len(q) - 1) : Tail(q)[i] = q[i + 1]
  OBVIOUS
<1> QED BY <1>1 DEF Distinct

\* Every step of the reactor, of a worker and of the watcher keeps the item of
\* every request in one place, with the answer as far as that place says.
LEMMA OwnStep == TypeInv /\ OwnInv /\ [Next]_vars => OwnInv'
<1> USE RequestsAssumption
<1> SUFFICES ASSUME TypeInv, OwnInv, [Next]_vars PROVE OwnInv'
    OBVIOUS
<1> USE DEF OwnInv, InFlight, Queued, Held, Completed, Taken
<1>0. /\ Requests = RangeRequests \cup FileRequests
      /\ workq \in Seq(RangeRequests) /\ completionq \in Seq(RangeRequests)
      /\ batch \in Seq(RangeRequests)
      /\ item \in [Workers -> RangeRequests \cup {NoItem}]
      /\ stream \in [Requests -> Seq(Message)]
      /\ consumed \in [Requests -> Nat]
      /\ itemRc \in [Requests -> {"unset", "OK", "error"}]
    BY DEF TypeInv, TypeOK, Requests
<1>a. ASSUME UNCHANGED <<arrived, workq, item, itemRc, consumed, completionq, batch, stream>>,
             rpc' \in {"idle", "take"} => batch = <<>>,
             rpc' = "close" <=> rpc = "close"
      PROVE  OwnInv'
    BY <1>a DEF LinkedOnce, StageInv, Stage, Untouched, Sent, Finished, Closed
<1>1. CASE PoolStart
    BY <1>1, <1>a DEF PoolStart, itemVars, handbackVars, StageInv, Stage
<1>2. CASE PoolStop
    BY <1>2, <1>a DEF PoolStop, itemVars, handbackVars, StageInv, Stage
<1>3. CASE PoolJoined
    BY <1>3, <1>a DEF PoolJoined, workerVars, itemVars, handbackVars, StageInv, Stage
<1>4. ASSUME NEW r \in Requests, RejectRequest(r) PROVE OwnInv'
  <2> USE <1>4
  <2>1. /\ UNCHANGED <<workq, item, itemRc, completionq, rpc, batch>>
        /\ arrived' = arrived \cup {r} /\ r \notin arrived
    BY DEF RejectRequest, poolVars, workerVars, handbackVars
  <2>2. stream[r] = <<>> /\ consumed[r] = 0 /\ itemRc[r] = "unset" /\ ~InFlight(r)
    BY <2>1 DEF StageInv, Stage, Untouched
  <2>3. \/ stream' = [stream EXCEPT ![r] = <<"error">>]
        \/ stream' = [stream EXCEPT ![r] = <<"data", "error">>]
    <3>1. \/ stream' = [stream EXCEPT ![r] = Append(stream[r], "error")]
          \/ stream' = [stream EXCEPT ![r] = Append(Append(stream[r], "data"), "error")]
      BY Zenon DEF RejectRequest
    <3>2. /\ Append(<<>>, "error") = <<"error">>
          /\ Append(Append(<<>>, "data"), "error") = <<"data", "error">>
      BY AppendToOne, Zenon
    <3> QED BY <2>2, <3>1, <3>2
  <2>4. \/ consumed' = consumed
        \/ consumed' = [consumed EXCEPT ![r] = 1]
    <3>1. \/ consumed' = consumed
          \/ consumed' = [consumed EXCEPT ![r] = consumed[r] + 1]
      BY Zenon DEF RejectRequest
    <3> QED BY <2>2, <3>1
  <2>5. Finished(r)'
    BY <1>0, <2>1, <2>2, <2>3, <2>4 DEF Finished, Closed, ClosedStreams
  <2>6. \A s \in Requests \ {r} : /\ stream'[s] = stream[s] /\ consumed'[s] = consumed[s]
                                  /\ s \in arrived' <=> s \in arrived
    BY <1>0, <2>1, <2>3, <2>4
  <2>7. LinkedOnce'
    BY <2>1 DEF LinkedOnce
  <2>8. Stage(r)'
    BY <2>1, <2>2, <2>5 DEF Stage
  <2>9. ASSUME NEW s \in Requests, s # r PROVE Stage(s)'
    <3>1. Stage(s)
      BY DEF StageInv
    <3> QED BY <2>1, <2>6, <2>9, <3>1 DEF Stage, Untouched, Sent, Finished, Closed
  <2>10. StageInv'
    BY <2>1, <2>8, <2>9 DEF StageInv
  <2> QED BY <2>7, <2>10
<1>5. ASSUME NEW r \in Requests, ServeInline(r) PROVE OwnInv'
  <2> USE <1>5
  <2>1. /\ UNCHANGED <<workq, item, itemRc, consumed, completionq, rpc, batch>>
        /\ arrived' = arrived \cup {r} /\ r \notin arrived
    BY DEF ServeInline, poolVars, workerVars, itemVars, handbackVars
  <2>2. stream[r] = <<>> /\ consumed[r] = 0 /\ itemRc[r] = "unset" /\ ~InFlight(r)
    BY <2>1 DEF StageInv, Stage, Untouched
  <2>3. stream' = [stream EXCEPT ![r] = <<"data", "ENODATA">>]
    <3>1. Append(Append(<<>>, "data"), "ENODATA") = <<"data", "ENODATA">>
      BY AppendToOne, Zenon
    <3> QED BY <2>2, <3>1 DEF ServeInline
  <2>5. Finished(r)'
    BY <1>0, <2>1, <2>2, <2>3 DEF Finished, Closed, ClosedStreams
  <2>6. \A s \in Requests \ {r} : stream'[s] = stream[s] /\ (s \in arrived' <=> s \in arrived)
    BY <1>0, <2>1, <2>3
  <2>7. LinkedOnce'
    BY <2>1 DEF LinkedOnce
  <2>8. Stage(r)'
    BY <2>1, <2>2, <2>5 DEF Stage
  <2>9. ASSUME NEW s \in Requests, s # r PROVE Stage(s)'
    <3>1. Stage(s)
      BY DEF StageInv
    <3> QED BY <2>1, <2>6, <2>9, <3>1 DEF Stage, Untouched, Sent, Finished, Closed
  <2>10. StageInv'
    BY <2>1, <2>8, <2>9 DEF StageInv
  <2> QED BY <2>7, <2>10
<1>6. ASSUME NEW r \in RangeRequests, EnqueueRange(r) PROVE OwnInv'
  <2> USE <1>6
  <2>1. /\ UNCHANGED <<item, itemRc, consumed, completionq, rpc, batch, stream>>
        /\ arrived' = arrived \cup {r} /\ r \notin arrived
        /\ workq' = Append(workq, r)
    BY DEF EnqueueRange, poolVars, itemVars, handbackVars
  <2>2. Untouched(r) /\ ~InFlight(r) /\ r \in Requests
    BY <1>0, <2>1 DEF StageInv, Stage
  <2>3. Distinct(workq')
    BY <1>0, <2>1, <2>2, DistinctAppend DEF LinkedOnce
  <2>4. \A s : On(workq', s) <=> On(workq, s) \/ s = r
    BY <1>0, <2>1, OnAppend
  <2>5. LinkedOnce'
    BY <2>1, <2>2, <2>3, <2>4 DEF LinkedOnce
  <2>6. StageInv'
    BY <2>1, <2>2, <2>4 DEF StageInv, Stage, Untouched, Sent, Finished, Closed
  <2> QED BY <2>5, <2>6
<1>7. ASSUME NEW w \in Workers, WorkerTake(w) PROVE OwnInv'
  <2> USE <1>7
  <2>1. UNCHANGED <<arrived, itemRc, consumed, completionq, rpc, batch, stream>>
    BY DEF WorkerTake, poolVars, itemVars, handbackVars
  <2>2. CASE workq # <<>>
    <3> DEFINE r == Head(workq)
    <3>1. item' = [item EXCEPT ![w] = r] /\ workq' = Tail(workq) /\ item[w] = NoItem
      BY <2>2 DEF WorkerTake, TypeInv, TypeOK, HoldsItem
    <3>2. Queued(r) /\ \A s : On(workq', s) <=> On(workq, s) /\ s # r
      BY <1>0, <2>2, <3>1, OnHeadTail DEF LinkedOnce
    <3>3. r \in RangeRequests /\ Distinct(workq')
      BY <1>0, <2>2, <3>1, DistinctTail DEF LinkedOnce
    <3> HIDE DEF r
    <3>4. \A s \in Requests : (\E v \in Workers : item'[v] = s) <=> Held(s) \/ s = r
      BY <1>0, <3>1, RequestsAssumption
    <3>5. \A u, v \in Workers : item'[u] = item'[v] /\ item'[u] # NoItem => u = v
      BY <1>0, <3>1, <3>2, <3>3 DEF LinkedOnce
    <3>6. LinkedOnce'
      <4>1. ASSUME NEW s \in Requests
            PROVE  /\ Queued(s)' => ~Held(s)' /\ ~Completed(s)' /\ ~Taken(s)'
                   /\ Held(s)' => ~Completed(s)' /\ ~Taken(s)'
                   /\ Completed(s)' => ~Taken(s)'
        BY <2>1, <3>2, <3>4 DEF LinkedOnce
      <4> QED BY <2>1, <3>3, <3>5, <4>1 DEF LinkedOnce
    <3>7. ASSUME NEW s \in Requests PROVE Stage(s)'
      <4>1. Stage(s)
        BY DEF StageInv
      <4>2. InFlight(s)' <=> InFlight(s)
        BY <2>1, <3>2, <3>4
      <4> QED BY <2>1, <3>2, <3>4, <4>1, <4>2 DEF Stage, Untouched, Sent, Finished, Closed
    <3>8. StageInv'
      BY <2>1, <3>7 DEF StageInv
    <3> QED BY <3>6, <3>8
  <2>3. CASE workq = <<>>
    <3>1. UNCHANGED <<item, workq>>
      BY <2>3 DEF WorkerTake
    <3> QED BY <1>a, <2>1, <3>1 DEF StageInv, Stage
  <2> QED BY <2>2, <2>3
<1>8. ASSUME NEW w \in Workers, SpuriousWakeup(w) PROVE OwnInv'
    BY <1>8, <1>a DEF SpuriousWakeup, itemVars, handbackVars, StageInv, Stage
<1>9. ASSUME NEW w \in Workers, WorkerProcess(w) PROVE OwnInv'
  <2>1. /\ UNCHANGED <<arrived, workq, item, consumed, completionq, rpc, batch, stream>>
        /\ \E rc \in {"OK", "error"} : itemRc' = [itemRc EXCEPT ![item[w]] = rc]
    BY <1>9 DEF WorkerProcess, poolVars, handbackVars
  <2>2. item[w] \in RangeRequests /\ Held(item[w])
    BY <1>0, <1>9 DEF WorkerProcess, TypeInv, HoldsItem
  <2>3. \A s \in Requests : ~Held(s) => itemRc'[s] = itemRc[s]
    BY <1>0, <1>9, <2>1
  <2>4. LinkedOnce'
    BY <2>1 DEF LinkedOnce
  <2>5. StageInv'
    BY <1>0, <2>1, <2>2, <2>3 DEF LinkedOnce, StageInv, Stage, Untouched, Sent, Finished, Closed
  <2> QED BY <2>4, <2>5
<1>10. ASSUME NEW w \in Workers, WorkerPush(w) PROVE OwnInv'
  <2> DEFINE r == item[w]
  <2>1. /\ UNCHANGED <<arrived, workq, itemRc, consumed, rpc, batch, stream>>
        /\ completionq' = Append(completionq, r)
        /\ item' = [item EXCEPT ![w] = NoItem]
    BY <1>10 DEF WorkerPush, poolVars, itemVars
  <2>2. r \in RangeRequests /\ Held(r)
    BY <1>0, <1>10 DEF WorkerPush, TypeInv, HoldsItem
  <2>3. \A s \in Requests : (\E v \in Workers : item'[v] = s) <=> Held(s) /\ s # r
    BY <1>0, <1>10, <2>1, <2>2, RequestsAssumption DEF LinkedOnce
  <2>4. \A u, v \in Workers : item'[u] = item'[v] /\ item'[u] # NoItem => u = v
    BY <1>0, <1>10, <2>1 DEF LinkedOnce
  <2> HIDE DEF r
  <2>5. ~On(completionq, r)
    BY <1>0, <2>2 DEF LinkedOnce
  <2>6. Distinct(completionq')
    BY <1>0, <2>1, <2>2, <2>5, DistinctAppend DEF LinkedOnce
  <2>7. \A s : On(completionq', s) <=> On(completionq, s) \/ s = r
    BY <1>0, <2>1, <2>2, OnAppend
  <2>8. LinkedOnce'
    BY <1>0, <2>1, <2>2, <2>3, <2>4, <2>6, <2>7 DEF LinkedOnce
  <2>9. StageInv'
    BY <1>0, <2>1, <2>2, <2>3, <2>7 DEF StageInv, Stage, Untouched, Sent, Finished, Closed
  <2> QED BY <2>8, <2>9
<1>11. ASSUME NEW w \in Workers, WorkerWake(w) PROVE OwnInv'
    BY <1>11, <1>a DEF WorkerWake, itemVars, StageInv, Stage
<1>12. CASE WatcherDrain
    BY <1>12, <1>a DEF WatcherDrain, ReactorFree, workerVars, itemVars, StageInv, Stage
<1>13. CASE WatcherTake
  <2>1. /\ UNCHANGED <<arrived, workq, item, itemRc, consumed, stream>>
        /\ batch' = completionq /\ completionq' = <<>> /\ rpc' = "reply"
        /\ batch = <<>>
    BY <1>13 DEF WatcherTake, poolVars, workerVars, itemVars, StageInv, Stage
  <2>2. (\A s : ~On(batch, s)) /\ (\A s : ~On(completionq', s)) /\ Distinct(completionq')
    BY <2>1, OnEmpty, DistinctEmpty
  <2>3. LinkedOnce'
    BY <2>1, <2>2 DEF LinkedOnce
  <2>4. StageInv'
    BY <2>1, <2>2 DEF LinkedOnce, StageInv, Stage, Untouched, Sent, Finished, Closed
  <2> QED BY <2>3, <2>4
<1>14. CASE WatcherSend
  <2> USE <1>14
  <2>0. PICK r : r = Head(batch)
    OBVIOUS
  <2>1. /\ UNCHANGED <<arrived, workq, item, itemRc, completionq, batch>>
        /\ rpc = "reply" /\ rpc' = "close" /\ batch # <<>>
        /\ consumed' = [consumed EXCEPT ![r] = consumed[r] + 1]
    BY <2>0 DEF WatcherSend, poolVars, workerVars
  <2>2. r \in Requests /\ Taken(r)
    BY <1>0, <2>0, <2>1, OnHeadTail DEF LinkedOnce
  <2>3. Untouched(r)
    BY <2>0, <2>1, <2>2 DEF StageInv, Stage
  <2>4. \/ stream' = stream
        \/ itemRc[r] = "OK" /\ stream' = [stream EXCEPT ![r] = <<"data">>]
    <3>1. \/ stream' = stream
          \/ itemRc[r] = "OK" /\ stream' = [stream EXCEPT ![r] = Append(stream[r], "data")]
      BY <2>0, Zenon DEF WatcherSend
    <3>2. Append(<<>>, "data") = <<"data">>
      OBVIOUS
    <3> QED BY <2>3, <3>1, <3>2 DEF Untouched
  <2>5. Sent(r)'
    <3>1. consumed'[r] = 1
      BY <1>0, <2>1, <2>2, <2>3 DEF Untouched
    <3>2. \/ stream'[r] = <<>>
          \/ stream'[r] = <<"data">> /\ itemRc'[r] = "OK"
      BY <1>0, <2>1, <2>2, <2>3, <2>4, Zenon DEF Untouched
    <3> QED BY <3>1, <3>2 DEF Sent
  <2>6. \A s \in Requests \ {r} : stream'[s] = stream[s] /\ consumed'[s] = consumed[s]
    BY <1>0, <2>1, <2>4
  <2>7. LinkedOnce'
    BY <2>1 DEF LinkedOnce
  <2>8. Head(batch') = r
    BY <2>0, <2>1
  <2>9. Stage(r)'
    <3>1. Stage(r) /\ ~Queued(r) /\ ~Held(r) /\ ~Completed(r)
      BY <2>2 DEF LinkedOnce, StageInv
    <3> QED BY <2>1, <2>2, <2>5, <2>8, <3>1 DEF Stage
  <2>10. ASSUME NEW s \in Requests, s # r PROVE Stage(s)'
    <3>1. Stage(s)
      BY DEF StageInv
    <3> QED BY <2>1, <2>6, <2>8, <2>10, <3>1 DEF Stage, Untouched, Sent, Finished, Closed
  <2>11. StageInv'
    BY <2>1, <2>9, <2>10 DEF StageInv
  <2> QED BY <2>7, <2>11
<1>15. CASE WatcherClose
  <2> USE <1>15
  <2>0. PICK r : r = Head(batch)
    OBVIOUS
  <2>1. /\ UNCHANGED <<arrived, workq, item, itemRc, consumed, completionq>>
        /\ rpc = "close" /\ rpc' = "reply" /\ batch' = Tail(batch) /\ batch # <<>>
        /\ stream' = [stream EXCEPT ![r] =
                        Append(stream[r], IF itemRc[r] = "OK" THEN "ENODATA" ELSE "error")]
    BY <2>0 DEF WatcherClose, poolVars, workerVars, itemVars, TypeInv, HoldsItem
  <2>2. Taken(r) /\ \A s : On(batch', s) <=> On(batch, s) /\ s # r
    BY <1>0, <2>0, <2>1, OnHeadTail DEF LinkedOnce
  <2>3. r \in Requests /\ Distinct(batch')
    BY <1>0, <2>0, <2>1, DistinctTail DEF LinkedOnce
  <2>4. Sent(r)
    BY <2>0, <2>1, <2>2, <2>3 DEF StageInv, Stage
  <2>5. /\ Append(<<>>, "ENODATA") = <<"ENODATA">>
        /\ Append(<<"data">>, "ENODATA") = <<"data", "ENODATA">>
        /\ Append(<<>>, "error") = <<"error">>
    BY AppendToOne, Zenon
  <2>6. Finished(r)'
    <3>1. stream'[r] = Append(stream[r], IF itemRc[r] = "OK" THEN "ENODATA" ELSE "error")
      BY <1>0, <2>1, <2>3
    <3>2. \/ itemRc[r] = "OK" /\ stream'[r] \in {<<"ENODATA">>, <<"data", "ENODATA">>}
          \/ stream'[r] = <<"error">>
      BY <2>4, <2>5, <3>1, Zenon DEF Sent
    <3>3. <<"error">> # <<"data", "ENODATA">>
      OBVIOUS
    <3>4. Closed(r)'
      BY <3>2, Zenon DEF Closed, ClosedStreams
    <3>5. stream'[r] = <<"data", "ENODATA">> => itemRc'[r] # "error"
      BY <2>1, <3>2, <3>3
    <3> QED BY <2>1, <2>4, <3>4, <3>5 DEF Finished, Sent
  <2>7. \A s \in Requests \ {r} : stream'[s] = stream[s]
    BY <1>0, <2>1
  <2>8. LinkedOnce'
    BY <2>1, <2>2, <2>3 DEF LinkedOnce
  <2>9. StageInv'
    <3>1. Stage(r)'
      <4>1. r \in arrived /\ ~Queued(r) /\ ~Held(r) /\ ~Completed(r)
        BY <2>2, <2>3 DEF LinkedOnce, StageInv, Stage
      <4> QED BY <2>1, <2>2, <2>6, <4>1 DEF Stage
    <3>2. ASSUME NEW s \in Requests, s # r PROVE Stage(s)'
      <4>1. Stage(s) /\ (Taken(s) => Untouched(s))
        BY <2>0, <2>1, <3>2 DEF StageInv, Stage
      <4> QED BY <2>1, <2>2, <2>7, <3>2, <4>1 DEF Stage, Untouched, Sent, Finished, Closed
    <3> QED BY <2>1, <3>1, <3>2 DEF StageInv
  <2> QED BY <2>8, <2>9
<1>16. CASE WatcherReturn
    BY <1>16, <1>a DEF WatcherReturn, workerVars, itemVars
<1>17. CASE UNCHANGED vars
    BY <1>17, <1>a DEF vars, StageInv, Stage
<1> QED
    BY <1>1, <1>2, <1>3, <1>4, <1>5, <1>6, <1>7, <1>8, <1>9, <1>10,
       <1>11, <1>12, <1>13, <1>14, <1>15, <1>16, <1>17
       DEF Next, Request, Worker, Watcher, Stopped

\* Ownership holds in every reachable state of the pool.
LEMMA OwnInvariant == Spec => [](TypeInv /\ OwnInv)
<1>1. Init => TypeInv /\ OwnInv
  <2> SUFFICES ASSUME Init PROVE TypeInv /\ OwnInv
    OBVIOUS
  <2>1. TypeInv
    BY RequestsAssumption, PipeAssumption
       DEF Init, TypeInv, TypeOK, HoldsItem, WorkerPc, Requests
  <2>2. \A r \in Requests : ~InFlight(r)
    BY OnEmpty, RequestsAssumption DEF Init, InFlight, Queued, Held, Completed, Taken
  <2>3. LinkedOnce
    BY <2>2, DistinctEmpty, RequestsAssumption DEF Init, LinkedOnce, InFlight
  <2>4. StageInv
    BY <2>2 DEF Init, StageInv, Stage, Untouched, InFlight
  <2> QED BY <2>1, <2>3, <2>4 DEF OwnInv
<1> QED BY <1>1, TypeInvStep, OwnStep, PTL DEF Spec

\* What ownership says of one request: the three properties follow.
LEMMA OpenStreams ==
    ASSUME OwnInv, NEW r \in Requests
    PROVE  /\ stream[r] \in ClosedStreams \cup {<<>>, <<"data">>}
           /\ r \in arrived => Closed(r) \/ InFlight(r)
           /\ Closed(r) => ~InFlight(r) /\ Finished(r)
           /\ consumed[r] \in {0, 1} \/ Finished(r)
<1>1. Stage(r)
  BY DEF OwnInv, StageInv
<1>2. <<>> \notin ClosedStreams /\ <<"data">> \notin ClosedStreams
  BY DEF ClosedStreams
<1>3. \/ r \in arrived /\ ~InFlight(r) /\ Finished(r)
      \/ ~Closed(r) /\ stream[r] \in {<<>>, <<"data">>} /\ consumed[r] \in {0, 1}
         /\ (r \in arrived => InFlight(r))
  BY <1>1, <1>2 DEF Stage, Untouched, Sent, Closed, InFlight
<1> QED BY <1>3 DEF Finished, Closed

\* No interleaving of workers and watcher sends a second data or closing
\* message, or anything after the close, for any number of either.
THEOREM StreamsWellFormed == Spec => []StreamWellFormed
<1>1. OwnInv => StreamWellFormed
    BY OpenStreams DEF StreamWellFormed
<1> QED BY <1>1, OwnInvariant, PTL

\* An accepted request whose stream is open is in a queue or in the hands of a
\* thread: it cannot be lost on the way through the pool.
THEOREM OpenNeverDropped == Spec => []OpenIsInFlight
<1>1. TypeInv /\ OwnInv => OpenIsInFlight
    BY OpenStreams DEF OpenIsInFlight, TypeInv, TypeOK
<1> QED BY <1>1, OwnInvariant, PTL

\* A closed stream leaves no queue and no thread with the destroyed item, and
\* the detached request state is used up once.
THEOREM ItemsReleasedOnce == Spec => []ItemReleasedOnce
<1>1. TypeInv /\ OwnInv => ItemReleasedOnce
  <2> SUFFICES ASSUME TypeInv, OwnInv, NEW r \in RangeRequests
               PROVE  /\ Closed(r) => ~InFlight(r)
                      /\ consumed[r] <= 1
                      /\ Closed(r) /\ itemRc[r] # "unset" => consumed[r] = 1
    BY DEF ItemReleasedOnce
  <2>1. r \in Requests
    BY DEF Requests
  <2> QED BY <2>1, OpenStreams DEF Finished
<1> QED BY <1>1, OwnInvariant, PTL

-----------------------------------------------------------------------------
\* The abstract state of a request, read off its stream before and after a step.
LEMMA ServiceStates ==
    ASSUME NEW r \in Requests
    PROVE  /\ stream[r] = <<>> /\ r \in arrived => ServiceState(r) = "pending"
           /\ stream[r] = <<>> /\ r \notin arrived => ServiceState(r) = "unseen"
           /\ stream[r] = <<"data">> => ServiceState(r) = "sent"
           /\ stream[r] = <<"ENODATA">> => ServiceState(r) = "empty"
           /\ stream[r] = <<"data", "ENODATA">> => ServiceState(r) = "served"
           /\ stream[r] \in {<<"error">>, <<"data", "error">>} => ServiceState(r) = "failed"
           /\ stream'[r] = <<>> /\ r \in arrived' => ServiceState(r)' = "pending"
           /\ stream'[r] = <<>> /\ r \notin arrived' => ServiceState(r)' = "unseen"
           /\ stream'[r] = <<"data">> => ServiceState(r)' = "sent"
           /\ stream'[r] = <<"ENODATA">> => ServiceState(r)' = "empty"
           /\ stream'[r] = <<"data", "ENODATA">> => ServiceState(r)' = "served"
           /\ stream'[r] \in {<<"error">>, <<"data", "error">>} => ServiceState(r)' = "failed"
           /\ stream'[r] = stream[r] /\ (r \in arrived' <=> r \in arrived)
                => ServiceState(r)' = ServiceState(r)
<1>1. /\ stream[r] = <<>> /\ r \in arrived => ServiceState(r) = "pending"
      /\ stream[r] = <<>> /\ r \notin arrived => ServiceState(r) = "unseen"
      /\ stream[r] = <<"data">> => ServiceState(r) = "sent"
    BY DEF ServiceState
<1>2. /\ stream[r] = <<"ENODATA">> => ServiceState(r) = "empty"
      /\ stream[r] = <<"data", "ENODATA">> => ServiceState(r) = "served"
      /\ stream[r] \in {<<"error">>, <<"data", "error">>} => ServiceState(r) = "failed"
    BY DEF ServiceState
<1>3. /\ stream'[r] = <<>> /\ r \in arrived' => ServiceState(r)' = "pending"
      /\ stream'[r] = <<>> /\ r \notin arrived' => ServiceState(r)' = "unseen"
      /\ stream'[r] = <<"data">> => ServiceState(r)' = "sent"
  <2>1. stream'[r] = <<>> /\ r \in arrived' => ServiceState(r)' = "pending"
    BY DEF ServiceState
  <2>2. stream'[r] = <<>> /\ r \notin arrived' => ServiceState(r)' = "unseen"
    BY DEF ServiceState
  <2>3. stream'[r] = <<"data">> => ServiceState(r)' = "sent"
    BY DEF ServiceState
  <2> QED BY <2>1, <2>2, <2>3
<1>4. /\ stream'[r] = <<"ENODATA">> => ServiceState(r)' = "empty"
      /\ stream'[r] = <<"data", "ENODATA">> => ServiceState(r)' = "served"
      /\ stream'[r] \in {<<"error">>, <<"data", "error">>} => ServiceState(r)' = "failed"
    BY DEF ServiceState
<1>5. stream'[r] = stream[r] /\ (r \in arrived' <=> r \in arrived)
        => ServiceState(r)' = ServiceState(r)
    BY DEF ServiceState
<1> QED BY <1>1, <1>2, <1>3, <1>4, <1>5

\* The refinement mapping of Service.
ServiceMap == [r \in Requests |-> ServiceState(r)]

\* A step that changes what one client sees is a move of the abstract service.
LEMMA ServiceMoves ==
    ASSUME NEW r \in Requests, NEW from, NEW to,
           ServiceState(r) = from, ServiceState(r)' = to,
           \A s \in Requests \ {r} : ServiceState(s)' = ServiceState(s)
    PROVE  Service!Move(r, from, to)
    BY DEF Service!Move

\* A step that changes it for no client is a stutter.
LEMMA ServiceStays ==
    ASSUME \A s \in Requests : ServiceState(s)' = ServiceState(s)
    PROVE  UNCHANGED ServiceMap
    BY DEF ServiceMap

\* Every step of the pool maps to a step of the abstract service or a stutter.
LEMMA ServiceStep == TypeInv /\ OwnInv /\ [Next]_vars => Service!Next \/ UNCHANGED ServiceMap
<1> SUFFICES ASSUME TypeInv, OwnInv, [Next]_vars
             PROVE  Service!Next \/ UNCHANGED ServiceMap
    OBVIOUS
<1> USE DEF OwnInv
<1>0. /\ RangeRequests \subseteq Requests /\ batch \in Seq(RangeRequests)
      /\ stream \in [Requests -> Seq(Message)]
    BY DEF TypeInv, TypeOK, Requests
<1>a. ASSUME UNCHANGED <<arrived, stream>>
      PROVE  UNCHANGED ServiceMap
  <2>1. \A s \in Requests : ServiceState(s)' = ServiceState(s)
    BY <1>a DEF ServiceState
  <2> QED BY <2>1, ServiceStays
<1>1. CASE PoolStart
    BY <1>1, <1>a DEF PoolStart
<1>2. CASE PoolStop
    BY <1>2, <1>a DEF PoolStop
<1>3. CASE PoolJoined
    BY <1>3, <1>a DEF PoolJoined
<1>4. ASSUME NEW r \in Requests, RejectRequest(r) \/ ServeInline(r) PROVE Service!Next
  <2>1. arrived' = arrived \cup {r} /\ r \notin arrived
    BY <1>4 DEF RejectRequest, ServeInline
  <2>2. stream[r] = <<>>
    BY <2>1 DEF StageInv, Stage, Untouched
  <2>3. \E str \in {<<"error">>, <<"data", "error">>, <<"data", "ENODATA">>} :
            stream' = [stream EXCEPT ![r] = str]
    <3>1. \/ stream' = [stream EXCEPT ![r] = Append(stream[r], "error")]
          \/ stream' = [stream EXCEPT ![r] = Append(Append(stream[r], "data"), "error")]
          \/ stream' = [stream EXCEPT ![r] = Append(Append(stream[r], "data"), "ENODATA")]
      BY <1>4, Zenon DEF RejectRequest, ServeInline
    <3>2. /\ Append(<<>>, "error") = <<"error">>
          /\ Append(Append(<<>>, "data"), "error") = <<"data", "error">>
          /\ Append(Append(<<>>, "data"), "ENODATA") = <<"data", "ENODATA">>
      BY AppendToOne, Zenon
    <3> QED BY <2>2, <3>1, <3>2
  <2>4. ServiceState(r) = "unseen"
    BY <2>1, <2>2, ServiceStates
  <2>5. \E to \in {"served", "failed"} : ServiceState(r)' = to
    BY <1>0, <2>1, <2>3, ServiceStates
  <2>6. \A s \in Requests \ {r} : ServiceState(s)' = ServiceState(s)
    <3>1. \A s \in Requests \ {r} : stream'[s] = stream[s] /\ (s \in arrived' <=> s \in arrived)
      BY <1>0, <2>1, <2>3
    <3> QED BY <3>1, ServiceStates
  <2>7. \E to \in {"served", "failed"} : Service!Move(r, "unseen", to)
    BY <2>4, <2>5, <2>6, ServiceMoves
  <2> QED BY <2>7 DEF Service!Next, Service!Receive
<1>6. ASSUME NEW r \in RangeRequests, EnqueueRange(r) PROVE Service!Next
  <2>1. /\ arrived' = arrived \cup {r} /\ r \notin arrived /\ stream' = stream
        /\ r \in Requests
    BY <1>0, <1>6 DEF EnqueueRange
  <2>2. stream[r] = <<>>
    BY <2>1 DEF StageInv, Stage, Untouched
  <2>3. ServiceState(r) = "unseen" /\ ServiceState(r)' = "pending"
    BY <2>1, <2>2, ServiceStates
  <2>4. \A s \in Requests \ {r} : ServiceState(s)' = ServiceState(s)
    <3>1. \A s \in Requests \ {r} : (s \in arrived' <=> s \in arrived)
      BY <2>1
    <3> QED BY <2>1, <3>1, ServiceStates
  <2>5. Service!Move(r, "unseen", "pending")
    BY <2>1, <2>3, <2>4, ServiceMoves
  <2> QED BY <2>1, <2>5 DEF Service!Next, Service!Receive
<1>7. ASSUME NEW w \in Workers, Worker(w) \/ SpuriousWakeup(w) PROVE UNCHANGED ServiceMap
    BY <1>7, <1>a
       DEF Worker, WorkerTake, WorkerProcess, WorkerPush, WorkerWake, SpuriousWakeup
<1>12. CASE WatcherDrain \/ WatcherTake \/ WatcherReturn
    BY <1>12, <1>a DEF WatcherDrain, WatcherTake, WatcherReturn
<1>14. CASE WatcherSend
  <2>0. PICK r : r = Head(batch)
    OBVIOUS
  <2>1. rpc = "reply" /\ batch # <<>> /\ UNCHANGED arrived
    BY <1>14 DEF WatcherSend
  <2>2. r \in Requests /\ Taken(r)
    BY <1>0, <2>0, <2>1, OnHeadTail DEF LinkedOnce, Taken
  <2>3. stream[r] = <<>> /\ r \in arrived
    BY <2>1, <2>2 DEF StageInv, Stage, Untouched, InFlight
  <2>4. CASE stream' = stream
    BY <1>a, <2>1, <2>4
  <2>5. CASE stream' = [stream EXCEPT ![r] = Append(stream[r], "data")]
    <3>1. stream'[r] = <<"data">> /\ \A s \in Requests \ {r} : stream'[s] = stream[s]
      BY <1>0, <2>2, <2>3, <2>5, AppendToOne
    <3>2. ServiceState(r) = "pending" /\ ServiceState(r)' = "sent"
      BY <2>1, <2>2, <2>3, <3>1, ServiceStates
    <3>3. \A s \in Requests \ {r} : ServiceState(s)' = ServiceState(s)
      BY <2>1, <3>1, ServiceStates
    <3>4. Service!Move(r, "pending", "sent")
      BY <2>2, <3>2, <3>3, ServiceMoves
    <3> QED BY <2>2, <3>4 DEF Service!Next, Service!SendData
  <2> QED BY <1>14, <2>0, <2>4, <2>5, Zenon DEF WatcherSend
<1>15. CASE WatcherClose
  <2>0. PICK r : r = Head(batch)
    OBVIOUS
  <2>1. /\ rpc = "close" /\ batch # <<>> /\ UNCHANGED arrived
        /\ stream' = [stream EXCEPT ![r] =
                        Append(stream[r], IF itemRc[r] = "OK" THEN "ENODATA" ELSE "error")]
    BY <1>15, <2>0 DEF WatcherClose, TypeInv, HoldsItem
  <2>2. r \in Requests /\ Taken(r)
    BY <1>0, <2>0, <2>1, OnHeadTail DEF LinkedOnce, Taken
  <2>3. Sent(r) /\ r \in arrived
    BY <2>0, <2>1, <2>2 DEF StageInv, Stage, InFlight
  <2>4. /\ stream'[r] = Append(stream[r], IF itemRc[r] = "OK" THEN "ENODATA" ELSE "error")
        /\ \A s \in Requests \ {r} : stream'[s] = stream[s]
    BY <1>0, <2>1, <2>2
  <2>5. /\ Append(<<>>, "ENODATA") = <<"ENODATA">>
        /\ Append(<<"data">>, "ENODATA") = <<"data", "ENODATA">>
        /\ Append(<<>>, "error") = <<"error">>
    BY AppendToOne, Zenon
  <2>6. \A s \in Requests \ {r} : ServiceState(s)' = ServiceState(s)
    BY <2>1, <2>4, ServiceStates
  <2>7. CASE stream[r] = <<>> /\ itemRc[r] = "OK"
    <3>1. ServiceState(r) = "pending" /\ ServiceState(r)' = "empty"
      BY <2>1, <2>2, <2>3, <2>4, <2>5, <2>7, ServiceStates
    <3>2. Service!Move(r, "pending", "empty")
      BY <2>2, <2>6, <3>1, ServiceMoves
    <3> QED BY <2>2, <3>2 DEF Service!Next, Service!Finish
  <2>8. CASE stream[r] = <<>> /\ itemRc[r] # "OK"
    <3>1. ServiceState(r) = "pending" /\ ServiceState(r)' = "failed"
      BY <2>1, <2>2, <2>3, <2>4, <2>5, <2>8, ServiceStates
    <3>2. Service!Move(r, "pending", "failed")
      BY <2>2, <2>6, <3>1, ServiceMoves
    <3> QED BY <2>2, <3>2 DEF Service!Next, Service!Fail
  <2>9. CASE stream[r] = <<"data">> /\ itemRc[r] = "OK"
    <3>1. ServiceState(r) = "sent" /\ ServiceState(r)' = "served"
      BY <2>1, <2>2, <2>3, <2>4, <2>5, <2>9, ServiceStates
    <3>2. Service!Move(r, "sent", "served")
      BY <2>2, <2>6, <3>1, ServiceMoves
    <3> QED BY <2>2, <3>2 DEF Service!Next, Service!Finish
  <2> QED BY <2>3, <2>7, <2>8, <2>9 DEF Sent
<1>17. CASE UNCHANGED vars
    BY <1>17, <1>a DEF vars
<1> QED
    BY <1>1, <1>2, <1>3, <1>4, <1>6, <1>7, <1>12, <1>14, <1>15, <1>17
       DEF Next, Request, Watcher, Stopped

\* Queues, workers and watcher together give each client the single-stream
\* service that FetchService describes, however many of each there are.
THEOREM PoolImplementsService == Spec => ImplementsService
<1>1. Init => Service!Init
  <2> SUFFICES ASSUME Init PROVE Service!Init
    OBVIOUS
  <2>1. \A r \in Requests : ServiceState(r) = "unseen"
    BY ServiceStates DEF Init
  <2> QED BY <2>1 DEF Service!Init
<1>2. TypeInv /\ OwnInv /\ [Next]_vars => [Service!Next]_ServiceMap
    BY ServiceStep
<1> QED BY <1>1, <1>2, OwnInvariant, PTL DEF Spec, ImplementsService, Service!Spec, ServiceMap

-----------------------------------------------------------------------------
(* The pool with its clients.                                              *)

\* A step of the module or of a client is a step of the pool or leaves the pool
\* alone: clients only read what the module has sent.
LEMMA RpcRefinesPool == [RpcNext]_rpcVars => [Next]_vars
    BY DEF RpcNext, ModuleStep, ClientCall, ClientRecv, ClientEndOfStream, rpcVars

\* Whatever is proved of the pool holds with its clients.
LEMMA RpcIsPool == RpcSpec => Spec
    BY RpcRefinesPool, PTL DEF RpcSpec, RpcInit, Spec

\* How far a client has read is what its position says, and a client that has
\* reported success has read the whole stream of a served request.
ClientInv ==
    \A r \in Requests :
        /\ client[r] \in {"idle", "recv"} => nread[r] = 0
        /\ client[r] \in {"eos", "nobuf"} =>
            nread[r] = 1 /\ stream[r] # <<>> /\ stream[r][1] = "data"
        /\ client[r] = "OK" => stream[r] = <<"data", "ENODATA">>

RpcInv == RpcTypeOK /\ ClientInv

\* A stream only grows, and a closed one no longer does.
StreamGrows(r) ==
    \/ stream'[r] = stream[r]
    \/ stream[r] = <<>>
    \/ stream[r] = <<"data">> /\ stream'[r] \in {<<"data", "ENODATA">>, <<"data", "error">>}

\* The module sends at the end of a stream, and to the one request whose turn it is.
LEMMA StreamsGrow ==
    TypeInv /\ OwnInv /\ [Next]_vars => \A r \in Requests : StreamGrows(r)
<1> SUFFICES ASSUME TypeInv, OwnInv, [Next]_vars, NEW s \in Requests
             PROVE  StreamGrows(s)
    OBVIOUS
<1> USE DEF StreamGrows, OwnInv
<1>0. /\ RangeRequests \subseteq Requests /\ batch \in Seq(RangeRequests)
      /\ stream \in [Requests -> Seq(Message)]
    BY DEF TypeInv, TypeOK, Requests
<1>1. ASSUME NEW r \in Requests, RejectRequest(r) \/ ServeInline(r) PROVE StreamGrows(s)
  <2>1. stream[r] = <<>>
    BY <1>1 DEF RejectRequest, ServeInline, StageInv, Stage, Untouched
  <2>2. \E str : stream' = [stream EXCEPT ![r] = str]
    BY <1>1, Zenon DEF RejectRequest, ServeInline
  <2> QED BY <1>0, <2>1, <2>2
<1>2. CASE WatcherSend
  <2>0. PICK r : r = Head(batch)
    OBVIOUS
  <2>1. r \in Requests /\ Taken(r) /\ rpc = "reply"
    BY <1>0, <1>2, <2>0, OnHeadTail DEF WatcherSend, LinkedOnce, Taken
  <2>2. stream[r] = <<>>
    BY <2>1 DEF StageInv, Stage, Untouched
  <2>3. stream' = stream \/ \E str : stream' = [stream EXCEPT ![r] = str]
    BY <1>2, <2>0, Zenon DEF WatcherSend
  <2> QED BY <1>0, <2>2, <2>3
<1>3. CASE WatcherClose
  <2>0. PICK r : r = Head(batch)
    OBVIOUS
  <2>1. /\ rpc = "close" /\ batch # <<>>
        /\ stream' = [stream EXCEPT ![r] =
                        Append(stream[r], IF itemRc[r] = "OK" THEN "ENODATA" ELSE "error")]
    BY <1>3, <2>0 DEF WatcherClose, TypeInv, HoldsItem
  <2>2. Sent(r) /\ r \in Requests
    <3>1. r \in Requests /\ Taken(r)
      BY <1>0, <2>0, <2>1, OnHeadTail DEF LinkedOnce, Taken
    <3> QED BY <2>0, <2>1, <3>1 DEF StageInv, Stage
  <2>3. /\ Append(<<"data">>, "ENODATA") = <<"data", "ENODATA">>
        /\ Append(<<"data">>, "error") = <<"data", "error">>
    BY AppendToOne, Zenon
  <2> QED BY <1>0, <2>1, <2>2, <2>3 DEF Sent
<1>4. CASE UNCHANGED stream
    BY <1>4
<1> QED
    BY <1>1, <1>2, <1>3, <1>4
       DEF Next, Request, Worker, Watcher, Stopped, vars, PoolStart, PoolStop,
           PoolJoined, EnqueueRange, WorkerTake, WorkerProcess, WorkerPush,
           WorkerWake, SpuriousWakeup, WatcherDrain, WatcherTake, WatcherReturn

\* What a client can find at the two positions it reads: when the second message
\* is ENODATA, the first was the data.
LEMMA StreamShapes ==
    ASSUME OwnInv, NEW r \in Requests
    PROVE  /\ Len(stream[r]) > 0 => stream[r] # <<>> /\ stream[r][1] \in Message
           /\ Len(stream[r]) > 1 /\ stream[r][2] = "ENODATA" => stream[r] = <<"data", "ENODATA">>
    BY OpenStreams DEF ClosedStreams, Message

\* Every step of the module and of a client preserves what the client's position
\* says of the stream.
LEMMA RpcStep == TypeInv /\ OwnInv /\ RpcInv /\ [RpcNext]_rpcVars => RpcInv'
<1> SUFFICES ASSUME TypeInv, OwnInv, RpcInv, [RpcNext]_rpcVars PROVE RpcInv'
    OBVIOUS
<1> USE DEF RpcInv, RpcTypeOK, ClientInv, Returned
<1>1. CASE ModuleStep
  <2>1. UNCHANGED <<client, nread>> /\ \A r \in Requests : StreamGrows(r)
    BY <1>1, StreamsGrow DEF ModuleStep
  <2>2. ASSUME NEW r \in Requests, stream[r] # <<>>, stream[r][1] = "data"
        PROVE  stream'[r] # <<>> /\ stream'[r][1] = "data"
    BY <2>1, <2>2 DEF StreamGrows
  <2>3. ASSUME NEW r \in Requests, stream[r] = <<"data", "ENODATA">>
        PROVE  stream'[r] = <<"data", "ENODATA">>
    <3>1. <<"data", "ENODATA">> # <<>> /\ <<"data", "ENODATA">> # <<"data">>
      OBVIOUS
    <3> QED BY <2>1, <2>3, <3>1 DEF StreamGrows
  <2> QED BY <2>1, <2>2, <2>3
<1>2. ASSUME NEW r \in Requests, ClientCall(r) PROVE RpcInv'
    BY <1>2 DEF ClientCall, vars
<1>3. ASSUME NEW r \in Requests, ClientRecv(r) PROVE RpcInv'
  <2>1. /\ nread[r] = 0 /\ nread' = [nread EXCEPT ![r] = 1]
        /\ Len(stream[r]) > 0 /\ UNCHANGED stream
    BY <1>3 DEF ClientRecv, RecvFlux, RecvMargo, vars
  <2>2. PICK to \in {"eos", "nobuf", "RPC_FINISHED", "BADRPC"} :
            /\ client' = [client EXCEPT ![r] = to]
            /\ to \in {"eos", "nobuf"} => stream[r][1] = "data"
    <3>1. CASE RecvMargo(r)
      BY <2>1, <3>1 DEF RecvMargo
    <3>2. CASE RecvFlux(r)
      <4>1. stream[r][1] \in Message /\ nread[r] + 1 = 1
        BY <2>1, StreamShapes
      <4>2. \E to \in CASE stream[r][1] = "data" -> {"eos", "nobuf"}
                        [] stream[r][1] = "ENODATA" -> {"RPC_FINISHED"}
                        [] stream[r][1] = "error" -> {"BADRPC"} :
              client' = [client EXCEPT ![r] = to]
        BY <3>2, <4>1, Zenon DEF RecvFlux
      <4> QED BY <4>1, <4>2 DEF Message
    <3> QED BY <1>3, <3>1, <3>2 DEF ClientRecv
  <2>3. stream[r] # <<>>
    BY <2>1, StreamShapes
  <2> QED BY <2>1, <2>2, <2>3
<1>4. ASSUME NEW r \in Requests, ClientEndOfStream(r) PROVE RpcInv'
  <2>1. /\ nread[r] = 1 /\ Len(stream[r]) > 1
        /\ nread' = [nread EXCEPT ![r] = 2] /\ UNCHANGED stream
    <3>1. nread[r] = 1 /\ nread[r] + 1 = 2
      BY <1>4 DEF ClientEndOfStream
    <3>2. nread' = [nread EXCEPT ![r] = nread[r] + 1]
      BY <1>4 DEF ClientEndOfStream
    <3> QED BY <1>4, <3>1, <3>2 DEF ClientEndOfStream, vars
  <2>2. PICK to \in {"OK", "SYSFAIL", "BADRPC"} :
            /\ client' = [client EXCEPT ![r] = to]
            /\ to = "OK" => stream[r][2] = "ENODATA"
    BY <1>4, <2>1 DEF ClientEndOfStream
  <2>3. to = "OK" => stream[r] = <<"data", "ENODATA">>
    BY <2>1, <2>2, StreamShapes
  <2> QED BY <2>1, <2>2, <2>3
<1>5. CASE UNCHANGED rpcVars
    BY <1>5 DEF rpcVars, vars
<1> QED BY <1>1, <1>2, <1>3, <1>4, <1>5 DEF RpcNext

\* Pool, ownership and clients together.
LEMMA RpcInvariant == RpcSpec => [](TypeInv /\ OwnInv /\ RpcInv)
<1>1. RpcInit => RpcInv
    BY DEF RpcInit, RpcInv, RpcTypeOK, ClientInv
<1>2. Spec => [](TypeInv /\ OwnInv)
    BY OwnInvariant
<1> QED BY <1>1, <1>2, RpcIsPool, RpcRefinesPool, RpcStep, PTL DEF RpcSpec

\* Every request a client sends is in one place until its stream is closed and in
\* none afterwards, with at most one data message, one close and one release.
THEOREM RequestsAreAccounted == RpcSpec => []RequestsAccounted
<1>1. TypeInv /\ RpcInv => TypeOK /\ RpcTypeOK
    BY DEF TypeInv, RpcInv
<1>2. Spec => [](StreamWellFormed /\ OpenIsInFlight /\ ItemReleasedOnce)
    BY StreamsWellFormed, OpenNeverDropped, ItemsReleasedOnce, PTL
<1> QED BY <1>1, <1>2, RpcIsPool, RpcInvariant, PTL DEF RequestsAccounted

\* dyad_get_data() never takes a failure of a worker, of a send or of the module
\* for a success: the stream of a fetch that returned 0 was served whole.
THEOREM OkIsServed == RpcSpec => []OkMeansServed
<1>1. OwnInv /\ RpcInv => OkMeansServed
  <2> SUFFICES ASSUME OwnInv, RpcInv, NEW r \in Requests, client[r] = "OK"
               PROVE  /\ stream[r] = <<"data", "ENODATA">>
                      /\ itemRc[r] # "error" /\ ~InFlight(r)
    BY DEF OkMeansServed
  <2>1. stream[r] = <<"data", "ENODATA">>
    BY DEF RpcInv, ClientInv
  <2>2. Closed(r)
    BY <2>1 DEF Closed, ClosedStreams
  <2> QED BY <2>1, <2>2, OpenStreams DEF Finished
<1> QED BY <1>1, RpcInvariant, PTL

\* With its clients around it the pool still gives each of them the service of
\* FetchService.
THEOREM RpcImplementsService == RpcSpec => ImplementsService
    BY RpcIsPool, PoolImplementsService
=============================================================================
