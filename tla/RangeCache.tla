----------------------------- MODULE RangeCache ------------------------------
(***************************************************************************)
(* dyad_range_cache_ensure() (src/dyad/utils/range_cache.c): the lazily    *)
(* filled local copy of one origin file and the bitmap file                *)
(* "<local_path>.dyad_cached" that says which blocks of it are present.    *)
(*                                                                         *)
(* The callers are the worker threads of the broker module and consumer    *)
(* processes on the same node.  Two locks order them: g_range_cache_mutex  *)
(* between the threads of a process, and fcntl() record locks on the       *)
(* bitmap file between processes.  A record lock belongs to the process,   *)
(* and the kernel drops it when the process closes ANY descriptor of the   *)
(* file; close() is modelled so.                                           *)
(***************************************************************************)
EXTENDS Naturals, FiniteSets

CONSTANTS
    Processes,   \* processes that share local_path
    Threads,     \* threads that call dyad_range_cache_ensure()
    ProcOf,      \* the process of each thread
    Blocks,      \* the blocks of the origin file
    Spans,       \* the block spans a caller may ask for
    NoThread,    \* an unlocked mutex
    ReadErrors,  \* pread() of the bitmap may come back short or fail
    MaxCalls     \* bound: calls each thread makes

ASSUME ThreadsAssumption ==
    /\ ProcOf \in [Threads -> Processes]
    /\ NoThread \notin Threads
ASSUME SpansAssumption == Spans \subseteq SUBSET Blocks
ASSUME CallsAssumption == MaxCalls \in Nat /\ ReadErrors \in BOOLEAN

VARIABLES
    pc,         \* where each thread is
    calls,      \* calls each thread has begun
    span,       \* block_start..block_end of the thread's current call
    buf,        \* the thread's copy of the bitmap in the read-modify-write
    rc,         \* what the current or last call returns
    mutex,      \* g_range_cache_mutex of each process
    flock,      \* the record lock each process holds on the bitmap file
    bits,       \* the bits set in the bitmap file
    sized,      \* the bitmap file has its full size
    localFile,  \* local_path exists with the size of the origin
    data        \* the blocks of local_path that hold the origin's bytes

vars == <<pc, calls, span, buf, rc, mutex, flock, bits, sized, localFile, data>>

callVars == <<calls, span>>
fileVars == <<bits, sized, localFile, data>>

(***************************************************************************)
(* "idle" between calls; "mutex1", "shared", "look" the fast path;         *)
(* "excl1", "recheck" the metadata work on a miss; "fetch" the origin read *)
(* with no lock held; "mutex2", "excl2", "read", "write" the recording of  *)
(* the span; "close" the last close(bitmap_fd); "dead" a killed process.   *)
(***************************************************************************)
Pc == {"idle", "mutex1", "shared", "look", "excl1", "recheck", "fetch",
       "mutex2", "excl2", "read", "write", "close", "dead"}

\* Between pthread_mutex_lock() and pthread_mutex_unlock().
HasMutex == {"shared", "look", "excl1", "recheck", "excl2", "read", "write"}

TypeOK ==
    /\ pc \in [Threads -> Pc]
    /\ calls \in [Threads -> 0..MaxCalls]
    /\ span \in [Threads -> SUBSET Blocks]
    /\ buf \in [Threads -> SUBSET Blocks]
    /\ rc \in [Threads -> {"none", "OK", "error"}]
    /\ mutex \in [Processes -> Threads \cup {NoThread}]
    /\ flock \in [Processes -> {"none", "shared", "excl"}]
    /\ bits \in SUBSET Blocks
    /\ sized \in BOOLEAN
    /\ localFile \in BOOLEAN
    /\ data \in SUBSET Blocks

Init ==
    /\ pc = [t \in Threads |-> "idle"]
    /\ calls = [t \in Threads |-> 0]
    /\ span = [t \in Threads |-> {}]
    /\ buf = [t \in Threads |-> {}]
    /\ rc = [t \in Threads |-> "none"]
    /\ mutex = [p \in Processes |-> NoThread]
    /\ flock = [p \in Processes |-> "none"]
    /\ bits = {}
    /\ sized = FALSE
    /\ localFile = FALSE
    /\ data = {}

-----------------------------------------------------------------------------
(* Locks and control.                                                      *)

Goto(t, to) == pc' = [pc EXCEPT ![t] = to]

\* Leave with a return code through the last close(bitmap_fd).
Return(t, code) == Goto(t, "close") /\ rc' = [rc EXCEPT ![t] = code]

\* pthread_mutex_lock(&g_range_cache_mutex).
LockMutex(t) ==
    /\ mutex[ProcOf[t]] = NoThread
    /\ mutex' = [mutex EXCEPT ![ProcOf[t]] = t]

\* dyad_shared_flock(): granted unless another process holds the lock
\* exclusively.
SharedFlock(t) ==
    /\ \A p \in Processes \ {ProcOf[t]} : flock[p] # "excl"
    /\ flock' = [flock EXCEPT ![ProcOf[t]] = "shared"]

\* dyad_excl_flock(): granted unless another process holds a lock.
ExclFlock(t) ==
    /\ \A p \in Processes \ {ProcOf[t]} : flock[p] = "none"
    /\ flock' = [flock EXCEPT ![ProcOf[t]] = "excl"]

ReleaseFlock(t) == flock' = [flock EXCEPT ![ProcOf[t]] = "none"]

\* dyad_release_flock() and pthread_mutex_unlock(), always in this order.
ReleaseBoth(t) ==
    /\ ReleaseFlock(t)
    /\ mutex' = [mutex EXCEPT ![ProcOf[t]] = NoThread]

\* Variant: the error path of a failed fcntl() forgets the mutex.
FlockFailsLocked(t) ==
    /\ pc[t] \in {"shared", "excl1", "excl2"}
    /\ Return(t, "error")
    /\ UNCHANGED <<callVars, buf, mutex, flock, fileVars>>

\* fcntl() fails: the mutex is unlocked and the call gives up.
FlockFails(t) ==
    /\ pc[t] \in {"shared", "excl1", "excl2"}
    /\ mutex' = [mutex EXCEPT ![ProcOf[t]] = NoThread]
    /\ Return(t, "error")
    /\ UNCHANGED <<callVars, buf, flock, fileVars>>

-----------------------------------------------------------------------------
(* The steps of dyad_range_cache_ensure().                                 *)

\* The call: a span is asked for and the bitmap file is opened or created
\* (or that fails and nothing else happens).
Call(t, s) ==
    /\ pc[t] = "idle"
    /\ calls[t] < MaxCalls
    /\ calls' = [calls EXCEPT ![t] = @ + 1]
    /\ span' = [span EXCEPT ![t] = s]
    /\ \/ Goto(t, "mutex1") /\ rc' = [rc EXCEPT ![t] = "none"]
       \/ rc' = [rc EXCEPT ![t] = "error"] /\ UNCHANGED pc
    /\ UNCHANGED <<buf, mutex, flock, fileVars>>

Mutex1(t) ==
    /\ pc[t] = "mutex1"
    /\ LockMutex(t)
    /\ Goto(t, "shared")
    /\ UNCHANGED <<callVars, buf, rc, flock, fileVars>>

Shared(t) ==
    /\ pc[t] = "shared"
    /\ SharedFlock(t)
    /\ Goto(t, "look")
    /\ UNCHANGED <<callVars, buf, rc, mutex, fileVars>>

\* The fast path.  A short read or a failed malloc() counts as a miss.
Look(t) ==
    /\ pc[t] = "look"
    /\ \/ /\ sized /\ span[t] \subseteq bits
          /\ ReleaseBoth(t)
          /\ Return(t, "OK")
       \/ /\ ReleaseFlock(t)
          /\ Goto(t, "excl1")
          /\ UNCHANGED <<rc, mutex>>
    /\ UNCHANGED <<callVars, buf, fileVars>>

Excl1(t) ==
    /\ pc[t] = "excl1"
    /\ ExclFlock(t)
    /\ Goto(t, "recheck")
    /\ UNCHANGED <<callVars, buf, rc, mutex, fileVars>>

\* Variant: the span is recorded without having been fetched.
RecheckSkipsFetch(t) ==
    /\ pc[t] = "recheck"
    /\ ReleaseBoth(t)
    /\ \/ /\ sized' = TRUE
          /\ localFile' = (sized => localFile)
          /\ IF span[t] \subseteq bits THEN Return(t, "OK")
                                       ELSE Goto(t, "mutex2") /\ UNCHANGED rc
       \/ /\ Return(t, "error")
          /\ localFile' \in {localFile, TRUE}
          /\ UNCHANGED sized
    /\ UNCHANGED <<callVars, buf, bits, data>>

\* stat() of the origin, sizing of both files on the first touch, and the
\* second look at the bitmap, for which calloc() may fail; a bitmap that
\* cannot be read counts as a miss.  Sizing can fail with only local_path
\* done.
Recheck(t) ==
    /\ pc[t] = "recheck"
    /\ ReleaseBoth(t)
    /\ \/ /\ sized' = TRUE
          /\ localFile' = (sized => localFile)
          /\ \/ span[t] \subseteq bits /\ Return(t, "OK")
             \/ /\ ReadErrors \/ ~(span[t] \subseteq bits)
                /\ Goto(t, "fetch") /\ UNCHANGED rc
             \/ Return(t, "error")
       \/ /\ Return(t, "error")
          /\ localFile' \in {localFile, TRUE}
          /\ UNCHANGED sized
    /\ UNCHANGED <<callVars, buf, bits, data>>

\* Variant: a short pwrite() counts as success.
FetchShort(t) ==
    /\ pc[t] = "fetch"
    /\ localFile
    /\ \E part \in SUBSET span[t] : data' = data \cup part
    /\ Goto(t, "mutex2")
    /\ UNCHANGED <<callVars, buf, rc, mutex, flock, bits, sized, localFile>>

\* range_cache_fetch_span(), no lock held: open(O_WRONLY) needs local_path to
\* exist; a failed pwrite() may leave part of the span.
Fetch(t) ==
    /\ pc[t] = "fetch"
    /\ \/ localFile /\ data' = data \cup span[t] /\ Goto(t, "mutex2") /\ UNCHANGED rc
       \/ \E part \in SUBSET span[t] :
            /\ data' = IF localFile THEN data \cup part ELSE data
            /\ Return(t, "error")
    /\ UNCHANGED <<callVars, buf, mutex, flock, bits, sized, localFile>>

Mutex2(t) ==
    /\ pc[t] = "mutex2"
    /\ LockMutex(t)
    /\ Goto(t, "excl2")
    /\ UNCHANGED <<callVars, buf, rc, flock, fileVars>>

Excl2(t) ==
    /\ pc[t] = "excl2"
    /\ ExclFlock(t)
    /\ Goto(t, "read")
    /\ UNCHANGED <<callVars, buf, rc, mutex, fileVars>>

\* The whole bitmap is read into zeroed memory, and what pread() returns is
\* not looked at ...
Read(t) ==
    /\ pc[t] = "read"
    /\ \E b \in IF ReadErrors THEN SUBSET bits ELSE {bits} :
        buf' = [buf EXCEPT ![t] = b]
    /\ Goto(t, "write")
    /\ UNCHANGED <<callVars, rc, mutex, flock, fileVars>>

\* Variant: only the caller's own span is written back.
WriteOwnSpan(t) ==
    /\ pc[t] = "write"
    /\ bits' = span[t]
    /\ Return(t, "OK")
    /\ ReleaseBoth(t)
    /\ UNCHANGED <<callVars, buf, sized, localFile, data>>

\* ... and written back whole with the span added (or pwrite() fails).
Write(t) ==
    /\ pc[t] = "write"
    /\ \/ bits' = buf[t] \cup span[t] /\ Return(t, "OK")
       \/ Return(t, "error") /\ UNCHANGED bits
    /\ ReleaseBoth(t)
    /\ UNCHANGED <<callVars, buf, sized, localFile, data>>

\* calloc() fails when the span is about to be recorded.
AllocFails(t) ==
    /\ pc[t] = "read"
    /\ ReleaseBoth(t)
    /\ Return(t, "error")
    /\ UNCHANGED <<callVars, buf, fileVars>>

\* close(bitmap_fd), with the mutex already unlocked: the kernel drops the
\* record lock of the whole process.
Close(t) ==
    /\ pc[t] = "close"
    /\ ReleaseFlock(t)
    /\ Goto(t, "idle")
    /\ UNCHANGED <<callVars, buf, rc, mutex, fileVars>>

\* The process is killed: its locks go, its writes stay.
Kill(p) ==
    /\ \E t \in Threads : ProcOf[t] = p /\ pc[t] # "dead"
    /\ pc' = [t \in Threads |-> IF ProcOf[t] = p THEN "dead" ELSE pc[t]]
    /\ mutex' = [mutex EXCEPT ![p] = NoThread]
    /\ flock' = [flock EXCEPT ![p] = "none"]
    /\ UNCHANGED <<callVars, buf, rc, fileVars>>

-----------------------------------------------------------------------------
Step(t) ==
    \/ Mutex1(t) \/ Shared(t) \/ Look(t) \/ Excl1(t) \/ Recheck(t)
    \/ Fetch(t)
    \/ Mutex2(t) \/ Excl2(t) \/ Read(t) \/ Write(t)
    \/ Close(t)

Fault(t) == FlockFails(t) \/ AllocFails(t)

Next ==
    \/ \E t \in Threads : Step(t) \/ Fault(t) \/ \E s \in Spans : Call(t, s)
    \/ \E p \in Processes : Kill(p)

Spec == Init /\ [][Next]_vars

\* A thread that can run does; F_SETLKW and pthread_mutex_lock() return when
\* the lock stays free.  Nothing makes a thread call, fail or die on schedule.
FairSpec == Spec /\ \A t \in Threads : WF_vars(Step(t))
-----------------------------------------------------------------------------
(* Properties.                                                             *)

\* The promise of range_cache.h: when the call returns DYAD_RC_OK the range
\* is present in local_path, whoever fetched it and whoever failed or was
\* killed half way through.
OkMeansPresent == \A t \in Threads : rc[t] = "OK" => span[t] \subseteq data

\* A bit is set only for a block that is there, in the bitmap file and in
\* every copy of it that a thread is about to write back.
BitMeansData ==
    /\ bits \subseteq data
    /\ \A t \in Threads : pc[t] = "write" => buf[t] \subseteq data

\* range_cache_fetch_span() opens local_path without O_CREAT: by the time any
\* thread gets there, some caller has created and sized it.
FetchFindsFile == \A t \in Threads : pc[t] = "fetch" => localFile

\* The recording of a span is one read-modify-write at a time: what the
\* mutex gives between threads and the record lock between processes.
OneWriter ==
    \A t, u \in Threads : pc[t] = "write" /\ pc[u] \in {"read", "write"} => t = u

\* The comment above the recording says it merges "with whatever bits any
\* concurrent racers have set": a bit that is set stays set.
BitsOnlyGrow == [][bits \subseteq bits']_bits

\* Every call returns: the two locks are taken in one order, and neither is
\* held across the slow origin fetch or kept by a thread that failed.
CallReturns == \A t \in Threads : pc[t] = "mutex1" ~> pc[t] \in {"idle", "dead"}

\* The two files agree at every step of dyad_range_cache_ensure(), so that a
\* caller may be killed or fail anywhere: no bit without its block, in the file
\* or in a copy of it, and no fetch into a file that nobody has made.
FilesSound == TypeOK /\ BitMeansData /\ FetchFindsFile
=============================================================================
