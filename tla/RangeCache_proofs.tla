-------------------------- MODULE RangeCache_proofs --------------------------
(***************************************************************************)
(* Proofs about RangeCache for any origin file, any processes and any      *)
(* threads in them.  Soundness of the bitmap does not need the record      *)
(* locks: a process that loses its lock by a sibling's close() can lose    *)
(* bits, but never makes the bitmap claim a block that is not there.  That *)
(* no bit is lost is proved where each process has one thread, or all the  *)
(* threads are in one process.                                             *)
(***************************************************************************)
EXTENDS RangeCache, TLAPS

\* A thread on its way to record its span has written it, and the local
\* file exists once the bitmap has its size.
FetchedInv ==
    /\ \A t \in Threads : pc[t] \in {"mutex2", "excl2", "read", "write"} => span[t] \subseteq data
    /\ sized => localFile
    /\ \A t \in Threads : pc[t] = "fetch" => sized

CacheInv == TypeOK /\ FetchedInv /\ BitMeansData /\ OkMeansPresent

\* The inductive step, one case per step of dyad_range_cache_ensure().
LEMMA CacheStep == CacheInv /\ [Next]_vars => CacheInv'
<1> USE ThreadsAssumption, SpansAssumption, CallsAssumption
<1> SUFFICES ASSUME CacheInv, [Next]_vars PROVE CacheInv'
    OBVIOUS
<1> USE DEF CacheInv, TypeOK, FetchedInv, BitMeansData, OkMeansPresent,
            Pc, callVars, fileVars, Goto, Return
<1>1. ASSUME NEW t \in Threads, NEW s \in Spans, Call(t, s) PROVE CacheInv'
    BY <1>1 DEF Call
<1>2. ASSUME NEW t \in Threads, Mutex1(t) PROVE CacheInv'
    BY <1>2 DEF Mutex1, LockMutex
<1>3. ASSUME NEW t \in Threads, Shared(t) PROVE CacheInv'
    BY <1>3 DEF Shared, SharedFlock
<1>4. ASSUME NEW t \in Threads, Look(t) PROVE CacheInv'
    BY <1>4 DEF Look, ReleaseBoth, ReleaseFlock
<1>5. ASSUME NEW t \in Threads, Excl1(t) PROVE CacheInv'
    BY <1>5 DEF Excl1, ExclFlock
<1>6. ASSUME NEW t \in Threads, Recheck(t) PROVE CacheInv'
  <2> USE <1>6
  <2>1. /\ UNCHANGED <<calls, span, buf, bits, data>>
        /\ mutex' \in [Processes -> Threads \cup {NoThread}]
        /\ flock' \in [Processes -> {"none", "shared", "excl"}]
    BY DEF Recheck, ReleaseBoth, ReleaseFlock
  <2>2. CASE Return(t, "error") /\ localFile' \in {localFile, TRUE} /\ UNCHANGED sized
    BY <2>1, <2>2 DEF Recheck
  <2>3. CASE /\ sized' = TRUE
             /\ localFile' = (sized => localFile)
             /\ \/ span[t] \subseteq bits /\ Return(t, "OK")
                \/ /\ ReadErrors \/ ~(span[t] \subseteq bits)
                   /\ Goto(t, "fetch") /\ UNCHANGED rc
                \/ Return(t, "error")
    <3>1. sized' = TRUE /\ localFile' = TRUE
      BY <2>3, Zenon
    <3>2. CASE span[t] \subseteq bits /\ Return(t, "OK")
      BY <2>1, <3>1, <3>2 DEF Recheck
    <3>3. CASE Goto(t, "fetch") /\ UNCHANGED rc
      BY <2>1, <3>1, <3>3 DEF Recheck
    <3>4. CASE Return(t, "error")
      BY <2>1, <3>1, <3>4 DEF Recheck
    <3> QED BY <2>3, <3>2, <3>3, <3>4
  <2> QED BY <2>2, <2>3, Zenon DEF Recheck
<1>7. ASSUME NEW t \in Threads, Fetch(t) PROVE CacheInv'
    BY <1>7 DEF Fetch
<1>8. ASSUME NEW t \in Threads, Mutex2(t) PROVE CacheInv'
    BY <1>8 DEF Mutex2, LockMutex
<1>9. ASSUME NEW t \in Threads, Excl2(t) PROVE CacheInv'
    BY <1>9 DEF Excl2, ExclFlock
<1>10. ASSUME NEW t \in Threads, Read(t) PROVE CacheInv'
    BY <1>10 DEF Read
<1>11. ASSUME NEW t \in Threads, Write(t) PROVE CacheInv'
    BY <1>11 DEF Write, ReleaseBoth, ReleaseFlock
<1>12. ASSUME NEW t \in Threads, FlockFails(t) PROVE CacheInv'
    BY <1>12 DEF FlockFails
<1>13. ASSUME NEW t \in Threads, AllocFails(t) PROVE CacheInv'
    BY <1>13 DEF AllocFails, ReleaseBoth, ReleaseFlock
<1>14. ASSUME NEW t \in Threads, Close(t) PROVE CacheInv'
    BY <1>14 DEF Close, ReleaseFlock
<1>15. ASSUME NEW p \in Processes, Kill(p) PROVE CacheInv'
    BY <1>15 DEF Kill
<1>16. CASE UNCHANGED vars
    BY <1>16 DEF vars
<1> QED
    BY <1>1, <1>2, <1>3, <1>4, <1>5, <1>6, <1>7, <1>8, <1>9, <1>10, <1>11,
       <1>12, <1>13, <1>14, <1>15, <1>16 DEF Next, Step, Fault

\* The invariant of the range cache holds in every reachable state.
LEMMA CacheInvariant == Spec => []CacheInv
<1>1. Init => CacheInv
  <2> SUFFICES ASSUME Init PROVE CacheInv
    OBVIOUS
  <2>1. TypeOK
    <3>1. sized \in BOOLEAN /\ localFile \in BOOLEAN
      BY Zenon DEF Init
    <3> QED BY <3>1, ThreadsAssumption, CallsAssumption DEF Init, TypeOK, Pc
  <2>2. FetchedInv
    <3>1. sized => localFile
      BY Zenon DEF Init
    <3> QED BY <3>1 DEF Init, FetchedInv
  <2> QED BY <2>1, <2>2 DEF Init, CacheInv, BitMeansData, OkMeansPresent
<1> QED BY <1>1, CacheStep, PTL DEF Spec

\* DYAD_RC_OK means that the requested range is in local_path, for every
\* arrangement of threads and processes, failures and kills included.
THEOREM OkIsPresent == Spec => []OkMeansPresent
    BY CacheInvariant, PTL DEF CacheInv

\* The bitmap never claims a block that is missing.
THEOREM BitmapIsSound == Spec => []BitMeansData
    BY CacheInvariant, PTL DEF CacheInv

\* range_cache_fetch_span() never misses the file it writes into.
THEOREM FileIsThere == Spec => []FetchFindsFile
<1>1. CacheInv => FetchFindsFile
    BY DEF CacheInv, FetchedInv, FetchFindsFile
<1> QED BY <1>1, CacheInvariant, PTL

\* Every variable of the range cache keeps its type.
THEOREM CacheTypeCorrect == Spec => []TypeOK
    BY CacheInvariant, PTL DEF CacheInv

\* The local file and its bitmap agree at every step of
\* dyad_range_cache_ensure(), whichever callers fail or are killed.
THEOREM FilesAgree == Spec => []FilesSound
    BY CacheTypeCorrect, BitmapIsSound, FileIsThere, PTL DEF FilesSound

-----------------------------------------------------------------------------
(* The locks.                                                              *)

\* One thread in each process: the record lock alone keeps threads apart.
OneThreadEach == \A t, u \in Threads : ProcOf[t] = ProcOf[u] => t = u

\* All threads in one process: the mutex alone keeps them apart.
AllTogether == \A t, u \in Threads : ProcOf[t] = ProcOf[u]

MutexInv == \A t \in Threads : pc[t] \in HasMutex => mutex[ProcOf[t]] = t

FlockInv ==
    /\ \A p, q \in Processes : flock[p] = "excl" /\ p # q => flock[q] = "none"
    /\ OneThreadEach => \A t \in Threads :
        pc[t] \in {"recheck", "read", "write"} => flock[ProcOf[t]] = "excl"

LockInv == TypeOK /\ MutexInv /\ FlockInv

\* A thread between lock and unlock of g_range_cache_mutex owns it, and an
\* exclusive record lock excludes every other process.
LEMMA LockStep == LockInv /\ TypeOK' /\ [Next]_vars => LockInv'
<1> USE ThreadsAssumption
<1> SUFFICES ASSUME LockInv, TypeOK', [Next]_vars PROVE MutexInv' /\ FlockInv'
    BY DEF LockInv
<1> USE DEF LockInv, TypeOK, MutexInv, FlockInv, HasMutex, OneThreadEach, Pc,
            callVars, fileVars, Goto, Return, LockMutex, SharedFlock,
            ExclFlock, ReleaseBoth, ReleaseFlock
<1>1. ASSUME NEW t \in Threads, NEW s \in Spans, Call(t, s) PROVE MutexInv' /\ FlockInv'
    BY <1>1 DEF Call
<1>2. ASSUME NEW t \in Threads, Mutex1(t) PROVE MutexInv' /\ FlockInv'
    BY <1>2 DEF Mutex1
<1>3. ASSUME NEW t \in Threads, Shared(t) PROVE MutexInv' /\ FlockInv'
    BY <1>3 DEF Shared
<1>4. ASSUME NEW t \in Threads, Look(t) PROVE MutexInv' /\ FlockInv'
    BY <1>4 DEF Look
<1>5. ASSUME NEW t \in Threads, Excl1(t) PROVE MutexInv' /\ FlockInv'
    BY <1>5 DEF Excl1
<1>6. ASSUME NEW t \in Threads, Recheck(t) PROVE MutexInv' /\ FlockInv'
  <2>1. /\ ReleaseBoth(t)
        /\ Goto(t, "fetch") \/ Goto(t, "close")
    BY <1>6, Zenon DEF Recheck
  <2>2. pc' \in [Threads -> Pc] /\ pc'[t] \notin HasMutex
    BY <2>1
  <2>3. \A u \in Threads \ {t} : pc'[u] = pc[u]
    BY <2>1
  <2>4. MutexInv'
    BY <1>6, <2>1, <2>2, <2>3 DEF Recheck
  <2>5. FlockInv'
    BY <2>1, <2>2, <2>3
  <2> QED BY <2>4, <2>5
<1>7. ASSUME NEW t \in Threads, Fetch(t) PROVE MutexInv' /\ FlockInv'
    BY <1>7 DEF Fetch
<1>8. ASSUME NEW t \in Threads, Mutex2(t) PROVE MutexInv' /\ FlockInv'
    BY <1>8 DEF Mutex2
<1>9. ASSUME NEW t \in Threads, Excl2(t) PROVE MutexInv' /\ FlockInv'
    BY <1>9 DEF Excl2
<1>10. ASSUME NEW t \in Threads, Read(t) PROVE MutexInv' /\ FlockInv'
    BY <1>10 DEF Read
<1>11. ASSUME NEW t \in Threads, Write(t) PROVE MutexInv' /\ FlockInv'
    BY <1>11 DEF Write
<1>12. ASSUME NEW t \in Threads, FlockFails(t) PROVE MutexInv' /\ FlockInv'
    BY <1>12 DEF FlockFails
<1>13. ASSUME NEW t \in Threads, AllocFails(t) PROVE MutexInv' /\ FlockInv'
    BY <1>13 DEF AllocFails
<1>14. ASSUME NEW t \in Threads, Close(t) PROVE MutexInv' /\ FlockInv'
    BY <1>14 DEF Close
<1>15. ASSUME NEW p \in Processes, Kill(p) PROVE MutexInv' /\ FlockInv'
    BY <1>15 DEF Kill
<1>16. CASE UNCHANGED vars
    BY <1>16 DEF vars
<1> QED
    BY <1>1, <1>2, <1>3, <1>4, <1>5, <1>6, <1>7, <1>8, <1>9, <1>10, <1>11,
       <1>12, <1>13, <1>14, <1>15, <1>16 DEF Next, Step, Fault

\* With one thread in each process, or one process, the locks leave room for
\* one read-modify-write of the bitmap at a time.
LEMMA LocksExclude == LockInv /\ (OneThreadEach \/ AllTogether) => OneWriter
<1> SUFFICES ASSUME LockInv, OneThreadEach \/ AllTogether,
                    NEW t \in Threads, NEW u \in Threads,
                    pc[t] = "write", pc[u] \in {"read", "write"}
             PROVE  t = u
    BY DEF OneWriter
<1>1. CASE ProcOf[t] = ProcOf[u]
    BY <1>1 DEF LockInv, MutexInv, HasMutex
<1>2. CASE ProcOf[t] # ProcOf[u]
  <2>1. OneThreadEach
    BY <1>2 DEF AllTogether
  <2>2. flock[ProcOf[t]] = "excl" /\ flock[ProcOf[u]] = "excl"
    BY <2>1 DEF LockInv, FlockInv
  <2> QED BY <1>2, <2>2, ThreadsAssumption DEF LockInv, FlockInv
<1> QED BY <1>1, <1>2

\* The copy of the bitmap a thread is about to write back is still current.
CopyInv == \A t \in Threads : pc[t] = "write" => buf[t] = bits

\* The locks hold in every reachable state.
LEMMA LockInvariant == Spec => []LockInv
<1>1. Init => MutexInv /\ FlockInv
    BY ThreadsAssumption DEF Init, MutexInv, FlockInv, HasMutex
<1> QED BY <1>1, CacheTypeCorrect, LockStep, PTL DEF Spec, LockInv

\* One thread at a time records a span, when each process has one thread or
\* all threads share a process.
THEOREM WriterIsAlone ==
    ASSUME OneThreadEach \/ AllTogether
    PROVE  Spec => []OneWriter
<1>1. LockInv => OneWriter
    BY LocksExclude
<1> QED BY <1>1, LockInvariant, PTL

\* No step changes the bitmap between the read and the write-back of a
\* thread that has it to itself.
LEMMA CopyStep ==
    ~ReadErrors /\ TypeOK /\ OneWriter /\ CopyInv /\ [Next]_vars => CopyInv'
<1> SUFFICES ASSUME ~ReadErrors, TypeOK, OneWriter, CopyInv, [Next]_vars
             PROVE  CopyInv'
    OBVIOUS
<1> USE DEF TypeOK, CopyInv, callVars, fileVars, Goto, Return
<1>1. ASSUME NEW t \in Threads, Read(t) PROVE CopyInv'
    BY <1>1 DEF Read
<1>2. ASSUME NEW t \in Threads, Write(t) PROVE CopyInv'
  <2> SUFFICES ASSUME NEW u \in Threads, pc'[u] = "write" PROVE FALSE
    OBVIOUS
  <2> QED BY <1>2 DEF Write, OneWriter
<1>3. ASSUME NEW t \in Threads, Step(t) \/ Fault(t), ~Read(t), ~Write(t) PROVE CopyInv'
    BY <1>3 DEF Step, Fault, Mutex1, Shared, Look, Excl1, Recheck, Fetch, Mutex2,
        Excl2, FlockFails, AllocFails, Close
<1>4. ASSUME NEW t \in Threads, NEW s \in Spans, Call(t, s) PROVE CopyInv'
    BY <1>4 DEF Call
<1>5. ASSUME NEW p \in Processes, Kill(p) PROVE CopyInv'
    BY <1>5 DEF Kill
<1>6. CASE UNCHANGED vars
    BY <1>6 DEF vars
<1> QED BY <1>1, <1>2, <1>3, <1>4, <1>5, <1>6 DEF Next

\* In the same arrangements, and as long as the bitmap file can be read, a
\* bit that is set stays set: the recording merges with what others recorded.
THEOREM NoBitIsLost ==
    ASSUME OneThreadEach \/ AllTogether, ~ReadErrors
    PROVE  Spec => BitsOnlyGrow
<1>1. Init => CopyInv
    BY DEF Init, CopyInv
<1>2. TypeOK /\ OneWriter /\ CopyInv /\ [Next]_vars => CopyInv'
    BY CopyStep
<1>3. CopyInv /\ [Next]_vars => [bits \subseteq bits']_bits
  <2> SUFFICES ASSUME CopyInv, Next, bits' # bits PROVE bits \subseteq bits'
    BY DEF vars
  <2>1. PICK t \in Threads : Write(t)
    BY DEF Next, Step, Fault, Call, Mutex1, Shared, Look, Excl1, Recheck, Fetch,
        Mutex2, Excl2, Read, FlockFails, AllocFails, Close, Kill, fileVars
  <2> QED BY <2>1 DEF Write, CopyInv
<1> QED
    BY <1>1, <1>2, <1>3, CacheTypeCorrect, WriterIsAlone, PTL
       DEF Spec, BitsOnlyGrow
=============================================================================
