----------------------------- MODULE CacheEvict ------------------------------
(***************************************************************************)
(* A managed directory with eviction (src/dyad/cache/): processes that     *)
(* produce, consume whole files, consume by metadata and consume ranges    *)
(* (src/dyad/client/dyad_client.c), each of which evicts at the end of a   *)
(* successful produce or whole-file consume.                               *)
(*                                                                         *)
(* A directory entry leads to an inode; unlink() removes the entry while   *)
(* processes that have the file open keep the inode, with its lock and its *)
(* contents.  An inode is named by its file and a generation.  Every       *)
(* process has one thread; its record lock on an inode goes with the first *)
(* close() of that inode.  A file has one block, so that a bitmap is       *)
(* unsized ("empty"), sized ("part") or says that the block is there       *)
(* ("whole"), and a data file is empty, sized but not filled, or whole.    *)
(* RangeCache has the inner steps of dyad_range_cache_ensure(); here each  *)
(* stretch under the lock of the bitmap is one step.                       *)
(***************************************************************************)
EXTENDS Integers, FiniteSets

CONSTANTS
    Procs,       \* processes on the node
    Files,       \* files consumed whole
    RangeFiles,  \* files consumed by range, from an origin_path
    LocalFiles,  \* files produced into this directory
    None,        \* no process
    Capacity,    \* cache_capacity_bytes, a file or bitmap counting for one
    Low,         \* the low watermark
    Confs,       \* cache_policy_mode, cache_grace_period_sec, may calls fail?
    MaxGen,      \* bound on the inodes of one name
    MaxCalls,    \* bound on the calls of all processes together
    MaxTime      \* bound on the clock

Bitmap(r) == <<"bitmap", r>>
Names == Files \cup RangeFiles \cup LocalFiles \cup {Bitmap(r) : r \in RangeFiles}

ASSUME EvictAssumption ==
    /\ {Capacity, Low, MaxGen, MaxCalls, MaxTime} \subseteq Nat
    /\ Low <= Capacity /\ MaxGen > 0
    /\ IsFiniteSet(Names)
    /\ Confs \subseteq {"LRU", "FIFO"} \X Nat \X BOOLEAN
    /\ None \notin Procs

Time == 0..MaxTime
Gen == 1..MaxGen
Inode == [data : {"empty", "part", "whole"}, lock : Procs \cup {None},
          atime : Time, mtime : Time]
Entry == [name : Names, atime : Time, key : Time, size : {0, 1}]

\* One call of a process: the operation, its file, the generations opened as
\* lock_fd (or bitmap_fd) and as io_fd, when it created the file, if it did, and
\* whether the metadata names another rank or its own as the owner.
NoCall == [op |-> "none", name |-> None, fd |-> 0, wfd |-> 0, since |-> -1, owner |-> "remote"]
Call ==
    [op : {"none", "consume", "consume_w", "produce", "range"}, name : Names \cup {None},
     fd : 0..MaxGen, wfd : 0..MaxGen, since : Time \cup {-1}, owner : {"remote", "self"}]

\* One pass of an evictor: candidates it has not come to, its total_size, its
\* reading of the clock, and the file it has opened.
NoPass == [entries |-> {}, total |-> 0, started |-> 0, name |-> None, gen |-> 0, size |-> 0]
Pass == [entries : SUBSET Entry, total : 0..Cardinality(Names), started : Time,
         name : Names \cup {None}, gen : 0..MaxGen, size : {0, 1}]

VARIABLES
    now,     \* the clock
    policy,  \* cache_policy: recency is st_atime or st_mtime
    grace,   \* cache_grace_period_sec
    faults,  \* whether system calls and RPCs may fail
    dir,     \* generation each name leads to, 0 if there is no such entry
    last,    \* last generation of each name
    ino,     \* the inodes of each name
    dirlock, \* holder of .dyad_cache.lock
    pc,      \* where each process is
    call,    \* its current call
    pass,    \* its eviction
    rc,      \* what its last call returned
    calls    \* calls begun by all

conf == <<policy, grace, faults>>
fsVars == <<dir, last, ino>>
vars == <<now, conf, fsVars, dirlock, pc, call, pass, rc, calls>>

Pcs == {"idle", "meta", "lock", "size", "fetch", "store", "write", "publish", "scan",
        "dirlock", "rescan", "victim", "try", "unlink", "read",
        "rlook", "rexcl", "rfetch", "rrecord", "rread"}

TypeOK ==
    /\ now \in Time /\ conf \in Confs
    /\ dir \in [Names -> 0..MaxGen]
    /\ last \in [Names -> 0..MaxGen]
    /\ \A n \in Names : dir[n] \in {0, last[n]}
    /\ ino \in [Names -> [Gen -> Inode]]
    /\ dirlock \in Procs \cup {None}
    /\ pc \in [Procs -> Pcs]
    /\ call \in [Procs -> Call]
    /\ pass \in [Procs -> Pass]
    /\ rc \in [Procs -> {"none", "OK", "error"}]
    /\ calls \in 0..MaxCalls

\* Files within the capacity may be there from earlier calls.
Init ==
    /\ now = 0
    /\ \E c \in Confs : policy = c[1] /\ grace = c[2] /\ faults = c[3]
    /\ \E old \in SUBSET (Files \cup LocalFiles) :
        /\ Cardinality(old) <= Capacity
        /\ dir = [n \in Names |-> IF n \in old THEN 1 ELSE 0]
        /\ ino = [n \in Names |-> [g \in Gen |->
                     [data |-> IF n \in old /\ g = 1 THEN "whole" ELSE "empty",
                      lock |-> None, atime |-> 0, mtime |-> 0]]]
    /\ last = dir
    /\ dirlock = None
    /\ pc = [p \in Procs |-> "idle"]
    /\ call = [p \in Procs |-> NoCall]
    /\ pass = [p \in Procs |-> NoPass]
    /\ rc = [p \in Procs |-> "none"]
    /\ calls = 0

-----------------------------------------------------------------------------
(* The file system.                                                        *)

Free(n, g, p) == ino[n][g].lock \in {None, p}
Goto(p, l) == pc' = [pc EXCEPT ![p] = l]
Size(n) == IF dir[n] = 0 \/ ino[n][dir[n]].data = "empty" THEN 0 ELSE 1
TotalSize == Cardinality({n \in Names : Size(n) = 1})

\* ftruncate() or write(): an empty file gets a size.
Sized(i) == [i EXCEPT !.data = IF @ = "empty" THEN "part" ELSE @]

\* Everything is there, just written.
Written(i) == [i EXCEPT !.data = "whole", !.mtime = now]

\* An inode that was opened to be given a size ("part") or to be left as it is.
OpenedAs(i, data) == IF data = "part" THEN Sized(i) ELSE i

\* open(n, O_CREAT): n leads to an inode afterwards.
Created(n, data) ==
    IF dir[n] # 0
    THEN /\ ino' = [ino EXCEPT ![n][dir[n]] = OpenedAs(@, data)]
         /\ UNCHANGED <<dir, last>>
    ELSE /\ last[n] < MaxGen
         /\ dir' = [dir EXCEPT ![n] = last[n] + 1]
         /\ last' = [last EXCEPT ![n] = last[n] + 1]
         /\ ino' = [ino EXCEPT ![n][last[n] + 1] =
                       [data |-> data, lock |-> None, atime |-> now, mtime |-> now]]

\* A record lock that p has left on the inode is gone, and it was used at time t.
Looked(i, p, t) == [i EXCEPT !.lock = IF @ = p THEN None ELSE @, !.atime = t]

\* open(n) without O_CREAT, and close(): the close gives up the lock, and reading
\* in between sets the access time.
Visited(n, p, t) ==
    IF dir[n] = 0 THEN ino
    ELSE [ino EXCEPT ![n][dir[n]] = Looked(@, p, t)]

\* What ftruncate() leaves of a range's file, which open() may have created.
Prepared(n, i) ==
    IF dir[n] = 0 THEN [data |-> "part", lock |-> None, atime |-> now, mtime |-> now]
    ELSE Sized(i)

\* The generation it opens.
Opened(n) == IF dir[n] = 0 THEN last[n] + 1 ELSE dir[n]

Tick ==
    /\ now < MaxTime
    /\ now' = now + 1
    /\ UNCHANGED <<conf, fsVars, dirlock, pc, call, pass, rc, calls>>

\* A call that has opened generation g of the file n.
Begin(p, o, n, g, t) ==
    /\ pc[p] = "idle"
    /\ calls < MaxCalls
    /\ calls' = calls + 1
    /\ call' = [call EXCEPT ![p] = [NoCall EXCEPT !.op = o, !.name = n, !.fd = g, !.since = t]]
    /\ rc' = [rc EXCEPT ![p] = "none"]

Return(p, r) ==
    /\ Goto(p, "idle")
    /\ rc' = [rc EXCEPT ![p] = r]
    /\ call' = [call EXCEPT ![p] = NoCall]

-----------------------------------------------------------------------------
(* dyad_produce(), dyad_consume() and dyad_consume_w_metadata().           *)

\* The application creates a file through open(), which takes no lock, and
\* writes it.
ProduceOpen(p, f) ==
    /\ dir[f] = 0
    /\ Begin(p, "produce", f, last[f] + 1, now)
    /\ Created(f, "part")
    /\ Goto(p, "publish")
    /\ UNCHANGED <<now, conf, dirlock, pass>>

\* It closes the file; dyad_produce() publishes it and evicts.
Produce(p) ==
    /\ pc[p] = "publish"
    /\ ino' = [ino EXCEPT ![call[p].name][call[p].fd] = Written(@)]
    /\ Goto(p, "scan")
    /\ UNCHANGED <<now, conf, dir, last, dirlock, call, pass, rc, calls>>

\* dyad_get_metadata(): a file that can be opened is taken to be owned by the
\* caller's own rank, any other is looked up in the KVS.
GetMetadata(p, f) ==
    /\ pc[p] = "idle"
    /\ calls < MaxCalls
    /\ calls' = calls + 1
    /\ call' = [call EXCEPT ![p] = [NoCall EXCEPT !.op = "consume_w", !.name = f,
                                     !.owner = IF dir[f] = 0 THEN "remote" ELSE "self"]]
    /\ rc' = [rc EXCEPT ![p] = "none"]
    /\ ino' = Visited(f, p, IF dir[f] = 0 THEN now ELSE ino[f][dir[f]].atime)
    /\ Goto(p, "meta")
    /\ UNCHANGED <<now, conf, dir, last, dirlock, pass>>

\* open(fname, O_RDWR | O_CREAT) of dyad_consume().
Consume(p, f) ==
    /\ Begin(p, "consume", f, Opened(f), IF dir[f] = 0 THEN now ELSE -1)
    /\ Created(f, "empty")
    /\ Goto(p, "lock")
    /\ UNCHANGED <<now, conf, dirlock, pass>>

\* The same of dyad_consume_w_metadata(), some time after the metadata was got.
ConsumeWMetadata(p) ==
    LET f == call[p].name
    IN  /\ pc[p] = "meta"
        /\ call' = [call EXCEPT ![p].fd = Opened(f), ![p].since = IF dir[f] = 0 THEN now ELSE -1]
        /\ Created(f, "empty")
        /\ Goto(p, "lock")
        /\ UNCHANGED <<now, conf, dirlock, pass, rc, calls>>

Lock(p) ==
    /\ pc[p] = "lock"
    /\ Free(call[p].name, call[p].fd, p)
    /\ ino' = [ino EXCEPT ![call[p].name][call[p].fd].lock = p]
    /\ Goto(p, "size")
    /\ UNCHANGED <<now, conf, dir, last, dirlock, call, pass, rc, calls>>

\* A file with contents has been fetched: the lock is released, and on to the
\* eviction.
CheckSize(p) ==
    /\ pc[p] = "size"
    /\ IF ino[call[p].name][call[p].fd].data = "empty"
       THEN Goto(p, "fetch") /\ UNCHANGED ino
       ELSE Goto(p, "scan") /\ ino' = [ino EXCEPT ![call[p].name][call[p].fd].lock = None]
    /\ UNCHANGED <<now, conf, dir, last, dirlock, call, pass, rc, calls>>

\* The metadata leads to the node itself: its module has no such file under
\* the producer's path.
AsksItself(p) == call[p].op = "consume_w" /\ call[p].owner = "self"

\* dyad_fetch_metadata() and dyad_get_data(), with the lock held.
GetData(p) ==
    /\ pc[p] = "fetch"
    /\ ~AsksItself(p)
    /\ Goto(p, "store")
    /\ UNCHANGED <<now, conf, fsVars, dirlock, call, pass, rc, calls>>

GetDataFails(p) ==
    /\ pc[p] = "fetch"
    /\ faults \/ AsksItself(p)
    /\ ino' = [ino EXCEPT ![call[p].name][call[p].fd].lock = None]
    /\ Return(p, "error")
    /\ UNCHANGED <<now, conf, dir, last, dirlock, pass, calls>>

\* The copy is opened a second time, by name, and written.
OpenCopy(p) ==
    /\ pc[p] = "store"
    /\ dir[call[p].name] # 0
    /\ call' = [call EXCEPT ![p].wfd = dir[call[p].name]]
    /\ ino' = [ino EXCEPT ![call[p].name][dir[call[p].name]] = Sized(@)]
    /\ Goto(p, "write")
    /\ UNCHANGED <<now, conf, dir, last, dirlock, pass, rc, calls>>

\* It is not there, or cannot be opened: neither is the lock released nor
\* lock_fd closed.
OpenCopyFails(p) ==
    /\ pc[p] = "store"
    /\ faults \/ dir[call[p].name] = 0
    /\ Return(p, "error")
    /\ UNCHANGED <<now, conf, fsVars, dirlock, pass, calls>>

\* Variant: eviction is left to the calls that find the file fetched.
StoreDoneNoEvict(p) ==
    /\ pc[p] = "write"
    /\ ino' = [ino EXCEPT ![call[p].name][call[p].wfd] = Written(@),
                          ![call[p].name][call[p].fd].lock = None]
    /\ Goto(p, "read")
    /\ UNCHANGED <<now, conf, dir, last, dirlock, call, pass, rc, calls>>

\* dyad_cons_store() is done, io_fd closed and the lock released.
StoreDone(p) ==
    /\ pc[p] = "write"
    /\ ino' = [ino EXCEPT ![call[p].name][call[p].wfd] = Written(@),
                          ![call[p].name][call[p].fd].lock = None]
    /\ Goto(p, "scan")
    /\ UNCHANGED <<now, conf, dir, last, dirlock, call, pass, rc, calls>>

\* The store or the close fails.  The close of io_fd gives up the lock where
\* the release of dyad_consume_w_metadata(), which names io_fd, does not.
StoreFails(p) ==
    /\ pc[p] = "write"
    /\ faults
    /\ ino' = [ino EXCEPT ![call[p].name][call[p].fd].lock =
                   IF call[p].op = "consume" \/ call[p].wfd = call[p].fd THEN None ELSE @]
    /\ Return(p, "error")
    /\ UNCHANGED <<now, conf, dir, last, dirlock, pass, calls>>

\* The call has returned DYAD_RC_OK; the application opens the file and
\* reads it, if it is there.
Read(p) ==
    /\ pc[p] = "read"
    /\ Return(p, "OK")
    /\ ino' = Visited(call[p].name, p, now)
    /\ pass' = [pass EXCEPT ![p] = NoPass]
    /\ UNCHANGED <<now, conf, dir, last, dirlock, calls>>

-----------------------------------------------------------------------------
(* dyad_cache_maybe_evict().                                               *)

\* The first scan, without a lock.
Scan(p) ==
    /\ pc[p] = "scan"
    /\ Goto(p, IF TotalSize <= Capacity THEN "read" ELSE "dirlock")
    /\ UNCHANGED <<now, conf, fsVars, dirlock, call, pass, rc, calls>>

\* A scan, the lock file or its lock fails: the call succeeds all the same.
EvictFails(p) ==
    /\ faults
    /\ pc[p] \in {"scan", "dirlock", "rescan"}
    /\ dirlock' = IF pc[p] = "rescan" THEN None ELSE dirlock
    /\ Goto(p, "read")
    /\ UNCHANGED <<now, conf, fsVars, call, pass, rc, calls>>

\* Variant: the lock file is not locked.
DirLockIgnored(p) ==
    /\ pc[p] = "dirlock"
    /\ dirlock' = p
    /\ Goto(p, "rescan")
    /\ UNCHANGED <<now, conf, fsVars, call, pass, rc, calls>>

DirLock(p) ==
    /\ pc[p] = "dirlock"
    /\ dirlock = None
    /\ dirlock' = p
    /\ Goto(p, "rescan")
    /\ UNCHANGED <<now, conf, fsVars, call, pass, rc, calls>>

\* get_recency_key() of the policy.
RecencyKey(i) == IF policy = "LRU" THEN i.atime ELSE i.mtime

\* dyad_cache_scan_dir().
Candidates ==
    {[name |-> n, atime |-> ino[n][dir[n]].atime,
      key |-> RecencyKey(ino[n][dir[n]]), size |-> Size(n)] :
         n \in {m \in Names : dir[m] # 0}}

\* The second scan, with the lock: others may have evicted meanwhile.
Rescan(p) ==
    /\ pc[p] = "rescan"
    /\ IF TotalSize <= Capacity
       THEN Goto(p, "read") /\ dirlock' = None /\ UNCHANGED pass
       ELSE /\ pass' = [pass EXCEPT ![p] = [pass[p] EXCEPT !.entries = Candidates, !.total = TotalSize,
                                                          !.started = now]]
            /\ Goto(p, "victim")
            /\ UNCHANGED dirlock
    /\ UNCHANGED <<now, conf, fsVars, call, rc, calls>>

\* The next candidate: any of those with the smallest key, as qsort() leaves
\* equal keys in any order.
Oldest(p) == {e \in pass[p].entries : \A x \in pass[p].entries : e.key <= x.key}

\* A candidate that was used within the grace period, as far as the scan
\* knows, or that cannot be opened any more is passed over.
NextVictim(p) ==
    /\ pc[p] = "victim"
    /\ pass[p].total > Low
    /\ \E e \in Oldest(p) :
        IF pass[p].started - e.atime < grace \/ dir[e.name] = 0
        THEN /\ pass' = [pass EXCEPT ![p].entries = @ \ {e}]
             /\ UNCHANGED pc
        ELSE /\ pass' = [pass EXCEPT ![p] = [pass[p] EXCEPT !.entries = @ \ {e}, !.name = e.name,
                                                         !.gen = dir[e.name], !.size = e.size]]
             /\ Goto(p, "try")
    /\ UNCHANGED <<now, conf, fsVars, dirlock, call, rc, calls>>

\* Variant: a lock that is held elsewhere is not heeded.
TryLockForced(p) ==
    /\ pc[p] = "try"
    /\ Goto(p, "unlink")
    /\ ino' = [ino EXCEPT ![pass[p].name][pass[p].gen].lock = p]
    /\ UNCHANGED <<now, conf, dir, last, dirlock, call, pass, rc, calls>>

\* dyad_try_excl_flock(): the evictor does not wait for a file in use.
TryLock(p) ==
    /\ pc[p] = "try"
    /\ IF Free(pass[p].name, pass[p].gen, p)
       THEN Goto(p, "unlink") /\ ino' = [ino EXCEPT ![pass[p].name][pass[p].gen].lock = p]
       ELSE Goto(p, "victim") /\ UNCHANGED ino
    /\ UNCHANGED <<now, conf, dir, last, dirlock, call, pass, rc, calls>>

\* unlink() of the name, release and close.
Unlink(p) ==
    /\ pc[p] = "unlink"
    /\ dir' = [dir EXCEPT ![pass[p].name] = 0]
    /\ ino' = [ino EXCEPT ![pass[p].name][pass[p].gen].lock = None]
    /\ pass' = [pass EXCEPT ![p].total = @ - pass[p].size]
    /\ Goto(p, "victim")
    /\ UNCHANGED <<now, conf, last, dirlock, call, rc, calls>>

\* unlink() fails: the file is released and counts on.
UnlinkFails(p) ==
    /\ pc[p] = "unlink"
    /\ faults
    /\ ino' = [ino EXCEPT ![pass[p].name][pass[p].gen].lock = None]
    /\ Goto(p, "victim")
    /\ UNCHANGED <<now, conf, dir, last, dirlock, call, pass, rc, calls>>

\* Variant: the lock of the directory is kept.
EvictDoneKeepsLock(p) ==
    /\ pc[p] = "victim"
    /\ pass[p].total <= Low \/ pass[p].entries = {}
    /\ Goto(p, "read")
    /\ UNCHANGED <<now, conf, fsVars, dirlock, call, pass, rc, calls>>

\* Enough has been removed, or there is no candidate left.
EvictDone(p) ==
    /\ pc[p] = "victim"
    /\ pass[p].total <= Low \/ pass[p].entries = {}
    /\ dirlock' = None
    /\ Goto(p, "read")
    /\ UNCHANGED <<now, conf, fsVars, call, pass, rc, calls>>

-----------------------------------------------------------------------------
(* dyad_consume_range() of a file that is local, with an origin.  It never *)
(* evicts.                                                                 *)

\* dyad_range_cache_ensure() opens the bitmap, creating it.
RangeOpen(p, r) ==
    /\ Begin(p, "range", r, Opened(Bitmap(r)), -1)
    /\ Created(Bitmap(r), "empty")
    /\ Goto(p, "rlook")
    /\ UNCHANGED <<now, conf, dirlock, pass>>

\* The fast path: the bit is set.
RangeLook(p) ==
    LET b == Bitmap(call[p].name)
    IN  /\ pc[p] = "rlook"
        /\ Free(b, call[p].fd, p)
        /\ Goto(p, IF ino[b][call[p].fd].data = "whole" THEN "rread" ELSE "rexcl")
        /\ UNCHANGED <<now, conf, fsVars, dirlock, call, pass,
                       rc, calls>>

\* Under the exclusive lock: unsized files are sized, and the bit is looked
\* at again.
RangeRecheck(p) ==
    LET b == Bitmap(call[p].name)
        r == call[p].name
    IN  /\ pc[p] = "rexcl"
        /\ Free(b, call[p].fd, p)
        /\ IF ino[b][call[p].fd].data = "empty"
           THEN /\ dir[r] = 0 => last[r] < MaxGen
                /\ LET g == Opened(r)
                       sized == [ino EXCEPT ![b][call[p].fd] = Sized(@)]
                   IN  /\ dir' = [dir EXCEPT ![r] = g]
                       /\ last' = [last EXCEPT ![r] = IF dir[r] = 0 THEN g ELSE @]
                       /\ ino' = [sized EXCEPT ![r][g] = Prepared(r, @)]
           ELSE UNCHANGED fsVars
        /\ Goto(p, IF ino[b][call[p].fd].data = "whole" THEN "rread" ELSE "rfetch")
        /\ UNCHANGED <<now, conf, dirlock, call, pass, rc, calls>>

\* range_cache_fetch_span(), without a lock.
RangeFetch(p) ==
    /\ pc[p] = "rfetch"
    /\ dir[call[p].name] # 0
    /\ ino' = [ino EXCEPT ![call[p].name][dir[call[p].name]] = Written(@)]
    /\ Goto(p, "rrecord")
    /\ UNCHANGED <<now, conf, dir, last, dirlock, call, pass, rc, calls>>

RangeFetchFails(p) ==
    /\ pc[p] = "rfetch"
    /\ faults \/ dir[call[p].name] = 0
    /\ Return(p, "error")
    /\ UNCHANGED <<now, conf, fsVars, dirlock, pass, calls>>

\* The bit is recorded in the bitmap that was opened.
RangeRecord(p) ==
    LET b == Bitmap(call[p].name)
    IN  /\ pc[p] = "rrecord"
        /\ Free(b, call[p].fd, p)
        /\ ino' = [ino EXCEPT ![b][call[p].fd] = Written(@)]
        /\ Goto(p, "rread")
        /\ UNCHANGED <<now, conf, dir, last, dirlock, call, pass,
                       rc, calls>>

\* The data file is opened, locked shared and read.
RangeRead(p) ==
    /\ pc[p] = "rread"
    /\ dir[call[p].name] # 0
    /\ Free(call[p].name, dir[call[p].name], p)
    /\ Return(p, "OK")
    /\ ino' = [ino EXCEPT ![call[p].name][dir[call[p].name]].atime = now]
    /\ UNCHANGED <<now, conf, dir, last, dirlock, pass, calls>>

RangeReadFails(p) ==
    /\ pc[p] = "rread"
    /\ faults \/ dir[call[p].name] = 0
    /\ Return(p, "error")
    /\ UNCHANGED <<now, conf, fsVars, dirlock, pass, calls>>

-----------------------------------------------------------------------------
Consumption(p) ==
    \/ Produce(p) \/ ConsumeWMetadata(p) \/ Lock(p) \/ CheckSize(p) \/ GetData(p) \/ GetDataFails(p)
    \/ OpenCopy(p) \/ OpenCopyFails(p) \/ StoreDone(p) \/ StoreFails(p) \/ Read(p)

Eviction(p) ==
    \/ Scan(p) \/ EvictFails(p) \/ DirLock(p) \/ Rescan(p)
    \/ NextVictim(p) \/ TryLock(p) \/ Unlink(p) \/ UnlinkFails(p) \/ EvictDone(p)

RangeConsumption(p) ==
    \/ RangeLook(p) \/ RangeRecheck(p) \/ RangeFetch(p) \/ RangeFetchFails(p)
    \/ RangeRecord(p) \/ RangeRead(p) \/ RangeReadFails(p)

Step(p) == Consumption(p) \/ Eviction(p) \/ RangeConsumption(p)

Next ==
    \/ Tick
    \/ \E p \in Procs :
        \/ Step(p)
        \/ \E f \in LocalFiles : ProduceOpen(p, f)
        \/ \E f \in Files : GetMetadata(p, f) \/ Consume(p, f)
        \/ \E r \in RangeFiles : RangeOpen(p, r)

Spec == Init /\ [][Next]_vars

\* fcntl(F_SETLKW) waits for a lock, where it may also fail.
AwaitsLock(p) ==
    \/ pc[p] = "dirlock" /\ dirlock # None
    \/ /\ pc[p] = "rread" /\ dir[call[p].name] # 0
       /\ ~Free(call[p].name, dir[call[p].name], p)

\* A process that can go on with its call does; no failure ends its wait for a
\* lock.
FairSpec == Spec /\ \A p \in Procs : WF_vars(~AwaitsLock(p) /\ Step(p))

-----------------------------------------------------------------------------
(* Properties.                                                             *)

\* The evictor removes the very inode it has opened and locked: unlink() goes
\* by name, and only the lock of the directory keeps the name from being
\* given to a new file in between.
UnlinksWhatItLocked ==
    \A p \in Procs : pc[p] = "unlink" =>
        /\ dir[pass[p].name] = pass[p].gen
        /\ ino[pass[p].name][pass[p].gen].lock = p

Fetching(p) ==
    /\ pc[p] \in {"size", "fetch", "store", "write"}
    /\ dir[call[p].name] = call[p].fd

\* No evictor takes away a file that is being fetched: as long as a consumer
\* has a file of the directory under lock, its name leads to that file, so the
\* store, which opens it again by name, writes what was locked.
NoEvictionUnderFetch ==
    [][\A p \in Procs : Fetching(p) => Fetching(p)' \/ pc'[p] \in {"idle", "scan", "read"}]_vars

\* A process that creates a file finds it in the directory for the grace
\* period, whoever evicts: st_atime is that of the creation or later.
GraceKeepsNewFile ==
    \A p \in Procs :
        /\ pc[p] \in {"lock", "size", "fetch", "store", "write", "publish", "scan",
                      "dirlock", "rescan", "victim", "try", "unlink", "read"}
        /\ call[p].since # -1
        /\ now - call[p].since < grace
        => dir[call[p].name] = call[p].fd

\* Nothing in the directory is both produced or fetched by DYAD and beyond
\* its capacity once everybody has returned: the last to store scans after
\* all others have stored.
QuietWithinCapacity ==
    /\ grace = 0
    /\ ~faults
    /\ \A p \in Procs : pc[p] = "idle" /\ rc[p] # "error"
    /\ \A r \in RangeFiles : last[r] = 0
    => TotalSize <= Capacity

\* DYAD_RC_OK means that the file is ready to read (dyad_client.h), and for the
\* range cache that the range is present in local_path (range_cache.h).
OkMeansReady ==
    \A p \in Procs : pc[p] \in {"read", "rread"} /\ call[p].op # "produce" =>
        /\ dir[call[p].name] # 0
        /\ ino[call[p].name][dir[call[p].name]].data = "whole"

\* Every call returns, unless a lock was left behind by a call that failed.
CallReturns ==
    \A p \in Procs : pc[p] # "idle" ~>
        \/ pc[p] = "idle"
        \/ \E q \in Procs, n \in Names, g \in Gen :
              pc[q] = "idle" /\ rc[q] = "error" /\ ino[n][g].lock = q

\* The evictor takes the right file or none: the inode it has locked, and not
\* one that was made within the grace period.
VictimsSound == TypeOK /\ UnlinksWhatItLocked /\ GraceKeepsNewFile
=============================================================================
