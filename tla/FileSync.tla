------------------------------ MODULE FileSync -------------------------------
(***************************************************************************)
(* The synchronisation of one producer and several consumers on one file:  *)
(* the GOTCHA wrappers of open/fopen/close/fclose (src/dyad/wrapper) and   *)
(* the C++ streams on the producer's side, dyad_produce() and              *)
(* dyad_consume() (src/dyad/client) underneath, record locks on the file,  *)
(* and the Flux KVS entry that announces it.                               *)
(*                                                                         *)
(* The content of a file is its length in records; what a reader must      *)
(* never get is a file with only part of them.                             *)
(***************************************************************************)
EXTENDS Naturals

CONSTANTS
    Consumers,      \* consumer processes
    Producer,       \* the producer process
    NoOwner,        \* nobody holds the lock
    Nodes,          \* nodes with storage of their own
    ProdNode,       \* the node of the producer
    FileLen,        \* bound: records in the finished file
    Configs         \* the deployments to look at

ASSUME ActorsAssumption ==
    /\ Producer \notin Consumers
    /\ NoOwner \notin Consumers \cup {Producer}
    /\ ProdNode \in Nodes
    /\ FileLen \in Nat \ {0}

Fault == {"lock", "kvs", "rpc", "open", "store", "close", "kill"}

(***************************************************************************)
(* A deployment: the node of each consumer, shared_storage, use_fs_locks   *)
(* and fsync_write of the context, what the producer writes with, and what *)
(* may go wrong: fcntl(), the KVS, the RPC, opening or writing the copy,   *)
(* closing the file, or a process killed.  dyad_wrapper_init() sets        *)
(* use_fs_locks for everything but the streams.                            *)
(***************************************************************************)
Config ==
    {k \in [nodeOf : [Consumers -> Nodes], shared : BOOLEAN, locks : BOOLEAN,
            fsync : BOOLEAN, api : {"open", "fopen", "stream"},
            faults : SUBSET Fault] :
        k.api # "stream" => k.locks}

ASSUME ConfigAssumption == Configs \subseteq Config

VARIABLES
    conf,     \* the deployment, which no step changes
    ppc,      \* where the producer is
    written,  \* records the producer's application has written
    len,      \* records in the file, as every process of the node sees it
    lock,     \* the process that holds the exclusive record lock of the file
    kvs,      \* the KVS has the entry of the file
    cpc,      \* where each consumer is
    got,      \* records dyad_get_data() delivered to it
    pos,      \* records dyad_cons_store() has written
    rc,       \* what its dyad_consume() returned
    seen      \* records its application read

vars == <<conf, ppc, written, len, lock, kvs, cpc, got, pos, rc, seen>>
prodVars == <<conf, ppc, written>>
consVars == <<conf, cpc, got, pos, rc, seen>>

NodeOf == conf.nodeOf
SharedStorage == conf.shared
UseFsLocks == conf.locks
FsyncWrite == conf.fsync
Api == conf.api
Faults == conf.faults

\* Where a consumer finds the file: on shared storage there is one file.
Loc(c) == IF SharedStorage THEN ProdNode ELSE NodeOf[c]

\* stdio and fstream keep records in a buffer of the process.
Buffered == Api # "open"

\* Which producers lock the file they write.  open() does not: its wrapper
\* compares the permission bits with O_WRONLY and O_APPEND, which a creating
\* open() never passes.
ProducerLocks == Api = "fopen" \/ (Api = "stream" /\ UseFsLocks)

TypeOK ==
    /\ conf \in Configs
    /\ ppc \in {"start", "lock", "write", "release", "close", "publish", "done", "dead"}
    /\ written \in 0..FileLen
    /\ len \in [Nodes -> 0..FileLen]
    /\ lock \in [Nodes -> Consumers \cup {Producer, NoOwner}]
    /\ kvs \in BOOLEAN
    /\ cpc \in [Consumers -> {"start", "lock", "size", "kvs", "get", "store", "read", "done", "dead"}]
    /\ got \in [Consumers -> 0..FileLen]
    /\ pos \in [Consumers -> 0..FileLen]
    /\ rc \in [Consumers -> {"none", "OK", "error"}]
    /\ seen \in [Consumers -> 0..FileLen]

Init ==
    /\ conf \in Configs
    /\ ppc = "start"
    /\ written = 0
    /\ len = [n \in Nodes |-> 0]
    /\ lock = [n \in Nodes |-> NoOwner]
    /\ kvs = FALSE
    /\ cpc = [c \in Consumers |-> "start"]
    /\ got = [c \in Consumers |-> 0]
    /\ pos = [c \in Consumers |-> 0]
    /\ rc = [c \in Consumers |-> "none"]
    /\ seen = [c \in Consumers |-> 0]

Acquire(p, n) == lock[n] = NoOwner /\ lock' = [lock EXCEPT ![n] = p]
Drop(p, n) == lock' = [lock EXCEPT ![n] = IF @ = p THEN NoOwner ELSE @]

-----------------------------------------------------------------------------
(* The producer: open for writing, write, close.                           *)

\* The real open truncates the file before the wrapper tries the lock.
Open ==
    /\ ppc = "start"
    /\ len' = [len EXCEPT ![ProdNode] = 0]
    /\ ppc' = IF ProducerLocks THEN "lock" ELSE "write"
    /\ UNCHANGED <<written, lock, kvs, consVars>>

LockFile ==
    /\ ppc = "lock"
    /\ Acquire(Producer, ProdNode)
    /\ ppc' = "write"
    /\ UNCHANGED <<written, len, kvs, consVars>>

\* dyad_excl_flock() fails: the wrapper ignores it and the write goes on.
LockFileFails ==
    /\ "lock" \in Faults
    /\ ppc = "lock"
    /\ ppc' = "write"
    /\ UNCHANGED <<written, len, lock, kvs, consVars>>

\* The application writes a record, to the buffer or to the file.
Write ==
    /\ ppc = "write"
    /\ written < FileLen
    /\ written' = written + 1
    /\ len' = IF Buffered THEN len ELSE [len EXCEPT ![ProdNode] = written + 1]
    /\ UNCHANGED <<ppc, lock, kvs, consVars>>

\* A full buffer goes to the file during the write, the rest of it inside
\* the real fclose().
Flush ==
    /\ Buffered
    /\ ppc \in {"write", "close"}
    /\ len[ProdNode] < written
    /\ len' = [len EXCEPT ![ProdNode] = @ + 1]
    /\ UNCHANGED <<prodVars, lock, kvs, consVars>>

\* Variant: the entry is published ahead of the real close.
EnterClosePublishes ==
    /\ ppc = "write"
    /\ written = FileLen
    /\ ppc' = "publish"
    /\ UNCHANGED <<written, len, lock, kvs, consVars>>

\* Variant: fsync() of the descriptor without fflush() of the stream.
EnterCloseNoFlush ==
    /\ ppc = "write"
    /\ written = FileLen
    /\ ppc' = "release"
    /\ UNCHANGED <<written, len, lock, kvs, consVars>>

\* The application closes the file; with fsync_write the wrapper flushes and
\* syncs first.
EnterClose ==
    /\ ppc = "write"
    /\ written = FileLen
    /\ len' = IF FsyncWrite THEN [len EXCEPT ![ProdNode] = written] ELSE len
    /\ ppc' = "release"
    /\ UNCHANGED <<written, lock, kvs, consVars>>

ReleaseFile ==
    /\ ppc = "release"
    /\ Drop(Producer, ProdNode)
    /\ ppc' = "close"
    /\ UNCHANGED <<written, len, kvs, consVars>>

\* The real close returns once the buffer is empty.
CloseFile ==
    /\ ppc = "close"
    /\ len[ProdNode] = written
    /\ ppc' = "publish"
    /\ UNCHANGED <<written, len, lock, kvs, consVars>>

\* The real close fails to write the rest: that is only logged.
CloseFileFails ==
    /\ "close" \in Faults
    /\ ppc = "close"
    /\ len[ProdNode] < written
    /\ ppc' = "publish"
    /\ UNCHANGED <<written, len, lock, kvs, consVars>>

\* dyad_produce(): the KVS entry is committed.  Its failure is only logged.
Publish ==
    /\ ppc = "publish"
    /\ \/ kvs' = TRUE
       \/ "kvs" \in Faults /\ UNCHANGED kvs
    /\ ppc' = "done"
    /\ UNCHANGED <<written, len, lock, consVars>>

\* The producer is killed: what it had not flushed is lost.
KillProducer ==
    /\ "kill" \in Faults
    /\ ppc \notin {"done", "dead"}
    /\ Drop(Producer, ProdNode)
    /\ ppc' = "dead"
    /\ UNCHANGED <<written, len, kvs, consVars>>

-----------------------------------------------------------------------------
(* A consumer: dyad_consume() from inside open, then the application reads.*)

\* dyad_consume() returns; the wrapper opens the file whatever it returned.
Return(c, code) ==
    /\ cpc' = [cpc EXCEPT ![c] = "read"]
    /\ rc' = [rc EXCEPT ![c] = code]

\* The file is opened for the lock, and created empty if it is not there.
ConsumeOpen(c) ==
    /\ cpc[c] = "start"
    /\ cpc' = [cpc EXCEPT ![c] = "lock"]
    /\ UNCHANGED <<prodVars, len, lock, kvs, got, pos, rc, seen>>

ConsumeLock(c) ==
    /\ cpc[c] = "lock"
    /\ Acquire(c, Loc(c))
    /\ cpc' = [cpc EXCEPT ![c] = "size"]
    /\ UNCHANGED <<prodVars, len, kvs, got, pos, rc, seen>>

\* The file cannot be opened for the lock, or fcntl() fails.
ConsumeLockFails(c) ==
    /\ "lock" \in Faults
    /\ cpc[c] \in {"start", "lock"}
    /\ Return(c, "error")
    /\ UNCHANGED <<prodVars, len, lock, kvs, got, pos, seen>>

\* Variant: the size is trusted even when producers cannot lock.
CheckSizeTrusted(c) ==
    /\ cpc[c] = "size"
    /\ IF len[Loc(c)] = 0
       THEN cpc' = [cpc EXCEPT ![c] = "kvs"] /\ UNCHANGED <<lock, rc>>
       ELSE Drop(c, Loc(c)) /\ Return(c, "OK")
    /\ UNCHANGED <<prodVars, len, kvs, got, pos, seen>>

\* An empty file, or locks that cannot be trusted, send the consumer to the
\* KVS: without the lock on shared storage, with it otherwise.
CheckSize(c) ==
    /\ cpc[c] = "size"
    /\ IF ~UseFsLocks \/ len[Loc(c)] = 0
       THEN /\ cpc' = [cpc EXCEPT ![c] = "kvs"]
            /\ IF SharedStorage THEN Drop(c, Loc(c)) ELSE UNCHANGED lock
            /\ UNCHANGED rc
       ELSE Drop(c, Loc(c)) /\ Return(c, "OK")
    /\ UNCHANGED <<prodVars, len, kvs, got, pos, seen>>

\* dyad_fetch_metadata(): the lookup waits until the entry exists.  Nothing
\* is transferred on shared storage or when the owner is on this node.
Lookup(c) ==
    /\ cpc[c] = "kvs"
    /\ kvs
    /\ IF SharedStorage \/ NodeOf[c] = ProdNode
       THEN Drop(c, Loc(c)) /\ Return(c, "OK")
       ELSE cpc' = [cpc EXCEPT ![c] = "get"] /\ UNCHANGED <<lock, rc>>
    /\ UNCHANGED <<prodVars, len, kvs, got, pos, seen>>

\* dyad_get_data(): the module on the producer's node reads the file under a
\* shared lock; it answers with an error when the file is empty.
GetData(c) ==
    /\ cpc[c] = "get"
    /\ lock[ProdNode] = NoOwner
    /\ \/ /\ len[ProdNode] > 0
          /\ got' = [got EXCEPT ![c] = len[ProdNode]]
          /\ cpc' = [cpc EXCEPT ![c] = "store"]
          /\ UNCHANGED <<lock, rc>>
       \/ /\ len[ProdNode] = 0
          /\ Drop(c, Loc(c))
          /\ Return(c, "error")
          /\ UNCHANGED got
    /\ UNCHANGED <<prodVars, len, kvs, pos, seen>>

\* The copy cannot be opened for writing: the one error path that neither
\* releases the lock nor closes lock_fd.
OpenCopyFails(c) ==
    /\ "open" \in Faults
    /\ cpc[c] = "store"
    /\ pos[c] = 0
    /\ Return(c, "error")
    /\ UNCHANGED <<prodVars, len, lock, kvs, got, pos, seen>>

\* dyad_cons_store(): the data is written over the file from its start.
StoreRecord(c) ==
    LET n == Loc(c)
    IN  /\ cpc[c] = "store"
        /\ pos[c] < got[c]
        /\ pos' = [pos EXCEPT ![c] = @ + 1]
        /\ len' = [len EXCEPT ![n] = IF @ < pos[c] + 1 THEN pos[c] + 1 ELSE @]
        /\ UNCHANGED <<prodVars, lock, kvs, cpc, got, rc, seen>>

StoreDone(c) ==
    /\ cpc[c] = "store"
    /\ pos[c] = got[c]
    /\ Drop(c, Loc(c))
    /\ Return(c, "OK")
    /\ UNCHANGED <<prodVars, len, kvs, got, pos, seen>>

\* Variant: an error path that keeps lock_fd open and locked, taken by a
\* process that then never opens the file itself.
ConsumeFailsLocked(c) ==
    /\ \/ "kvs" \in Faults /\ cpc[c] = "kvs"
       \/ "rpc" \in Faults /\ cpc[c] = "get"
       \/ "store" \in Faults /\ cpc[c] = "store"
    /\ cpc' = [cpc EXCEPT ![c] = "done"]
    /\ rc' = [rc EXCEPT ![c] = "error"]
    /\ UNCHANGED <<prodVars, len, lock, kvs, got, pos, seen>>

\* The lookup, the transfer or the write fails: the lock is released and the
\* file is left as it is.
ConsumeFails(c) ==
    /\ \/ "kvs" \in Faults /\ cpc[c] = "kvs"
       \/ "rpc" \in Faults /\ cpc[c] = "get"
       \/ "store" \in Faults /\ cpc[c] = "store"
    /\ Drop(c, Loc(c))
    /\ Return(c, "error")
    /\ UNCHANGED <<prodVars, len, kvs, got, pos, seen>>

\* The application reads what is there and closes the file, which makes the
\* kernel drop any record lock the process still has on it.
Read(c) ==
    /\ cpc[c] = "read"
    /\ seen' = [seen EXCEPT ![c] = len[Loc(c)]]
    /\ Drop(c, Loc(c))
    /\ cpc' = [cpc EXCEPT ![c] = "done"]
    /\ UNCHANGED <<prodVars, len, kvs, got, pos, rc>>

KillConsumer(c) ==
    /\ "kill" \in Faults
    /\ cpc[c] \in {"lock", "size", "kvs", "get", "store"}
    /\ Drop(c, Loc(c))
    /\ cpc' = [cpc EXCEPT ![c] = "dead"]
    /\ UNCHANGED <<prodVars, len, kvs, got, pos, rc, seen>>

-----------------------------------------------------------------------------
Produce ==
    \/ Open \/ LockFile \/ Write \/ Flush \/ EnterClose
    \/ ReleaseFile \/ CloseFile \/ Publish

Consume(c) ==
    \/ ConsumeLock(c) \/ CheckSize(c) \/ Lookup(c) \/ GetData(c)
    \/ StoreRecord(c) \/ StoreDone(c) \/ Read(c)

ProducerFault == LockFileFails \/ CloseFileFails \/ KillProducer

ConsumerFault(c) ==
    \/ ConsumeLockFails(c) \/ OpenCopyFails(c) \/ ConsumeFails(c) \/ KillConsumer(c)

Next ==
    \/ Produce
    \/ ProducerFault
    \/ \E c \in Consumers : ConsumeOpen(c) \/ Consume(c) \/ ConsumerFault(c)

Spec == Init /\ [][Next]_vars

(***************************************************************************)
(* The producer writes its file to the end, a process that can run does,   *)
(* and F_SETLKW returns when the lock stays free.  No fault has to happen, *)
(* so none can be what gets a waiting process on.                          *)
(***************************************************************************)
FairSpec ==
    /\ Spec
    /\ WF_vars(Produce)
    /\ \A c \in Consumers : WF_vars(Consume(c))
-----------------------------------------------------------------------------
(* Properties.                                                             *)

\* In this deployment a close or a store may fail half way and leave part of
\* the file where others look for it.
LeavesPart == Faults \cap {"store", "close"} # {}

\* A consumer has the file of the producer itself before it, not a copy.
Exposed == \E c \in Consumers : SharedStorage \/ NodeOf[c] = ProdNode

\* The deployments in which a size that is not zero can be trusted.  Without
\* use_fs_locks nobody trusts it.  With it, a process that is killed leaves part
\* of a file without a lock; and who sees the producer's file needs a producer
\* that gets its lock and flushes before it gives it up.
Reliable ==
    UseFsLocks =>
        /\ "kill" \notin Faults
        /\ Exposed => Api # "open" /\ FsyncWrite /\ "lock" \notin Faults

\* The purpose of the locks and of the KVS entry: an application whose
\* dyad_consume() succeeded reads the whole file, never a prefix of it, as
\* long as closes and stores do not fail half way.
ReadsWholeFile ==
    ~LeavesPart => \A c \in Consumers : cpc[c] = "done" /\ rc[c] = "OK" => seen[c] = FileLen

\* dyad_commit() requires of its callers that the file is fully written: the
\* KVS entry is there only when the module would serve all of it.  (The result
\* of the real close is not looked at, so one that fails breaks this.)
PublishedIsWhole == "close" \notin Faults /\ kvs => len[ProdNode] = FileLen

\* Where file locks can be relied on, of the consumers of a node at most one
\* fetches and stores the file; the others wait for its lock and find it there.
FetchedOncePerNode ==
    UseFsLocks => \A c, d \in Consumers :
        /\ Loc(c) = Loc(d)
        /\ rc[c] = "OK" /\ got[c] > 0
        /\ rc[d] = "OK" /\ got[d] > 0
        => c = d

\* Every dyad_consume() that is called comes back, unless the producer has
\* ended without publishing the file, when the lookup waits for ever.
ConsumeReturns ==
    \A c \in Consumers :
        cpc[c] = "lock" ~> \/ cpc[c] \in {"done", "dead"}
                           \/ ppc \in {"done", "dead"} /\ ~kvs

\* What a reader of the API may assume of a file, without locks and storage.
\* Nothing is promised where a close or a store may fail half way.
Ready == ~LeavesPart /\ len[ProdNode] = FileLen

Outcome ==
    [c \in Consumers |->
        IF LeavesPart \/ cpc[c] # "done" THEN "waiting"
        ELSE IF rc[c] = "error" THEN "failed"
        ELSE IF seen[c] = FileLen THEN "whole" ELSE "part"]

Handoff == INSTANCE FileHandoff WITH ready <- Ready, outcome <- Outcome

\* Every read that succeeds is a read of the finished file, after it was
\* finished.
ImplementsHandoff == Handoff!Spec

\* What the lock and the KVS entry do for the file on each node: it is published
\* only when it is complete, and fetched once where the locks can be relied on.
HandoffSound == TypeOK /\ PublishedIsWhole /\ FetchedOncePerNode
=============================================================================
