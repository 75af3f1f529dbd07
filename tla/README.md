# DYAD in TLA+

A verification project for DYAD, the middleware that moves files between
producer and consumer tasks of a workflow over Flux. It holds TLA+ models of
the parts of DYAD that carry its synchronisation, the TLC configurations that
check them on small instances, and TLAPS proofs of the results that should
hold for every instance. Source paths below are relative to the repository.

## 1. The system

| component | source | state | operations | hard behaviour | what makes it correct |
|---|---|---|---|---|---|
| fetch service | `src/dyad/service/flux_module/dyad.c` | work queue, completion queue, self-pipe, worker threads, shutdown flag, one streaming RPC per request | two request callbacks, worker loop, completion watcher, pool start and stop | reactor and workers interleave; a wakeup can be lost twice on the way; a detached request is used up by one of several callbacks; shutdown in the middle | each request gets at most one data message and one closing message; nothing is lost or freed twice; stop ends |
| fetch client | `src/dyad/client/dyad_client.c` (`dyad_get_data*`), `src/dyad/dtl/*_dtl.c` | position in the RPC stream | call, `recv()`, wait for end of stream | Flux reads the stream, Margo and UCX wait for data on another channel | OK only for a served fetch, with the right file; the call returns |
| Margo DTL | `src/dyad/dtl/margo_dtl.[ch]` | one handle with `remote_addr` and an address cache in the module; `recv_buffer`, `recv_ready` at the consumer | init, pack, unpack, detach, send, detached send, abort, `data_ready_rpc()`, recv, finalize | requests interleave on the one handle; addresses are shared; pushes arrive on another thread | no address used after it was given back, no push over unread data, every request closed |
| UCX DTL, endpoint cache | `src/dyad/dtl/ucx_*` | one handle per module, endpoints by connection key | pack, unpack, find, insert, send, close, poll | error paths that leave the handle as it was; RDMA into a buffer the consumer polls | data goes to the consumer that asked; OK means its own file |
| range cache | `src/dyad/utils/range_cache.c`, locks in `utils.c` | local data file, bitmap file, mutex, fcntl locks | `dyad_range_cache_ensure()` | threads *and* processes; the fetch runs without locks; fcntl locks belong to the process; kills between two writes; block arithmetic at the end of the file | OK means the bytes are there; bits are sound; bits are not lost |
| file synchronisation | `src/dyad/wrapper/wrapper.c`, `src/dyad/stream`, `dyad_produce()`, `dyad_consume()` | file and its size, record lock, KVS entry | open/write/close of a producer, consume and read of a consumer | lock, size test and KVS entry are three independent signals; failures and kills | a successful read is of the whole file; calls return |
| transfer | `dyad_fetch_request_cb()`, `dyad_fetch_range_request_cb()`, `dyad_cons_store()`, `dyad_consume_range()` | buffers, offsets | chunked read, chunked write, clamped range read | short reads and writes, errors, sizes at a chunk or block boundary | the copy is the file, a range is its bytes |
| metadata (KVS) | `dyad_client.c` (`gen_path_key`, `dyad_kvs_*`) | KVS entry per path | publish, waiting lookup | lookup waits for ever if nobody publishes | the entry appears after the file is complete |
| cache eviction | `src/dyad/cache/*` | files of a managed directory, directory lock | scan, lock, rescan, choose, try-lock, unlink | several evictors; consumers that open, lock and store at the same time | takes no file in use, stays within the capacity |
| context life cycle | `src/dyad/core/dyad_ctx.c`, `dyad_dtl_api.c`, `dyad_cache_api.c` | a context per thread, Flux handles, `initialized`, `reenter` | init, the setters, clear, finalize | every step of init can fail; several users hold copies of the pointer | handles closed once; a context that was reported good works |
| C++ streams, pydyad, wrapper, module as users of a context | `include/dyad/stream`, `src/dyad/stream`, `pydyad`, `wrapper.c`, `dyad.c` | copies of the context pointer, stream objects, locks | construct, init, open, write, close, move, swap, destroy | order of unlock, flush and publish; pointers that another user freed | closed files are published, published ones flushed |
| directory creation | `utils.c` (`mkdir_as_needed()`, `mkpath()`) | the path, the umask of each process | `stat()`, `mkdir()`, `umask()` | all processes of a job make the same path | nobody fails because another was faster |
| path strings, murmur3, base64, `dyad_exe` | `src/dyad/utils`, `src/dyad/service/dyad_exe.c` | none of their own | pure functions, launch | strings | - |

How they interact: an application's `open`/`close` enters the wrapper (or a
C++ stream, or pydyad), which calls `dyad_consume()`/`dyad_produce()` with the context of
its thread. The producer
publishes a KVS entry; a consumer that finds no local file waits for it and
calls `dyad_get_data()`, a streaming RPC to the module on the owner's broker.
The module reads the file (for ranges through the range cache, on a worker
thread) and answers through the DTL. At the end of a produce or a consume the caller may
evict. `PROJECT.json` lists every component with
its status, and every hazard with the properties that watch it.

## 2. Modules

**Fetch service.** `FetchPool` is the module process: reactor thread (variables `phase`, `rpc`,
`batch`), workers (`wpc`, `item`), the two queues and the pipe. A critical
section of `work_mutex` or `completion_mutex` is one action; all else
interleaves. `RejectRequest`, `ServeInline` and `EnqueueRange` are the three
ways a callback ends, the last including the signal; `WorkerTake` ... `WorkerWake`
are the worker's loop; `WatcherDrain` ... `WatcherReturn` the completion
callback. `dtl` is the back end the module was loaded with, Flux RPC or Margo. Several comments
(such as the one at `dyad.c:613`) say that with Margo the worker sends the data itself, but
`margo_dtl.c:416` sets `send_detached_is_thread_safe` to `false` and no other back end sets
it, so that branch of `dyad_fetch_worker_finish()` is dead and the watcher
always sends. `started` may be any subset of `Workers`, as
thread creation can fail; the empty set also stands for a DTL without
`rpc_detach_request` (UCX), which takes the same inline path. `stream[r]` is what was
sent back; with Margo the pushed data is its "data" message.
`FetchService` is the abstract service, one small state machine per request;
`ImplementsService` says that the pool implements it, with the state of a request read off its
stream. `FetchRpc` extends `FetchPool` with the clients of the requests: the call, the
DTL's `recv()` (Flux: next message of the stream; Margo: only the push), and the
wait for the closing message.

**Transports.** `MargoDtl` is the Margo back end with its one `remote_addr`, the address cache
(`addr_cache`, and `refs` for what Mercury counts), the requests served in the callback and
those that take their address through the worker pool, and per consumer the handler
`data_ready_rpc()`, which runs on another thread than `dyad_dtl_margo_recv()`. `SendCrashes` is
the error exit of `dyad_dtl_margo_send_to()` that frees handles nothing has set.
`UcxDtl` is the UCX back end: the module's handle `h` with the fields the code has, the
endpoint cache, the request callback step by step, and the consumers, which poll their
buffer. An address, a packed key or an endpoint is named by the consumer it belongs to. The
error exits of the callback (`RespondError`) skip `CloseConnection`, as in the code;
`skipped` is an auxiliary variable that remembers whether that ever happened to an open
connection. In `Warmup` the send is refused, because a sender has no remote key yet, and the
loop-back endpoint stays open. `ucx_allocate_buffer()`, whose result is not looked at, is
taken to succeed.

**Range cache.** `RangeCache` is `dyad_range_cache_ensure()` statement by statement as far as
locks and files go. A byte range is the set of blocks it touches. The bitmap
file is `bits` (and `sized`), the local file is `localFile` and `data`. fcntl
locks are per process and `Close` drops the lock of the whole process, as the
kernel does. `ReadErrors` lets `pread()` of the bitmap fail, which the code
ignores. `Kill` ends a process at any step.

**Bytes.** `Transfer` has the two chunk loops of a whole-file transfer with real offsets: a byte
is the offset it had, so a byte that is lost, repeated or out of place shows. A `write()` of the
store may take less than its chunk, take nothing, fail once (`WriteChunkFails`) or, once `full` is
set, fail on every turn from then on (`WriteChunkFailsAgain`). `RangeTransfer`
extends it with sequences of range calls: blocks, bitmap bytes and their ends, the clamping
and the read loops of the worker, of the callback and of `dyad_consume_range()`. A behaviour
of `BothSpec` is of one of the two kinds.

**File synchronisation.** `FileSync` is one file with one producer and several consumers. Files are
lengths in records: only "part" and "whole" matter. A deployment (`conf`: where the
consumers are, `shared_storage`, `use_fs_locks`, `fsync_write`, the producer's API
and what may fail) is chosen in `Init` and never changes. `Flush` is the part of the
real close, or of a full buffer, that writes; `ReleaseFile` stands before it, as in
`dyad_fclose_wrapper()`. `ProducerLocks` records that `dyad_open_wrapper()` never
locks a file it creates. The wrappers of `open64()`, `fopen64()`, `close64()` and `fclose64()`
are the same code and the same actions. Consumers follow `dyad_consume()`; `OpenCopyFails` is the
one error path that leaves without releasing the lock. `FileHandoff` is
the abstract promise: a file becomes ready once, and every read either gets all of
it afterwards or fails.

**Eviction.** `CacheEvict` is a managed directory in which processes produce, consume whole
files, consume by metadata and consume ranges, and evict at the end of a produce or a
whole-file consume. A name leads to an inode (`dir`, `ino`); `unlink()` takes the name and
leaves the inode, its contents and its lock to those who have it open. `Scan`, `DirLock`,
`Rescan`, `NextVictim`, `TryLock`, `Unlink` and `EvictDone` are the evictor. The clock `now`
drives recency and the grace period.

**Contexts and their users.** `Ctx` is the life cycle of a context: `DyadInit` with every step
that can fail (`InitOutcome`), the setters, `dyad_clear()` and `dyad_finalize()`, one pointer per
thread (`ctx`) to a context on the heap (`obj`), and the Flux handles. `Client` extends it with
who uses it in a process: the wrapper, pydyad, the module's `mod_main()` (with its early exits) and the C++ streams,
each with its own copy of the pointer; streams are opened, written, closed in two steps (the
unlock, then flush and publish), moved, swapped and destroyed. `tainted` remembers what was
done to a file that DYAD makes no provision for, `clean` which threads were told OK
throughout.

**Directories.** `MkDirs` is `mkdir_as_needed()` and `mkpath()` with every `stat()`, `mkdir()`
and `umask()` a step, for processes that make one path at the same time: `dyad_init()`, the
module and `dyad_cons_store()` call it.

`MC*` modules give the constants for TLC, `*_proofs` modules hold the theorems (`FetchRpc_proofs` those
of `FetchPool` too, `RangeTransfer_proofs` those of `Transfer`, `Client_proofs` those of `MkDirs`,
whose `Init`, `Next` and so on have names of their own for that reason).
Definitions marked "Variant:" or "A faulty variant:" are plausible bugs next to the definition
they vary; `PROJECT.json` pairs each checked property with a variant that breaks it. Where a run
checks a conjunction (`RequestsAccounted`, `FilesSound`, `HandoffSound`, `TransferSound`,
`EveryTransferEnds`, `HandleSound`, `VictimsSound`, `ContextsSound`, `StreamsSound`, `LocksSound`,
`UmaskSound`), its parts are named definitions with their own comments just above it or in the
module it extends.

## 3. Runs

| run | instance | result |
|---|---|---|
| `Fetch` | 2 range requests, up to 2 workers, pipe of 1 byte, Flux RPC and Margo, fair threads | no request lost, answered twice or without a wakeup; OK means served; clients return (over Margo when the data was pulled); stop ends; refines `FetchService` |
| `RangeCacheProcs` | 2 processes with 1 thread and 3 calls each, 2 blocks, kills and failures | no bit without its block, OK means present, bits only grow, calls return |
| `FileSyncSafe` | 3 consumers, 2 records, 5 deployments | whole reads only (unless a failing close or store left a part behind), one fetch per node, calls return, refines `FileHandoff` |
| `FileSyncLocalDeadlock` | consumer beside the producer | **violation** of `ConsumeReturns` |
| `Transfer` | files of up to 7 bytes, chunks of 3, blocks of 2, bitmap bytes of 2 bits, 2 failing writes that pass or failing writes for good; or 3 range calls with offsets up to 8 and lengths up to 5 | the copy is exact unless a `write()` failed, a range is exact, the bitmap is overrun only by a range beyond the end; every loop ends, but the one of a store whose `write()` fails for good, and that one never does |
| `UcxDtl` | 3 consumers with distinct pids, 2 fetches each, every call may fail | endpoints are those of the cache, a clean handle connects to the requester, OK means the right file while every connection was closed |
| `UcxStaleEndpoint` | the same | **violation** of `OkMeansMyFile` |
| `MargoDtl` | 2 consumers, 2 fetches each, inline and detached, every call may fail | right files, no push over unread data, no stale address, every request closed |
| `Evict` | 2 processes, 3 files (one whole, one by range, one produced), capacity 1, FIFO without grace and LRU with grace and failures | the victim is what was locked, never a new file or one being fetched; within the capacity when quiet; calls return |
| `EvictVanish` | 2 processes, LRU with grace, no failures | **violation** of `OkMeansReady` |
| `Client` | 2 application threads and the module's, 2 contexts, 3 handles, 2 streams, 2 files, 2 environments, builds with and without stream descriptors | handles closed once, contexts that were reported good work, `reenter` never left off, published means flushed, locks kept (with the exceptions each property names) |
| `MkDirs` | 3 processes, path of 3 components, 2 calls each, 1 fault | nobody loses a race, permission bits exact, umask restored unless `mkpath()` failed |

Bounds. Two requests and two workers with a pipe of one byte are the smallest
instance where a wakeup is dropped while another completion is being handled, a
signal can go to the wrong worker, and a batch has two items. Whole-file requests run inside one
callback, touch neither queue, and take the same steps (`ServeInline`, `RejectRequest`) as the
range requests do when no worker could be started. Two blocks give equal, nested and
overlapping spans, and three calls of each of two processes a miss, a partial hit and a hit,
each racing the other's. `NoBitIsLost` and `OkIsPresent` are proved for any number of callers.
Two records tell "part" from "whole"; three
consumers give one that fetches, one that waits and one that comes late. Three
UCX consumers with two fetches are needed for a wrong file (with two consumers the same
defect only makes one of them wait for ever). Seven bytes
with chunks of three and blocks of two cover less than a chunk, exact multiples and
remainders. `MaxErrors` bounds only the failing writes that a later one makes up for (each one
shifts what is written after it by a byte): a file system that takes nothing more fails without
bound, and there `written_data` is followed down to `-MaxErrors` and `errors` counted round, as
nothing reads either any more. Bitmap bytes of two bits put a border between bytes into a bitmap of four blocks;
offsets go beyond the end. With two generations of every name a file is evicted and made
again. The calls of `Evict` are bounded at two in all (`MaxCalls`), one in each process or two in
one: a call and the evictor of another, or the evictor and the call after it. Budgets in `Client`
(`SomeBudgets`) give behaviours with many calls on contexts, many on streams, or two of each, because the two
multiply; two of each let a context get its managed path while one of its streams has a file open. Two consumers of Margo and two fetches are what it takes to have one request replace
the address of another. Three processes and three components let two racers be past, and one
behind, a component.

Deadlock is checked where the system is meant to go on (`Fetch`, `Transfer`). It is off where
callers simply finish (`RangeCacheProcs`, the `FileSync`, `Evict` and `MkDirs` runs, `Client`) and
for Margo and UCX, where a consumer whose request failed polls for ever.

Fairness. Workers, watcher and `pthread_join` are weakly fair: the kernel runs a
runnable thread, file I/O ends, the Flux reactor polls its watchers. Requests need
not arrive and the module need not be unloaded. Flux delivers a request that was
sent. In `RangeCache`, `FileSync` and `CacheEvict` a process that can step does, and a blocked
`F_SETLKW` or mutex is granted once it stays free; since calls are bounded, no stronger
fairness is needed against overtaking, and starvation by callers that never stop is outside
these properties. The producer is assumed to
write its file to the end unless it is killed, and the stores of `FileSync` and `CacheEvict`
are assumed to end: the one that does not is in `Transfer`. In `Transfer` a system call returns, be
it with an error, so the turns of the endless loop are fair steps like those of the others. In
`MargoDtl` the reactor, the handlers (Margo runs a progress thread in every consumer) and the clients
go on.

Failures and fairness. In `FileSync` and `RangeCache` the failures that end a wait (of a lock, of the
KVS) and the kills are actions outside the fair ones. In `FetchPool`, `CacheEvict`, `MargoDtl` and
`RangeTransfer` an error return is one of the outcomes of a step (`ForwardFails` of `Reactor`,
`EvictFails` and `RangeReadFails` of `Step`, `RangeFails` of `RangeStep`), so the step is fair and not
its success. It never stands in for the end of a wait: `AwaitsLock` and `AwaitsHandler` take a
process that waits for a lock, and a reactor that waits for a handler that runs, out of the fair
actions. The only outcome it is where nothing else can come: a file that is gone, and
`margo_forward()` to a consumer that has died, which returns with an error; `RequestIsClosed` relies
on that. `UcxDtl`, `Client` and `MkDirs` have safety properties only.

## 4. What the violations mean

* `FileSyncLocalDeadlock`: on local storage `dyad_consume()` keeps the lock during
  the KVS wait, while the producer on that node needs it to get on.
* `UcxStaleEndpoint`: when `send()` fails the callback skips `close_connection()` and the handle
  keeps its endpoint. `find()` then refuses, `insert()` is content with a cached key, and the file
  of the next consumer is put through the old endpoint. One such put leaves its consumer
  waiting; a second one that lands there ends the wait with another consumer's file.
* `EvictVanish`: the evictor locks and unlinks a file that a consumer has open and waits to lock.
  The consumer then locks an inode without a name, sees that its size is above 0 and returns
  `DYAD_RC_OK`; the application's `open()` fails. `dyad_client.h:189` promises a file that is
  ready to read.

Behaviour that the models show and no run is kept for. Most of it is an exception that a checked
property names; take the exception out and TLC prints the trace.

Fetch and transports:

* A Margo client whose request is refused polls `recv_ready` for ever
  (`margo_dtl.c:896`), although the comment at `dyad_client.c:764` expects it to read the closing
  message; a UCX client polls its buffer in the same way (`ucx_dtl.c:588`).
* Items that workers complete during shutdown stay on the completion queue, neither answered
  nor freed.
* `dyad_dtl_margo_send_to()` frees `local_bulk` and `mh` on error exits where nothing has set them
  (`margo_dtl.c:806`); `dyad_dtl_margo_finalize()` gives `remote_addr` back once for itself and once
  for the cache that owns it (`margo_dtl.c:943`).
* Over UCX two consumers with the same pid (on different nodes, or one after the other) share a
  connection key, and a wrong file follows without any failing call.

Range cache and transfer:

* With two worker threads in the module beside a consumer process a bit can be lost: the `close()`
  calls run after the mutex is unlocked (`range_cache.c:303`) and drop the record lock of a sibling;
  the comment at `range_cache.c:322` says that the recording merges with all racers. The block is
  fetched again later; no wrong answer follows, as `OkIsPresent` does not use the record locks. A
  bitmap that cannot be read back loses bits in the same way.
* A range that ends beyond the origin indexes past the bitmap buffer (`range_cache.c:78`,
  `:89`): `OnlyLongRangeStrays` says that nothing else does.
* The chunk loop of `dyad_cons_store()` keeps the result of `write()` in a `size_t`, so -1 passes
  `written_len <= 0` (`dyad_client.c:1004`) and takes one off `written_data`. When `write()` fails
  on every turn (a full disk, an I/O error) the loop is endless: `dyad_consume()` does not return
  and keeps its lock. `EveryTransferEnds` excepts this case only, and says that it is for ever.
  When a later `write()` succeeds, the copy is shifted or starts with what lies in front of the
  buffer, and rc is OK. A `write()` of 0 leaves the loop with rc still OK. `dyad_client.c:941`
  gives OK to copies of which all bytes were written, and `DYAD_RC_BADFIO` to a `write()` that failed.
* When a data file and its bitmap are both evicted in the middle of a range call, the call can
  return OK with a hole. `dyad_consume_range()` never evicts.

File synchronisation:

* `dyad_fclose_wrapper()` releases the lock one line before the real `fclose()` writes the buffer
  (`wrapper.c:567`): without `fsync_write` a consumer on shared storage reads a prefix.
* `dyad_open_wrapper()` looks at the permission bits instead of the flags (`wrapper.c:288`) and so
  never locks a file it creates.
* A store that fails half way leaves a part that the next consumer takes for the file; a close that
  fails is only logged and the part is published.
* `dyad_get_metadata()` that meets an empty placeholder names its own rank as the owner, and
  `dyad_consume_w_metadata()` fails.

Contexts, streams, directories:

* A `dyad_init()` after a failed one returns OK from the default context, which says that it is
  initialised (`dyad_ctx.c:357`). A handle whose rank could not be read leaks. `dyad_clear()` closes the
  broker's handle, which is not DYAD's. `DYAD_REINIT` frees the contexts of streams that still
  exist. The path setters that fail late leave the managed path set.
* In threads other than the one that loaded the library the wrapper's copy of the context is
  NULL, and `fopen(..., "w")` follows it.
* Move and swap of streams leave `m_filename` behind (`dyad_stream_api.hpp:1086`, `:1115`, `:1168`):
  the file is not published, or another is. The result of `open_sync()` is ignored. `close()` unlocks before
  it flushes. A reader stream drops the lock that a writer in the same process holds.
* In a build without `DYAD_HAS_STD_FSTREAM_FD` only `init(dyad_params)` turns `use_fs_locks` off; a
  context from the environment goes on to rely on locks nobody takes, although
  `dyad_stream_api.hpp:405` says that synchronisation falls back to the KVS.
* Every return of `mkdir_as_needed()` after a failed `mkpath()` leaves the process with a umask of
  0 (`utils.c:405`), though `utils.h:294` says that it is restored. Two threads that overlap in it
  do the same to each other.

## 5. Proofs

All theorems are for any number of actors and any sizes; `PROJECT.json` lists them with the
property each one states. An invariant that a theorem rests on is named here with the reason
the property alone is not inductive.

`FetchRpc_proofs`, for any requests, workers and pipe capacity, with Flux or Margo:

* `TypeCorrect`: `Spec => []TypeOK`. The invariant `TypeInv` adds `HoldsItem`: a worker
  between take and push holds a range request. Without it `itemRc[item[w]]` has no
  type.
* `WakeupNeverLost` (`NoLostWakeup`), `WorkNeverStranded` (`WorkNotStranded`) and
  `ShutdownDrains` (`StopDrainsWork`), from `HandoffInv`. `WorkNotStranded` is not
  inductive: a worker may leave only after shutdown began and with the queue
  empty, and nothing is queued after that. `ExitInv` says so. The wakeup argument is that
  `WatcherDrain` empties the pipe *before* the list is taken, so a byte it swallows
  belongs to an item it is about to take.
* `StreamsWellFormed`, `OpenNeverDropped` and `ItemsReleasedOnce`, from `OwnInv`: an item is
  in one of the two queues, the batch or a worker's hands and at one position of it
  (`LinkedOnce`), and where it is decides what its stream holds (`StageInv`). An item in two places
  would be answered twice; without its place a stream says too little to tell why no second
  message can follow.
* `PoolImplementsService` (`ImplementsService`): every step maps to a step of `FetchService` or to a
  stutter, under `OwnInv`.
* `RequestsAreAccounted`, `OkIsServed` (`OkMeansServed`) and `RpcImplementsService`, for the pool
  with its clients: clients only read, so the pool's invariants carry over (`RpcIsPool`), and
  `ClientInv` says how far each has read.

`RangeCache_proofs`, for any processes, threads, blocks and spans:

* `OkIsPresent` and `FilesAgree` (`FilesSound`, by way of `CacheTypeCorrect`, `BitmapIsSound` and
  `FileIsThere`), from `CacheInv`. The strengthening (`FetchedInv`) is that a thread on its way to
  record a span has
  written it, and that the local file exists once the bitmap has its size. The locks
  are not used, and the bitmap may be unreadable.
* `WriterIsAlone` and `NoBitIsLost`, under the hypothesis that each process has one thread
  (`OneThreadEach`: the record lock does it) or all threads share one process
  (`AllTogether`: the mutex does it). `LockInv` says who owns which lock, and `CopyInv` that the
  copy of the bitmap about to be written back is current. The lost bit above shows that
  the hypothesis cannot be dropped. `NoBitIsLost` also assumes that the bitmap can be
  read.

`RangeTransfer_proofs`, for any sizes of file, chunk, block and bitmap byte, any offsets, lengths
and number of calls:

* `TransfersAreSound` (`TransferSound`), `RangesAreExact` (`RangeIsExact`) and
  `StraysOnlyBeyondEnd` (`OnlyLongRangeStrays`), from `BothInv`. For a whole file (`FileInv`) the bytes
  read and, until a `write()` fails, the bytes written are the first ones of the file. For ranges,
  `FilesInv` says that the byte of every set bit is there, and `CallInv` what a call has
  established at each step. The arithmetic is in `Arithmetic`: rounding up gives a block to
  every byte and a bit to every block of the origin, a span has all the bytes of its blocks, and
  only a call that ends beyond the origin has a block without a bit. It rests on three facts
  about `\div`, proved first.

`FileSync_proofs`, for any consumers, nodes and length of the file, from `SyncInv` (the
producer's file is announced when it is whole; who trusts a size has the lock of that file; a
copy is a part only while somebody stores it):

* `HandoffIsSound` (`HandoffSound`), in every deployment.
* `ReadersSeeWholeFile` (`ReadsWholeFile`) and `SyncImplementsHandoff` (`ImplementsHandoff`), in the
  deployments where a size that is not zero can be trusted (`Reliable`). Without `use_fs_locks`
  nobody trusts a size. With it, a process that is killed leaves part of a file and no lock;
  and a consumer that sees the producer's own file needs a producer that gets its lock (`fopen`,
  or a stream, not an `open()` that creates the file; no `F_SETLKW` that fails) and flushes before
  it gives it up (`fsync_write`). The deployments of `FileSyncSafe` are some of these.

`MargoDtl_proofs`, for any consumers, fetches and mix of inline and detached requests:
`MargoHandleSound` (`HandleSound`), `MargoBufferIsFree` (`PushFindsBufferFree`) and
`MargoOkIsMyFile` (`OkMeansMyFile`), from `MargoInv`. `AddressInv` says that an address in use (by the
handle, a detached request or a send) is in the cache, which holds the one reference to each of its
addresses; `RequestInv` says that a request is in one place of the module while its consumer waits
for it there, so a push of an earlier fetch cannot be late.

`UcxDtl_proofs`, for any consumers, pids and number of fetches:

* `UcxTypeCorrect` and `CacheOwnsEndpoints` (`EndpointsAreCached`), from `CacheInv`. The
  strengthening is `HandleInv`: until the endpoint is there the handle has address and key of
  the request being served, so what is cached under a key belongs to it.
* `FreshConnection` (`FreshConnectionIsRequesters`) and `ClosedOkIsMyFile` (`ClosedOkMeansMyFile`),
  under the hypothesis `PidsDistinct`. The second needs `FileInv`: the handle has an endpoint only
  while a file is put, the request is answered once, and what is in a buffer is the file of
  the current fetch. The case of a left-over endpoint, which both properties exclude, is
  `UcxStaleEndpoint`.

`CacheEvict_proofs`, for any processes, finite set of names, capacity, watermark, policy and grace
period: `VictimsAreSound` (`VictimsSound`) and `FetchedIsNotEvicted` (`NoEvictionUnderFetch`), from
`EvictInv`. One evictor at a time has the directory lock, and from the moment it has opened its
victim nobody else can remove that name, so `unlink()` takes the inode that was locked
(`EvictorOf`); what the scan saw was in the directory then, and recency only grows (`ScanOf`,
`AtimeOf`, `TimesInv`), so a file made since the grace period began is never chosen (`GraceOf`).
Every action touches one inode or none, which `InodeStep` says once for all of them.

`QuietIsWithinCapacity` (`QuietWithinCapacity`), for the same constants, from `QuietInv`, which is
about the directory while calls are under way: if there is too much in it, either some process has
still to scan it (`Pending`) or an evictor knows of every file that counts and has not counted below
their number (`Covers`). The argument turns on the three ways an evictor passes a file over. It is
in its grace period: there is none, and no candidate was used after the scan (`SeenOf`). It
is gone: only the evictor itself removes files. Its lock is held: then the holder is fetching this very
file and has its own scan to come (`LocksInv`: no lock is left on a file that is in the directory).
The hypotheses of the property are needed for this: a call that fails may leave its lock behind
or skip its scan, and a range is never followed by an eviction.

`Client_proofs`, for any threads, streams, files, environments and bounds on contexts, handles
and calls:

* `ClientContextsSound` (`ContextsSound`), `ClientOkMeansUsable` and `ClientSyncStaysOn`, from
  `CtxInv`. That a handle is closed once needs to know who has it: a thread's pointer is to a live
  context of its own (`PointersInv`), a handle in a context is in no other and is open, the broker's
  only in the context of the module (`OwnersInv`), and an open handle that is in no context is one
  whose rank could not be read (`HandlesInv`). `Initialized` says once what `dyad_init()` may do in
  all its variants, and `Amended` what the functions that change a context in place may do.
* `ClientStreamsSound` (`StreamsSound`) and `ClientLocksSound` (`LocksSound`), from `StreamInv`.
  A file has one writer, and once published none (`FileOf`), so a stream that publishes the name it
  remembers publishes a file nobody is writing (`NameOf`); only the reader that marked the file takes
  a writer's lock away (`StreamOf`, `LockOf`).
* `ClientNullOnlyElsewhere` (`NullOnlyElsewhere`): a stream that is one has had a context.
* For directories, `UmaskIsSound` (`UmaskSound`) and `RacersSucceed` (`RacersGetDirectory`), from
  `MkInv`, for any processes and depth. `PathInv` is transitive (all components above an existing one
  are directories), `MaskInv` says when a process runs with a umask of 0, and `RaceInv` that
  without faults whoever was faster has left the path behind when a `mkdir()` fails.

The proof of `ClosedIsPublished` failed at first, in `OpenWrite`: a build with stream descriptors sets
`m_filename` only for a file that is managed when it is opened (`dyad_stream_api.hpp:1181`). When
a setter gives the context its managed path before the close, `close_sync()` can publish, and publishes
the empty name; the file is not published. The property names this exception now, and the budget of two
calls of each sort makes TLC reach it.

Assumptions on constants are the named `ASSUME`s of the modules: disjoint request
sets, a pipe that holds at least a byte, spans inside the file, a finite set of names, at least
one generation of a file. TLC evaluates them in every run. Beside them, only the hypotheses named
above are used. TLC has checked `SyncInv` in all 6144 deployments of two consumers on two nodes,
where `FileSyncSafe` takes five.

Every safety property that a passing run checks is proved. Only model-checked is liveness, since
fairness is out of the prover's reach: `AcceptedIsAnswered`, `StopTerminates`, `ServedClientReturns`,
`ConsumeReturns`, `EveryTransferEnds` (unless `write()` fails for good), `RequestIsClosed`, and `CallReturns` of `RangeCache` and of
`CacheEvict`.

## 6. Not modelled

Not modelled: prefix comparison and concatenation of paths, `gen_path_key()`, murmur3 and base64
(pure character and bit manipulation without state: what they return for every input is an
induction over strings, and TLC on strings of a few characters says less than their unit
tests); the launcher `dyad_exe` (process start only); logging and profiling.
`dyad_sync_directory()` and the `opendir` wrapper change no state another step reads. In what is
modelled: the network inside Flux, Margo and UCX is reliable and in order, as DYAD assumes (a UCX put
that is complete locally has arrived); asynchronous publishing is off; a file outside the managed
directories is not synchronised and is left out; managed directories are flat; `FileSync` has one
file, and eviction is in `CacheEvict` alone.
