------------------------------- MODULE Client --------------------------------
(***************************************************************************)
(* The users of a DYAD context in one process: C++ streams                 *)
(* (include/dyad/stream/dyad_stream_api.hpp over                           *)
(* src/dyad/stream/dyad_stream_core.cpp), the GOTCHA wrapper               *)
(* (src/dyad/wrapper/wrapper.c), pydyad (pydyad/pydyad/bindings.py) and    *)
(* the Flux module (src/dyad/service/flux_module/dyad.c).  Each of them    *)
(* keeps a copy of the pointer that dyad_ctx_get() returned, and a stream  *)
(* carries its copy along when it is moved.                                *)
(*                                                                         *)
(* The files are on storage that a consumer in another process can reach:  *)
(* it relies on their record locks, or on the KVS, as use_fs_locks says.   *)
(***************************************************************************)
EXTENDS Ctx

CONSTANTS
    Main,        \* the thread that loads the wrapper library
    Service,     \* the thread that runs mod_main(): a process of its own
    Streams,     \* stream objects
    Files,       \* files under the managed path
    NoFile,      \* no file
    Builds,      \* values of DYAD_HAS_STD_FSTREAM_FD
    Envs,        \* the arguments of dyad_init() that the environment may give
    Params,      \* those that a program may give
    Budgets      \* bounds on the calls: on contexts, and on streams

ASSUME ClientAssumption ==
    /\ {Main, Service} \subseteq Threads /\ Main # Service
    /\ NoFile \notin Files /\ Budgets \subseteq Nat \X Nat
    /\ Builds \subseteq BOOLEAN /\ Envs \subseteq Args /\ Params \subseteq Args

\* Where the program runs: every thread but that of the module.
Apps == Threads \ {Service}

\* dyad_stream_core: m_ctx, m_initialized, m_is_prod, m_is_cons.
Core == [ctx : 0..MaxObjs, initialized : BOOLEAN, prod : BOOLEAN, cons : BOOLEAN]
NoCore == [ctx |-> 0, initialized |-> FALSE, prod |-> FALSE, cons |-> FALSE]

\* A stream object: its class, m_core, m_stream (or nullptr), the file that it
\* has open, whether it has written to its buffer, m_filename, and whether its
\* close() is between the unlock and the close of the file.
Stream ==
    [kind : {"none", "ifstream", "ofstream", "fstream"}, core : Core, stream : BOOLEAN,
     file : Files \cup {NoFile}, dirty : BOOLEAN, filename : Files \cup {NoFile},
     closing : {"no", "close", "destroy"}]
NoStream ==
    [kind |-> "none", core |-> NoCore, stream |-> FALSE, file |-> NoFile, dirty |-> FALSE,
     filename |-> NoFile, closing |-> "no"]

VARIABLES
    hasfd, env,  \* the build and the environment, fixed at the start
    wctx,     \* the wrapper's thread-local copy of the pointer
    pyctx,    \* pydyad's copy of the pointer, and its flag initialized
    pyinit,
    mod,      \* mod_main()
    stm,      \* stream objects
    lock,     \* files on which this process holds the record lock
    disk,     \* what is on the disk of a file
    pub,      \* files that are published
    crash,    \* a pointer that cannot be used was: whose, and which way
    partial,  \* history: reads of a file that is not whole
    tainted,  \* history: what was done to a file that DYAD does not provide for
    left      \* how many calls of either sort the program still makes

files == <<lock, disk, pub, partial, tainted>>
users == <<wctx, pyctx, pyinit, mod>>
fixed == <<hasfd, env>>
vars == <<ctxVars, fixed, users, stm, files, crash, left>>

Init ==
    /\ CtxInit
    /\ hasfd \in Builds /\ env \in Envs
    /\ wctx = [t \in Threads |-> 0]
    /\ pyctx = 0 /\ pyinit = FALSE
    /\ mod = "loading"
    /\ stm = [s \in Streams |-> NoStream]
    /\ lock = {} /\ pub = {} /\ partial = {} /\ tainted = [f \in Files |-> {}]
    /\ disk = [f \in Files |-> "none"]
    /\ crash = <<"no">>
    /\ left \in Budgets

\* The program calls: it is not down, and not inside a close().
Call(sort) ==
    /\ crash = <<"no">> /\ left[sort] > 0
    /\ \A s \in Streams : stm[s].closing = "no"
    /\ left' = [left EXCEPT ![sort] = @ - 1] /\ UNCHANGED fixed
CtxCall == Call(1)
StmCall == Call(2)

Live(p) == p # 0 /\ obj[p].mem = "live"
Why(p) == IF p = 0 THEN "null" ELSE "freed"

\* Follow the pointer p on behalf of who, in thread t: go on, or go down.
Goes(p) == Live(p) /\ UNCHANGED crash
Crashes(who, t, p) ==
    ~Live(p) /\ crash' = <<who, t, Why(p)>> /\ UNCHANGED <<ctxVars, users, stm, files>>

-----------------------------------------------------------------------------
(* The wrapper *)

\* dyad_wrapper_init(), before main().
WrapperInit(fault) ==
    /\ CtxCall /\ FreeObjs = Objs
    /\ DyadInit(Main, env, fault, 0, TRUE)
    /\ wctx' = [wctx EXCEPT ![Main] = ctx'[Main]]
    /\ UNCHANGED <<pyctx, pyinit, mod, stm, files, crash>>

\* dyad_fopen_wrapper() with mode "r" and dyad_close_wrapper(): without a context
\* there is nothing to synchronise.  With reenter on, dyad_consume() and
\* dyad_produce() leave it on; with reenter off they are not called.
WrapperRead(t) ==
    /\ CtxCall
    /\ (wctx[t] = 0 /\ UNCHANGED crash) \/ Goes(wctx[t])
    /\ UNCHANGED <<ctxVars, users, stm, files>>

\* dyad_fopen_wrapper() with mode "w" or "a" reads the context in every case.
WrapperWrite(t) ==
    /\ CtxCall /\ Goes(wctx[t])
    /\ UNCHANGED <<ctxVars, users, stm, files>>

\* dyad_fopen64_wrapper() does the same.  A pointer that is NULL or has been freed
\* ends the process.
WrapperCrashes(t) ==
    CtxCall /\ wctx[Main] # 0 /\ Crashes("wrapper", t, wctx[t])

\* dyad_wrapper_fini()
WrapperFini ==
    /\ CtxCall /\ wctx[Main] # 0
    /\ DyadFinalize(Main)
    /\ UNCHANGED <<users, stm, files, crash>>

-----------------------------------------------------------------------------
(* pydyad, in the main thread, and calls of the exported functions *)

PyInit(a, fault) ==
    /\ CtxCall
    /\ DyadInit(Main, a, fault, 0, FALSE)
    /\ pyctx' = ctx'[Main]
    /\ pyinit' = (pyinit \/ InitOutcome(Main, a, fault, 1).rc = "ok")
    /\ UNCHANGED <<wctx, mod, stm, files, crash>>

\* Dyad.produce() and the like pass self.ctx.
PyCall ==
    /\ CtxCall /\ pyinit /\ Goes(pyctx)
    /\ obj' = [obj EXCEPT ![pyctx].reenter = TRUE]
    /\ UNCHANGED <<ctx, handle, norank, clean, users, stm, files>>

PyCrashes == CtxCall /\ pyctx # 0 /\ Crashes("python", Main, pyctx)

\* finalize() and __del__()
PyFinalize ==
    /\ CtxCall /\ pyinit
    /\ DyadFinalize(Main)
    /\ pyinit' = FALSE
    /\ UNCHANGED <<wctx, pyctx, mod, stm, files, crash>>

Setter(t) ==
    /\ CtxCall
    /\ \/ \E side \in {"prod", "cons"}, path \in Paths,
             fails \in {"no", "managed", "real"} : SetPath(t, side, path, fails)
       \/ \E result \in {"badmode", "none", "broken", "ready"} : SetDtlMode(t, result)
       \/ \E result \in {"badmode", "fails", "ok"} : SetCachePolicy(t, result)
    /\ UNCHANGED <<users, stm, files, crash>>

-----------------------------------------------------------------------------
(* The module *)

\* dyad_module_ctx_init() initialises the context of the thread with the broker's
\* handle, ignores what came of it, and puts that handle into the context again.
ModuleCtxInit(fault) ==
    LET out == InitOutcome(Service, env, fault, Broker)
        o   == Least(FreeObjs)
    IN  /\ FreeObjs # {}
        /\ handle' = InitHandles(Service, env, fault, Broker)
        /\ obj' = [obj EXCEPT ![o] = [(IF out.rc = "error" THEN Uninitialized(out.c) ELSE out.c)
                                       EXCEPT !.h = Broker]]
        /\ ctx' = [ctx EXCEPT ![Service] = o]

\* mod_main() up to the reactor, which it reaches with a DTL and its message
\* handlers in place.
ModMain(fault, registered) ==
    /\ CtxCall /\ mod = "loading" /\ env.prod # "null" /\ ~env.reinit
    /\ ModuleCtxInit(fault)
    /\ mod' = IF obj'[ctx'[Service]].dtl = "none" \/ ~registered THEN "failed" ELSE "serving"
    /\ UNCHANGED <<norank, clean, wctx, pyctx, pyinit, stm, files, crash>>

\* opt_parse() finds the option -h: mod_main() returns before there is a context.
ModMainHelps ==
    /\ CtxCall /\ mod = "loading"
    /\ mod' = "failed"
    /\ UNCHANGED <<ctxVars, wctx, pyctx, pyinit, stm, files, crash>>

\* freectx(), when the module is unloaded.
FreeCtx ==
    /\ CtxCall /\ mod \in {"serving", "failed"}
    /\ DyadFinalize(Service)
    /\ mod' = "unloaded"
    /\ UNCHANGED <<wctx, pyctx, pyinit, stm, files, crash>>

-----------------------------------------------------------------------------
(* Streams *)

Readers == {"ifstream", "fstream"}
Writers == {"ofstream", "fstream"}

\* With the file descriptor at hand the macros for locks take a basic_ofstream,
\* so that basic_fstream_dyad cannot be used.
Kinds == IF hasfd THEN {"ifstream", "ofstream"} ELSE {"ifstream", "ofstream", "fstream"}

Fresh(kind, core) == [NoStream EXCEPT !.kind = kind, !.core = core, !.stream = TRUE]

\* A faulty variant: m_ctx is set only where init() makes the context.
NewStreamForgets(t, s, kind, fault) ==
    /\ stm[s].kind = "none" /\ kind \in Kinds
    /\ IF env.reinit \/ ctx[t] = 0 THEN CtxCall /\ DyadInit(t, env, fault, 0, TRUE)
       ELSE StmCall /\ fault = "none" /\ UNCHANGED ctxVars
    /\ stm' = [stm EXCEPT ![s] =
                 Fresh(kind, [ctx |-> IF ctx[t] = 0 THEN ctx'[t] ELSE 0, initialized |-> TRUE,
                              prod |-> env.prod = "path", cons |-> env.cons = "path"])]
    /\ UNCHANGED <<users, files, crash>>

\* The constructors, by thread t: dyad_stream_core::init(false) takes the thread's
\* context as it is, or has dyad_ctx_init() make one if there is none or
\* DYAD_REINIT is set.  The constructors with a file name go on to open it.
NewStream(t, s, kind, fault) ==
    /\ stm[s].kind = "none" /\ kind \in Kinds
    /\ IF env.reinit \/ ctx[t] = 0 THEN CtxCall /\ DyadInit(t, env, fault, 0, TRUE)
       ELSE StmCall /\ fault = "none" /\ UNCHANGED ctxVars
    /\ stm' = [stm EXCEPT ![s] =
                 Fresh(kind, [ctx |-> ctx'[t], initialized |-> TRUE,
                              prod |-> env.prod = "path", cons |-> env.cons = "path"])]
    /\ UNCHANGED <<users, files, crash>>

\* A core initialised by dyad_params, and a stream over it.  The two flags are
\* left alone when dyad_init() fails.
NewStreamParams(t, s, kind, a, fault) ==
    /\ CtxCall /\ stm[s].kind = "none" /\ kind \in Kinds
    /\ "null" \notin {a.prod, a.cons}
    /\ DyadInit(t, a, fault, 0, FALSE)
    /\ LET ok == InitOutcome(t, a, fault, 1).rc = "ok"
       IN  stm' = [stm EXCEPT ![s] =
                     Fresh(kind, [ctx |-> ctx'[t], initialized |-> TRUE,
                                  prod |-> ok /\ a.prod = "path", cons |-> ok /\ a.cons = "path"])]
    /\ UNCHANGED <<users, files, crash>>

\* init(core): the core of another stream is copied.
SetCore(s, r) ==
    /\ StmCall /\ s # r /\ stm[s].kind # "none" /\ stm[r].kind # "none"
    /\ stm' = [stm EXCEPT ![s].core = [stm[r].core EXCEPT !.initialized = TRUE]]
    /\ UNCHANGED <<ctxVars, users, files, crash>>

\* open_sync() calls dyad_consume(), which can work when there is a handle and a
\* consumer path.
Syncs(s) == stm[s].kind \in Readers /\ stm[s].core.initialized /\ stm[s].core.cons
Consumes(s) == Syncs(s) /\ LET c == obj[stm[s].core.ctx] IN c.h # 0 /\ c.cons

\* Is the file under the producer path, as far as cmp_canonical_path_prefix() sees?
Managed(s) == obj[stm[s].core.ctx].prod

Taint(f, why) == [tainted EXCEPT ![f] = @ \cup {why}]

\* open() for reading.  What open_sync() returns is ignored, so that it matters
\* not whether dyad_consume() found the file; where it can work it opens,
\* locks and closes the file, and with that the process loses its own lock on it,
\* as it will when this stream is closed.
OpenRead(s, f) ==
    /\ StmCall /\ stm[s].kind = "ifstream" /\ stm[s].stream
    /\ Syncs(s) => Live(stm[s].core.ctx)
    /\ obj' = IF Syncs(s) THEN [obj EXCEPT ![stm[s].core.ctx].reenter = TRUE] ELSE obj
    /\ lock' = IF Consumes(s) THEN lock \ {f} ELSE lock
    /\ tainted' = Taint(f, "reread")
    /\ stm' = IF stm[s].file = NoFile
              THEN [stm EXCEPT ![s].file = f, ![s].filename = f] ELSE stm
    /\ UNCHANGED <<ctx, handle, norank, clean, users, disk, pub, partial, crash>>

\* open() for writing a file that nobody has written yet and nobody is writing.
\* With the descriptor at hand a managed file is locked, and only a managed one
\* is remembered in m_filename.
OpenWrite(s, f) ==
    /\ StmCall /\ stm[s].kind \in Writers /\ stm[s].stream
    /\ disk[f] = "none" /\ f \notin pub
    /\ \A r \in Streams : stm[r].file # f
    /\ Syncs(s) \/ hasfd => Live(stm[s].core.ctx)
    /\ obj' = IF Syncs(s) THEN [obj EXCEPT ![stm[s].core.ctx].reenter = TRUE] ELSE obj
    /\ LET opens  == stm[s].file = NoFile
           locked == opens /\ hasfd /\ Managed(s)
       IN
       /\ lock' = IF locked THEN lock \cup {f} ELSE lock
       /\ tainted' = IF opens /\ hasfd /\ ~locked THEN Taint(f, "unlocked") ELSE tainted
       /\ stm' = IF opens
                 THEN [stm EXCEPT ![s].file = f, ![s].filename = IF locked \/ ~hasfd THEN f ELSE @]
                 ELSE stm
    /\ UNCHANGED <<ctx, handle, norank, clean, users, disk, pub, partial, crash>>

\* The program writes: the buffer may spill to the disk.
Write(s) ==
    /\ StmCall /\ stm[s].kind \in Writers /\ stm[s].file # NoFile
    /\ stm' = [stm EXCEPT ![s].dirty = TRUE]
    /\ \E d \in {disk[stm[s].file], "part"} : disk' = [disk EXCEPT ![stm[s].file] = d]
    /\ UNCHANGED <<ctxVars, users, lock, pub, partial, tainted, crash>>

\* A faulty variant: the file is published before it is closed.
CloseUnlockPublishes(s, how) ==
    /\ StmCall /\ stm[s].stream /\ stm[s].kind \in Writers /\ stm[s].file # NoFile
    /\ Live(stm[s].core.ctx)
    /\ lock' = lock \ {stm[s].file}
    /\ pub' = pub \cup {stm[s].file}
    /\ stm' = [stm EXCEPT ![s].closing = how]
    /\ UNCHANGED <<ctxVars, users, disk, partial, tainted, crash>>

\* close() or the destructor, as far as the unlock: chk_fsync_write() reads the
\* context, and fsync writes the buffer out.
CloseUnlock(s, how) ==
    /\ StmCall /\ stm[s].stream /\ stm[s].kind # "none"
    /\ how = "destroy" => stm[s].file # NoFile
    /\ LET writer == stm[s].kind = "ofstream" \/ (stm[s].kind = "fstream" /\ stm[s].core.prod)
           f      == stm[s].file
           flush  == writer /\ obj[stm[s].core.ctx].fsync_write /\ f # NoFile
       IN
       /\ writer => Live(stm[s].core.ctx)
       /\ disk' = IF flush THEN [disk EXCEPT ![f] = "whole"] ELSE disk
       /\ lock' = lock \ {f}
       /\ stm' = [stm EXCEPT ![s].closing = how, ![s].dirty = IF flush THEN FALSE ELSE @]
    /\ UNCHANGED <<ctxVars, users, pub, partial, tainted, crash>>

\* Can dyad_produce() publish for the stream?
Produces(s) ==
    /\ stm[s].kind \in Writers /\ stm[s].core.initialized /\ stm[s].core.prod
    /\ LET c == obj[stm[s].core.ctx] IN c.h # 0 /\ c.prod

\* The rest: the file is closed, which writes the buffer and drops the lock, and
\* close_sync() publishes m_filename.
CloseFinish(s, published) ==
    /\ crash = <<"no">> /\ stm[s].closing # "no"
    /\ published => Produces(s)
    /\ LET f   == stm[s].file
           out == stm[s].kind \in Writers /\ f # NoFile
       IN
       /\ disk' = IF out THEN [disk EXCEPT ![f] = "whole"] ELSE disk
       /\ lock' = lock \ {f}
       /\ pub' = pub \cup IF published THEN {stm[s].filename} \ {NoFile} ELSE {}
       /\ tainted' = IF ~out \/ published THEN tainted
                     ELSE Taint(f, IF Produces(s) THEN "failed" ELSE "unsynced")
       /\ stm' = [stm EXCEPT ![s] = IF @.closing = "destroy" THEN NoStream
                                    ELSE [@ EXCEPT !.file = NoFile, !.dirty = FALSE, !.closing = "no"]]
       /\ obj' = IF Produces(s) THEN [obj EXCEPT ![stm[s].core.ctx].reenter = TRUE] ELSE obj
    /\ UNCHANGED <<ctx, handle, norank, clean, users, fixed, partial, crash, left>>

\* The destructor of a stream that has no file open, or was moved from.
Destroy(s) ==
    /\ StmCall /\ stm[s].kind # "none" /\ stm[s].file = NoFile
    /\ stm' = [stm EXCEPT ![s] = NoStream]
    /\ UNCHANGED <<ctxVars, users, files, crash>>

\* The files that a move or a swap of s and r concerns.
Concerned(s, r) == {stm[s].file, stm[r].file} \ {NoFile}
TaintAll(S, why) == [f \in Files |-> IF f \in S THEN tainted[f] \cup {why} ELSE tainted[f]]

\* Move construction and move assignment of s to r: m_stream and m_core go, and
\* m_filename stays.  The std stream that r had is destroyed: its file is closed.
Move(s, r) ==
    /\ StmCall /\ s # r /\ stm[s].kind # "none" /\ stm[r].kind \in {"none", stm[s].kind}
    /\ stm' = [stm EXCEPT
                 ![r] = [stm[s] EXCEPT !.filename = stm[r].filename],
                 ![s] = [@ EXCEPT !.stream = FALSE, !.file = NoFile, !.dirty = FALSE]]
    /\ disk' = IF stm[r].kind \in Writers /\ stm[r].file # NoFile
               THEN [disk EXCEPT ![stm[r].file] = "whole"] ELSE disk
    /\ lock' = lock \ {stm[r].file}
    /\ tainted' = TaintAll(Concerned(s, r), "moved")
    /\ UNCHANGED <<ctxVars, users, pub, partial, crash>>

\* swap(): the std streams are exchanged and nothing else; that of a moved-from
\* stream is a null pointer.
Swap(s, r) ==
    /\ StmCall /\ s # r /\ stm[s].kind # "none" /\ stm[r].kind = stm[s].kind /\ stm[s].stream
    /\ IF stm[r].stream
       THEN /\ stm' = [stm EXCEPT
                         ![s] = [@ EXCEPT !.file = stm[r].file, !.dirty = stm[r].dirty],
                         ![r] = [@ EXCEPT !.file = stm[s].file, !.dirty = stm[s].dirty]]
            /\ tainted' = TaintAll(Concerned(s, r), "moved")
            /\ UNCHANGED crash
       ELSE crash' = <<"swap", Main, "null">> /\ UNCHANGED <<stm, tainted>>
    /\ UNCHANGED <<ctxVars, users, lock, disk, pub, partial>>

\* A stream that follows its pointer to a context which is gone.
StreamCrashes(t, s) ==
    /\ StmCall /\ stm[s].stream
    /\ Syncs(s) \/ stm[s].kind = "ofstream" \/ stm[s].core.prod
    /\ Crashes("stream", t, stm[s].core.ctx)

\* A faulty variant: init(dyad_params) leaves the default as well.
FsLocksAlways(how) == TRUE

\* use_fs_locks of a context: dyad_init() sets it, and only init(dyad_params)
\* takes it back where the build has no descriptor.
FsLocks(how) == how = "env" \/ hasfd

\* dyad_consume() does not wait for the KVS when the file has a size and locks
\* can be relied upon.
Ready(f, how) == f \in pub \/ (FsLocks(how) /\ disk[f] # "none")

\* A consumer in another process reads f, when the lock lets it and dyad_consume()
\* does not send it to the KVS.
OtherReads(f, how) ==
    /\ f \notin lock /\ Ready(f, how)
    /\ partial' = IF disk[f] = "whole" THEN partial
                  ELSE partial \cup {[file |-> f, how |-> how,
                                      closing |-> \E s \in Streams : stm[s].file = f /\ stm[s].closing # "no"]}
    /\ UNCHANGED <<ctxVars, users, fixed, stm, lock, disk, pub, tainted, crash, left>>

Next ==
    \/ \E fault \in Faults : WrapperInit(fault)
    \/ \E t \in Apps : WrapperRead(t) \/ WrapperWrite(t) \/ WrapperCrashes(t) \/ Setter(t)
    \/ WrapperFini
    \/ \E a \in Params, fault \in Faults : PyInit(a, fault)
    \/ PyCall \/ PyCrashes \/ PyFinalize
    \/ \E fault \in Faults \ {"open"}, registered \in BOOLEAN : ModMain(fault, registered)
    \/ ModMainHelps
    \/ FreeCtx
    \/ \E t \in Apps, s \in Streams, kind \in {"ifstream", "ofstream", "fstream"}, fault \in Faults :
          \/ NewStream(t, s, kind, fault)
          \/ \E a \in Params : NewStreamParams(t, s, kind, a, fault)
    \/ \E s, r \in Streams : SetCore(s, r) \/ Move(s, r) \/ Swap(s, r)
    \/ \E s \in Streams, f \in Files : OpenRead(s, f) \/ OpenWrite(s, f)
    \/ \E s \in Streams : Write(s) \/ Destroy(s) \/ \E t \in Apps : StreamCrashes(t, s)
    \/ \E s \in Streams, how \in {"close", "destroy"} : CloseUnlock(s, how)
    \/ \E s \in Streams, published \in BOOLEAN : CloseFinish(s, published)
    \/ \E f \in Files, how \in {"env", "params"} : OtherReads(f, how)

Spec == Init /\ [][Next]_vars

-----------------------------------------------------------------------------
(* Properties *)

TypeOK ==
    /\ ctx \in [Threads -> 0..MaxObjs] /\ obj \in [Objs -> Context]
    /\ handle \in [Handles -> {"unused", "open", "closed", "twice"}]
    /\ norank \subseteq Handles /\ clean \subseteq Threads
    /\ hasfd \in BOOLEAN /\ env \in Args
    /\ wctx \in [Threads -> 0..MaxObjs] /\ pyctx \in 0..MaxObjs /\ pyinit \in BOOLEAN
    /\ mod \in {"loading", "serving", "failed", "unloaded"}
    /\ stm \in [Streams -> Stream]
    /\ lock \subseteq Files /\ pub \subseteq Files
    /\ disk \in [Files -> {"none", "part", "whole"}]
    /\ partial \subseteq [file : Files, how : {"env", "params"}, closing : BOOLEAN]
    /\ tainted \in [Files -> SUBSET {"moved", "reread", "unlocked", "unsynced", "failed"}]
    /\ crash \in {<<"no">>} \cup
         {"wrapper", "python", "stream", "swap"} \X Threads \X {"null", "freed"}
    /\ left \in Nat \X Nat

\* Every Flux handle that DYAD opened is closed once: it stays open only in a
\* context that is alive, whatever sequence of failed, repeated and forced
\* dyad_init() and of dyad_finalize() calls several users make.  The exceptions
\* are the code's: a handle whose rank could not be read is overwritten by the
\* next dyad_init(), and dyad_clear() also closes the broker's handle, which is
\* not its own, once in the failure and once in freectx().
HandlesAccounted ==
    \A n \in Handles \ norank :
        /\ handle[n] = "open" /\ n # Broker => \E o \in Objs : obj[o].mem = "live" /\ obj[o].h = n
        /\ handle[n] = "twice" => n = Broker /\ mod = "unloaded"

\* A thread whose calls were all told OK, the first with a managed path, has a
\* context that works: alive, with an open handle, the rank, a namespace, a DTL
\* with its functions, and a policy.  (A dyad_init() after a failed one is told
\* OK as well, by the default context that the failure put back.)
OkMeansUsable ==
    \A t \in clean :
        LET c == obj[ctx[t]]
        IN  /\ Live(ctx[t]) /\ c.initialized /\ c.rank /\ c.kvs_namespace /\ c.policy
            /\ c.dtl = "ready" /\ c.h # 0 /\ handle[c.h] = "open"

\* Between two calls the synchronisation is on: no call, whether it succeeds or
\* fails, leaves reenter off in an initialised context with a handle, where the
\* wrapper would silently bypass every later open() and close().
SyncStaysOn ==
    \A o \in Objs : obj[o].mem = "live" /\ obj[o].initialized /\ obj[o].h # 0 => obj[o].reenter

\* The module that serves has a context with a DTL and with the broker's handle,
\* open, although dyad_module_ctx_init() ignores what dyad_ctx_init() came to.
ServingModuleIsWhole ==
    mod = "serving" =>
        /\ Live(ctx[Service]) /\ obj[ctx[Service]].dtl = "ready" /\ obj[ctx[Service]].kvs_namespace
        /\ obj[ctx[Service]].h = Broker /\ handle[Broker] = "open"

\* Nobody follows a NULL context in the thread that loaded the library: only the
\* wrapper does, in the other threads, whose copy of the pointer was never set;
\* streams make a context where their thread has none.
NullOnlyElsewhere ==
    crash[1] \in {"stream", "python"} \/ (crash[1] = "wrapper" /\ crash[2] = Main) => crash[3] = "freed"

\* A file that a stream wrote and closed is published, whether close() or the
\* destructor did it and however often streams are opened again, unless the
\* stream's context could not publish, the KVS refused, the file was moved or
\* swapped while it was open, where m_filename stays behind, or the file was not
\* managed when it was opened, so that m_filename was never set to it: a setter
\* of the path may make it managed before the close.
ClosedIsPublished ==
    \A f \in Files :
        disk[f] = "whole" /\ (\A s \in Streams : stm[s].file # f)
            => f \in pub \/ tainted[f] \cap {"moved", "failed", "unsynced", "unlocked"} # {}

\* No file is published while its writer still has data in its buffer, unless it
\* was swapped with another: then close() of one publishes the other.
PublishedIsFlushed ==
    \A f \in pub : "moved" \in tainted[f] \/ \A s \in Streams : stm[s].file = f => ~stm[s].dirty

\* In a build that can lock, a stream holds the lock on the managed file that it
\* writes until its close(), whatever other streams of the process do, except
\* that a reader of the same file takes the lock of the whole process away.
WriterKeepsLock ==
    hasfd => \A s \in Streams :
        stm[s].kind \in Writers /\ stm[s].file # NoFile /\ stm[s].closing = "no"
            => stm[s].file \in lock \/ tainted[stm[s].file] \cap {"reread", "unlocked", "moved"} # {}

\* A consumer in another process that dyad_consume() lets through reads the whole
\* file.  The exceptions: the stretch of close() between the unlock and the write
\* of the buffer, a lock that was never taken or was lost (above), and a consumer
\* whose context came from the environment where the build cannot lock.
ReaderSeesWholeFile ==
    \A r \in partial : r.closing \/ tainted[r.file] # {} \/ (~hasfd /\ r.how = "env")

\* Contexts and handles through every sequence of initialisations,
\* finalisations and failures: each handle has one owner and is closed once, and
\* the module serves with a whole context or not at all.
ContextsSound == TypeOK /\ HandlesAccounted /\ ServingModuleIsWhole

\* What a stream publishes: each file that it has closed, and no file whose data
\* is still in a buffer.
StreamsSound == ClosedIsPublished /\ PublishedIsFlushed

\* What the lock of a stream is good for: it stays with the writer until the
\* close, and with it a consumer reads the whole file.
LocksSound == WriterKeepsLock /\ ReaderSeesWholeFile
=============================================================================
