--------------------------------- MODULE Ctx ---------------------------------
(***************************************************************************)
(* The life cycle of a DYAD context (src/dyad/core/dyad_ctx.c): one pointer *)
(* per thread to a context on the heap, dyad_init() with every way it can  *)
(* fail, the functions that change a context in place, and                 *)
(* dyad_finalize().  The DTL and the cache policy that a context holds are *)
(* behind dyad_dtl_api.c and dyad_cache_api.c; what they do is in the      *)
(* modules UcxDtl, MargoDtl and CacheEvict, here they are there or not.    *)
(*                                                                         *)
(* A thread's context is used by that thread alone while a call runs, so   *)
(* every call is one step.                                                 *)
(***************************************************************************)
EXTENDS Naturals, FiniteSets

CONSTANTS
    Threads,     \* threads that call DYAD
    MaxObjs,     \* bound on the contexts allocated
    MaxHandles   \* bound on the Flux handles

ASSUME CtxAssumption == MaxObjs \in Nat /\ MaxHandles \in Nat \ {0}

Objs == 1..MaxObjs         \* 0 is the NULL pointer
Handles == 1..MaxHandles   \* 0 is the NULL pointer
Broker == 1                \* the handle that the broker hands to mod_main()

\* A managed path as an argument: not given, the empty string, or a path.
Paths == {"null", "empty", "path"}
Args == [reinit : BOOLEAN, fsync_write : BOOLEAN, prod : Paths, cons : Paths]

\* struct dyad_ctx.  ready is dtl_handle with its functions set, and broken one
\* that dyad_dtl_init() allocated and could not initialise.
Context ==
    [mem : {"unused", "live", "freed"}, initialized : BOOLEAN, reenter : BOOLEAN,
     h : 0..MaxHandles, rank : BOOLEAN, kvs_namespace : BOOLEAN,
     dtl : {"none", "broken", "ready"}, policy : BOOLEAN,
     prod : BOOLEAN, cons : BOOLEAN, fsync_write : BOOLEAN]

\* dyad_ctx_default, which says that it is initialized.
Default ==
    [mem |-> "live", initialized |-> TRUE, reenter |-> FALSE, h |-> 0, rank |-> FALSE,
     kvs_namespace |-> FALSE, dtl |-> "none", policy |-> FALSE, prod |-> FALSE, cons |-> FALSE,
     fsync_write |-> FALSE]

VARIABLES
    ctx,     \* the thread-local pointer
    obj,     \* the contexts on the heap
    handle,  \* Flux handles
    norank,  \* history: handles whose rank could not be read
    clean    \* history: threads all of whose calls on the context were told OK
             \* and gave a managed path to the first

ctxVars == <<ctx, obj, handle, norank, clean>>

CtxInit ==
    /\ ctx = [t \in Threads |-> 0]
    /\ obj = [o \in Objs |-> [Default EXCEPT !.mem = "unused"]]
    /\ handle = [n \in Handles |-> IF n = Broker THEN "open" ELSE "unused"]
    /\ norank = {}
    /\ clean = {}

-----------------------------------------------------------------------------
(* dyad_clear() and dyad_finalize() *)

\* flux_close(): a second close of one handle is recorded.
Closed(hs, n) ==
    IF n = 0 THEN hs ELSE [hs EXCEPT ![n] = IF @ = "open" THEN "closed" ELSE "twice"]

\* dyad_dtl_finalize() and dyad_cache_policy_finalize(), which do nothing where
\* there is nothing and otherwise succeed.
DtlFinalized(c) == [c EXCEPT !.dtl = "none"]
PolicyFinalized(c) == [c EXCEPT !.policy = FALSE]

\* dyad_clear(): the DTL, the policy, the handle and every string go.
Cleared(c) ==
    [PolicyFinalized(DtlFinalized(c)) EXCEPT
        !.h = 0, !.kvs_namespace = FALSE, !.prod = FALSE, !.cons = FALSE]

\* The heap after dyad_finalize() of the context at o.
FinalizedObj(o) == IF o = 0 THEN obj ELSE [obj EXCEPT ![o] = [Cleared(@) EXCEPT !.mem = "freed"]]

\* A faulty variant: flux_close() is left to the caller.
FinalizedHandleKept(o) == handle

\* And the handles.
FinalizedHandle(o) == IF o = 0 THEN handle ELSE Closed(handle, obj[o].h)

\* dyad_finalize() of thread t, and dyad_ctx_fini(), which only tests for NULL.
DyadFinalize(t) ==
    /\ obj' = FinalizedObj(ctx[t])
    /\ handle' = FinalizedHandle(ctx[t])
    /\ ctx' = [ctx EXCEPT ![t] = 0]
    /\ clean' = clean \ {t}
    /\ UNCHANGED norank

-----------------------------------------------------------------------------
(* dyad_init() *)

\* What may go wrong: flux_open(), flux_get_rank(), or a later step, which are
\* the namespace, the origin path, the DTL, the cache policy and the paths.
Faults == {"none", "open", "rank", "setup"}

\* Is there nothing to do for thread t?
AlreadyInit(t, a) == ~a.reinit /\ ctx[t] # 0 /\ obj[ctx[t]].initialized

NoPaths(a) == a.prod = "null" /\ a.cons = "null"

\* Does the call leave by init_region_failed?  An empty path does it too.
Rejected(a, fault) == fault = "setup" \/ (fault = "none" /\ "empty" \in {a.prod, a.cons})

\* The context when the plain values are in it, with the handle n or none, and
\* as all the steps leave it.
Begun(a, n) == [Default EXCEPT !.reenter = TRUE, !.fsync_write = a.fsync_write, !.h = n]
Built(a, n) ==
    [Begun(a, n) EXCEPT !.rank = TRUE, !.kvs_namespace = TRUE,
                    !.dtl = "ready", !.policy = TRUE,
                    !.prod = a.prod = "path", !.cons = a.cons = "path"]

\* A faulty variant: what the setters of the paths return is not looked at.
InitOutcomeIgnores(t, a, fault, n) ==
    IF AlreadyInit(t, a) THEN [rc |-> "ok", c |-> [obj[ctx[t]] EXCEPT !.reenter = TRUE]]
    ELSE [rc |-> "ok", c |-> IF fault = "none" THEN Built(a, n) ELSE Begun(a, 0)]

\* The return code and the context, where a step fails as fault says.  A failure
\* to open the handle or to read the rank leaves by init_region_finish, a later
\* one by init_region_failed, which puts the default context back: initialized.
InitOutcome(t, a, fault, n) ==
    IF AlreadyInit(t, a) THEN [rc |-> "ok", c |-> [obj[ctx[t]] EXCEPT !.reenter = TRUE]]
    ELSE IF NoPaths(a) THEN [rc |-> "ok", c |-> [Default EXCEPT !.reenter = TRUE]]
    ELSE CASE fault = "open" -> [rc |-> "error", c |-> Begun(a, 0)]
           [] fault = "rank" -> [rc |-> "error", c |-> Begun(a, n)]
           [] Rejected(a, fault) -> [rc |-> "error", c |-> Default]
           [] OTHER -> [rc |-> "ok", c |-> Built(a, n)]

\* Does the call get as far as a handle?
GetsHandle(t, a, fault) == ~AlreadyInit(t, a) /\ ~NoPaths(a) /\ fault # "open"

\* The handles after the call: those that a reinit closes, the one that it opens
\* or was given, and that one closed again by the dyad_clear() of a failure.
InitHandles(t, a, fault, n) ==
    LET before == IF a.reinit THEN FinalizedHandle(ctx[t]) ELSE handle
        opened == [before EXCEPT ![n] = "open"]
    IN  IF ~GetsHandle(t, a, fault) THEN before
        ELSE IF Rejected(a, fault) THEN Closed(opened, n) ELSE opened

\* dyad_ctx_init() marks the context that dyad_init() could not initialise.
Uninitialized(c) == [c EXCEPT !.initialized = FALSE, !.reenter = FALSE]

\* malloc(), and flux_open(): the first that is not in use.
Least(S) == CHOOSE x \in S : \A y \in S : x <= y
FreeObjs == {o \in Objs : obj[o].mem = "unused"}
FreeHandles == {n \in Handles : handle[n] = "unused"}

\* dyad_init() by thread t with the arguments a: into the thread's context again,
\* if it has one that is not to be replaced, or into a new one.  The handle is
\* the one given, or a new one.  Where the call is made by dyad_ctx_init(), marks,
\* a context that could not be initialised is marked.
DyadInit(t, a, fault, given, marks) ==
    LET reuse == ctx[t] # 0 /\ ~a.reinit
        o     == IF reuse THEN ctx[t] ELSE Least(FreeObjs)
        n     == IF given # 0 THEN given ELSE Least(FreeHandles)
        out   == InitOutcome(t, a, fault, n)
    IN
    /\ reuse \/ FreeObjs # {}
    /\ given # 0 \/ FreeHandles # {}
    /\ fault # "none" => ~AlreadyInit(t, a) /\ ~NoPaths(a)
    /\ handle' = InitHandles(t, a, fault, n)
    /\ obj' = [(IF a.reinit THEN FinalizedObj(ctx[t]) ELSE obj) EXCEPT
                  ![o] = IF out.rc = "error" /\ marks THEN Uninitialized(out.c) ELSE out.c]
    /\ ctx' = [ctx EXCEPT ![t] = o]
    /\ norank' = IF fault = "rank" THEN norank \cup {n} ELSE norank
    /\ clean' = IF AlreadyInit(t, a) THEN clean
                ELSE IF out.rc = "ok" /\ ~NoPaths(a) THEN clean \cup {t} ELSE clean \ {t}

-----------------------------------------------------------------------------
(* Changing a context in place *)

\* A faulty variant: an early return leaves reenter off.
SetPathLeavesOff(t, side, path, fails) ==
    /\ ctx[t] # 0
    /\ obj' = [obj EXCEPT ![ctx[t]].reenter = fails = "no"]
    /\ UNCHANGED <<ctx, handle, norank, clean>>

\* Does a setter of a path leave one behind?  The old path is freed first; an
\* empty path, or the failed allocation of the managed path, leaves none, but the
\* failures that come later, with the real path, leave the managed path set.
Keeps(path, fails) == path = "path" /\ fails # "managed"

\* dyad_set_prod_path() and dyad_set_cons_path() on the context c.
ProdPathSet(c, path, fails) == [c EXCEPT !.prod = Keeps(path, fails)]
ConsPathSet(c, path, fails) == [c EXCEPT !.cons = Keeps(path, fails)]

\* One of them, called by thread t.  reenter is put back as it was.
SetPath(t, side, path, fails) ==
    /\ ctx[t] # 0
    /\ fails # "no" => path = "path"
    /\ obj' = [obj EXCEPT ![ctx[t]] = IF side = "prod" THEN ProdPathSet(@, path, fails)
                                      ELSE ConsPathSet(@, path, fails)]
    /\ clean' = IF path # "empty" /\ fails = "no" THEN clean ELSE clean \ {t}
    /\ UNCHANGED <<ctx, handle, norank>>

\* dyad_dtl_init() leaves an allocated dtl_handle behind when the mode cannot be
\* initialised; dyad_cache_policy_init() has a policy for every mode.
DtlInitialized(c, result) == [c EXCEPT !.dtl = result]
PolicyInitialized(c, result) == [c EXCEPT !.policy = result = "ok"]

\* dyad_set_and_init_dtl_mode(): a name that matches no mode changes nothing;
\* otherwise the old DTL is finalized and the new one initialised.
SetDtlMode(t, result) ==
    /\ ctx[t] # 0
    /\ obj' = IF result = "badmode" THEN obj
              ELSE [obj EXCEPT ![ctx[t]] = DtlInitialized(DtlFinalized(@), result)]
    /\ clean' = IF result = "ready" THEN clean ELSE clean \ {t}
    /\ UNCHANGED <<ctx, handle, norank>>

\* dyad_set_and_init_cache_policy(): likewise.
SetCachePolicy(t, result) ==
    /\ ctx[t] # 0
    /\ obj' = IF result = "badmode" THEN obj
              ELSE [obj EXCEPT ![ctx[t]] = PolicyInitialized(PolicyFinalized(@), result)]
    /\ clean' = IF result = "ok" THEN clean ELSE clean \ {t}
    /\ UNCHANGED <<ctx, handle, norank>>
=============================================================================
