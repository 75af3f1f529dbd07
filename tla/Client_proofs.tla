---------------------------- MODULE Client_proofs -----------------------------
(***************************************************************************)
(* Proofs about the users of a DYAD context, for any threads, streams and   *)
(* files and any bounds on contexts, handles and calls.  The invariant has  *)
(* three parts: CtxSound is about contexts and Flux handles, FilesSound     *)
(* about streams, their files, locks and what is published, UsersSound      *)
(* about the copies of the pointer.  Each action has a lemma for each part  *)
(* that it changes.                                                         *)
(*                                                                          *)
(* At the end, mkdir_as_needed(), which dyad_init(), the module and         *)
(* dyad_consume() call to make their directories, for any processes, any    *)
(* depth of the path and any number of calls and of faults.                 *)
(***************************************************************************)
EXTENDS Client, MkDirs, TLAPS, WellFoundedInduction

\* A stream that writes the file f, or could.
Writes(s, f) == stm[s].kind \in Writers /\ stm[s].file = f

\* Each thread's pointer is to a context of its own.  Nobody but mod_main() makes
\* a context in the thread of the module.
PointersInv ==
    /\ \A t \in Threads : ctx[t] # 0 => obj[ctx[t]].mem = "live"
    /\ \A t, u \in Threads : ctx[t] # 0 /\ ctx[t] = ctx[u] => t = u
    /\ mod = "loading" => ctx[Service] = 0

\* A handle that a context has is its own and open, and is closed with it; the
\* broker's, which dyad_clear() may have closed, is in the context of the module.
\* A context that has a handle and is not initialized got no rank.
OwnersInv ==
    \A o \in Objs : obj[o].h # 0 =>
        /\ obj[o].mem = "live"
        /\ obj[o].h = Broker => ctx[Service] = o
        /\ obj[o].h # Broker => handle[obj[o].h] = "open"
        /\ ~obj[o].initialized => obj[o].h \in norank \cup {Broker}
        /\ \A x \in Objs : obj[x].h = obj[o].h => x = o

\* No handle is left open or closed twice, but for the two exceptions.
HandlesInv ==
    /\ handle[Broker] # "unused"
    /\ \A n \in Handles :
        /\ handle[n] = "open" /\ n \notin norank \cup {Broker} => \E o \in Objs : obj[o].h = n
        /\ handle[n] = "twice" => n = Broker /\ mod = "unloaded"

UsersInv == Service \notin clean /\ OkMeansUsable /\ SyncStaysOn /\ ServingModuleIsWhole

CtxInv == PointersInv /\ OwnersInv /\ HandlesInv /\ UsersInv

\* One of the marks of S is on the file.
Marked(f, S) == tainted[f] \cap S # {}

\* A stream object: one that is none is as new; only a reader's file is marked as
\* read again, and a writer remembers the name of its file, or has opened it
\* unmanaged, or the file was moved.
StreamOf(s) ==
    /\ stm[s].kind = "none" => stm[s] = NoStream
    /\ stm[s].kind # "none" => stm[s].core.ctx # 0
    /\ stm[s].stream => stm[s].kind # "none"
    /\ stm[s].dirty => stm[s].kind \in Writers
    /\ stm[s].kind = "ifstream" /\ stm[s].file # NoFile => "reread" \in tainted[stm[s].file]
    /\ stm[s].kind \in Writers /\ stm[s].file # NoFile =>
        stm[s].filename = stm[s].file \/ Marked(stm[s].file, {"moved", "unlocked"})

\* The name that a writer remembers is of the file that it has open, or of one
\* that has been closed and that nobody can open for writing again.
NameOf(s) ==
    stm[s].kind \in Writers /\ stm[s].filename # NoFile =>
        \/ stm[s].filename = stm[s].file
        \/ "moved" \in tainted[stm[s].filename]
        \/ disk[stm[s].filename] = "whole" /\ \A r \in Streams : ~Writes(r, stm[s].filename)

\* WriterKeepsLock, for one stream.
LockOf(s) ==
    hasfd /\ stm[s].kind \in Writers /\ stm[s].file # NoFile /\ stm[s].closing = "no" =>
        stm[s].file \in lock \/ Marked(stm[s].file, {"reread", "unlocked", "moved"})

\* A file has one writer.  It is partial only while it has one; whole and closed
\* by all writers it is published, or marked; and published it has no writer.
FileOf(f) ==
    /\ \A r, s \in Streams : Writes(r, f) /\ Writes(s, f) => r = s
    /\ disk[f] = "part" => \E s \in Streams : Writes(s, f)
    /\ disk[f] = "whole" /\ (\A s \in Streams : ~Writes(s, f)) =>
        f \in pub \/ Marked(f, {"moved", "failed", "unsynced", "unlocked"})
    /\ f \in pub => "moved" \in tainted[f] \/ \A s \in Streams : ~Writes(s, f)
    /\ f \in pub => disk[f] = "whole" \/ tainted[f] # {}

StreamInv ==
    /\ \A s \in Streams : StreamOf(s) /\ NameOf(s) /\ LockOf(s)
    /\ \A f \in Files : FileOf(f)
    /\ ReaderSeesWholeFile

StreamTypeOK ==
    /\ hasfd \in BOOLEAN
    /\ stm \in [Streams -> Stream]
    /\ lock \subseteq Files /\ pub \subseteq Files
    /\ disk \in [Files -> {"none", "part", "whole"}]
    /\ partial \subseteq [file : Files, how : {"env", "params"}, closing : BOOLEAN]
    /\ tainted \in [Files -> SUBSET {"moved", "reread", "unlocked", "unsynced", "failed"}]

CtxTypeOK ==
    /\ ctx \in [Threads -> 0..MaxObjs] /\ obj \in [Objs -> Context]
    /\ handle \in [Handles -> {"unused", "open", "closed", "twice"}]
    /\ norank \subseteq Handles /\ clean \subseteq Threads
    /\ mod \in {"loading", "serving", "failed", "unloaded"}

UsersTypeOK ==
    /\ env \in Args
    /\ wctx \in [Threads -> 0..MaxObjs] /\ pyctx \in 0..MaxObjs /\ pyinit \in BOOLEAN
    /\ crash \in {<<"no">>} \cup
         {"wrapper", "python", "stream", "swap"} \X Threads \X {"null", "freed"}
    /\ left \in Nat \X Nat

CtxSound == CtxTypeOK /\ CtxInv
FilesSound == StreamTypeOK /\ StreamInv
UsersSound == UsersTypeOK /\ NullOnlyElsewhere

\* The inductive invariant.
ClientInv == CtxSound /\ FilesSound /\ UsersSound

-----------------------------------------------------------------------------
\* The constants, as the steps need them.
LEMMA Constants ==
    /\ MaxObjs \in Nat /\ MaxHandles \in Nat /\ MaxHandles > 0
    /\ Objs \subseteq Nat /\ 0 \notin Objs /\ 0..MaxObjs = Objs \cup {0}
    /\ Handles \subseteq Nat /\ 0 \notin Handles /\ 0..MaxHandles = Handles \cup {0}
    /\ Broker \in Handles /\ Broker # 0
    /\ Main \in Threads /\ Service \in Threads /\ Main # Service /\ NoFile \notin Files
<1> QED BY CtxAssumption, ClientAssumption DEF Objs, Handles, Broker

\* malloc() and flux_open() return one that is free.
LEMMA LeastIsIn ==
    ASSUME NEW S \in SUBSET Nat, S # {}
    PROVE  Least(S) \in S
<1> DEFINE R == OpToRel(<, Nat)
<1>1. IsWellFoundedOn(R, Nat)
  BY NatLessThanWellFounded
<1>2. \E x \in S : \A y \in S : ~ (<<y, x>> \in R)
  <2> HIDE DEF R
  <2> QED BY <1>1, WFMin
<1>3. \A x, y \in Nat : y < x => <<y, x>> \in R
  BY DEF OpToRel
<1> HIDE DEF R
<1>4. PICK x \in S : \A y \in S : ~ (<<y, x>> \in R)
  BY <1>2
<1>5. \A y \in S : x <= y
  <2> TAKE y \in S
  <2>1. x \in Nat /\ y \in Nat /\ ~(y < x)
    BY <1>3, <1>4
  <2> QED BY <2>1
<1> QED BY <1>5 DEF Least

\* What dyad_init() may put into a context.
LEMMA ContextForms ==
    ASSUME NEW a \in Args, NEW n \in 0..MaxHandles
    PROVE  /\ Default \in Context /\ Default.mem = "live" /\ Default.h = 0
           /\ Begun(a, n) \in Context /\ Begun(a, n).mem = "live" /\ Begun(a, n).h = n
           /\ Begun(a, n).initialized /\ Begun(a, n).reenter
           /\ Built(a, n) \in Context /\ Built(a, n).mem = "live" /\ Built(a, n).h = n
           /\ Built(a, n).initialized /\ Built(a, n).reenter /\ Built(a, n).rank
           /\ Built(a, n).kvs_namespace /\ Built(a, n).policy /\ Built(a, n).dtl = "ready"
           /\ Begun(a, n).dtl = "none" /\ Default.dtl = "none"
<1>1. /\ Default \in Context /\ Default.mem = "live" /\ Default.h = 0
      /\ Default.initialized /\ Default.dtl = "none"
  BY Constants DEF Default, Context
<1> HIDE DEF Default
<1>2. /\ Begun(a, n) \in Context /\ Begun(a, n).mem = "live" /\ Begun(a, n).h = n
      /\ Begun(a, n).initialized /\ Begun(a, n).reenter /\ Begun(a, n).dtl = "none"
  BY <1>1 DEF Begun, Context, Args
<1>3. /\ Built(a, n) \in Context /\ Built(a, n).mem = "live" /\ Built(a, n).h = n
      /\ Built(a, n).initialized /\ Built(a, n).reenter /\ Built(a, n).rank
      /\ Built(a, n).kvs_namespace /\ Built(a, n).policy /\ Built(a, n).dtl = "ready"
  BY <1>2 DEF Built, Context
<1> QED BY <1>1, <1>2, <1>3

\* And what dyad_ctx_init(), dyad_finalize() and the re-entrance flag make of one.
LEMMA ChangedForms ==
    ASSUME NEW c \in Context
    PROVE  /\ Uninitialized(c) \in Context
           /\ Uninitialized(c).mem = c.mem /\ Uninitialized(c).h = c.h
           /\ ~Uninitialized(c).initialized /\ Uninitialized(c).dtl = c.dtl
           /\ Uninitialized(c).kvs_namespace = c.kvs_namespace
           /\ [c EXCEPT !.reenter = TRUE] \in Context
           /\ [c EXCEPT !.reenter = TRUE].reenter
           /\ \A h \in 0..MaxHandles : [c EXCEPT !.h = h] \in Context
           /\ [Cleared(c) EXCEPT !.mem = "freed"] \in Context
           /\ [Cleared(c) EXCEPT !.mem = "freed"].h = 0
           /\ [Cleared(c) EXCEPT !.mem = "freed"].mem = "freed"
<1>1. /\ Uninitialized(c) \in Context
      /\ Uninitialized(c).mem = c.mem /\ Uninitialized(c).h = c.h
      /\ ~Uninitialized(c).initialized /\ Uninitialized(c).dtl = c.dtl
      /\ Uninitialized(c).kvs_namespace = c.kvs_namespace
  BY DEF Uninitialized, Context
<1>2. /\ [c EXCEPT !.reenter = TRUE] \in Context
      /\ [c EXCEPT !.reenter = TRUE].reenter
      /\ \A h \in 0..MaxHandles : [c EXCEPT !.h = h] \in Context
  BY DEF Context
<1>3. Cleared(c) \in Context /\ Cleared(c).h = 0
  BY Constants DEF Cleared, PolicyFinalized, DtlFinalized, Context
<1> HIDE DEF Cleared
<1>4. /\ [Cleared(c) EXCEPT !.mem = "freed"] \in Context
      /\ [Cleared(c) EXCEPT !.mem = "freed"].h = 0
      /\ [Cleared(c) EXCEPT !.mem = "freed"].mem = "freed"
  BY <1>3 DEF Context
<1> QED BY <1>1, <1>2, <1>4

-----------------------------------------------------------------------------
Marks == {"unused", "open", "closed", "twice"}

\* What dyad_init() of thread t does where it is not told that all is done: the
\* context c goes to o, with the new handle n or without one.  A context that it
\* replaces is freed and its handle closed.
Initialized(t, o, n, c) ==
    /\ o \in Objs /\ ctx' = [ctx EXCEPT ![t] = o]
    /\ (o = ctx[t] /\ ~obj[o].initialized) \/ obj[o].mem = "unused"
    /\ n \in Handles /\ handle[n] = "unused"
    /\ obj' \in [Objs -> Context] /\ obj'[o] = c
    /\ \A x \in Objs \ {o} :
        IF x = ctx[t] THEN obj'[x].h = 0 /\ obj'[x].mem = "freed" ELSE obj'[x] = obj[x]
    /\ handle' \in [Handles -> Marks]
    /\ \A m \in Handles \ {n} :
        handle'[m] = IF ctx[t] \in Objs \ {o} /\ obj[ctx[t]].h = m THEN "closed" ELSE handle[m]
    /\ c.mem = "live" /\ c.h \in {0, n}
    /\ handle'[n] = "open" <=> c.h = n
    /\ handle'[n] # "twice"
    /\ norank' \in {norank, norank \cup {n}}
    /\ c.h = n /\ ~c.initialized => n \in norank'
    /\ c.h = n /\ c.initialized => c.reenter
    /\ clean' \subseteq clean \cup {t}
    /\ t \in clean' =>
        c.initialized /\ c.rank /\ c.kvs_namespace /\ c.policy /\ c.dtl = "ready" /\ c.h = n

LEMMA InitInitializes ==
    ASSUME CtxTypeOK, CtxInv, NEW t \in Threads \ {Service}, NEW a \in Args, NEW fault \in Faults,
           NEW marks \in BOOLEAN, DyadInit(t, a, fault, 0, marks), ~AlreadyInit(t, a)
    PROVE  \E o, n, c : Initialized(t, o, n, c)
<1> USE Constants
<1>1. PICK o, n : /\ o = IF ctx[t] # 0 /\ ~a.reinit THEN ctx[t] ELSE Least(FreeObjs)
                  /\ n = Least(FreeHandles)
  OBVIOUS
<1>2. PICK out : out = InitOutcome(t, a, fault, n)
  OBVIOUS
<1>3. PICK base, before, c :
        /\ base = IF a.reinit THEN FinalizedObj(ctx[t]) ELSE obj
        /\ before = IF a.reinit THEN FinalizedHandle(ctx[t]) ELSE handle
        /\ c = IF out.rc = "error" /\ marks THEN Uninitialized(out.c) ELSE out.c
  OBVIOUS
<1>4. /\ (ctx[t] # 0 /\ ~a.reinit) \/ FreeObjs # {}
      /\ FreeHandles # {}
      /\ fault # "none" => ~NoPaths(a)
      /\ handle' = InitHandles(t, a, fault, n)
      /\ obj' = [base EXCEPT ![o] = c]
      /\ ctx' = [ctx EXCEPT ![t] = o]
      /\ norank' = IF fault = "rank" THEN norank \cup {n} ELSE norank
      /\ clean' = IF out.rc = "ok" /\ ~NoPaths(a) THEN clean \cup {t} ELSE clean \ {t}
  BY <1>1, <1>2, <1>3 DEF DyadInit
<1>5. n \in Handles /\ handle[n] = "unused" /\ n # 0 /\ n # Broker
  <2>1. FreeHandles \in SUBSET Nat
    BY DEF FreeHandles
  <2>2. n \in FreeHandles
    BY <1>1, <1>4, <2>1, LeastIsIn
  <2> QED BY <2>2 DEF FreeHandles, CtxInv, HandlesInv
<1>6. /\ o \in Objs
      /\ (o = ctx[t] /\ ~a.reinit /\ ~obj[o].initialized) \/ (obj[o].mem = "unused" /\ (ctx[t] = 0 \/ a.reinit))
  <2>1. CASE ctx[t] # 0 /\ ~a.reinit
    BY <1>1, <2>1 DEF CtxTypeOK, AlreadyInit
  <2>2. CASE ~(ctx[t] # 0 /\ ~a.reinit)
    <3>1. FreeObjs \in SUBSET Nat
      BY DEF FreeObjs
    <3>2. o \in FreeObjs
      BY <1>1, <1>4, <2>2, <3>1, LeastIsIn
    <3> QED BY <2>2, <3>2 DEF FreeObjs, Args
  <2> QED BY <2>1, <2>2
<1>7. /\ base \in [Objs -> Context]
      /\ \A x \in Objs :
            IF a.reinit /\ x = ctx[t] THEN base[x].h = 0 /\ base[x].mem = "freed" ELSE base[x] = obj[x]
  <2>1. obj \in [Objs -> Context] /\ ctx[t] \in Objs \cup {0}
    BY DEF CtxTypeOK
  <2>2. CASE a.reinit /\ ctx[t] # 0
    <3>1. PICK f : f = [Cleared(obj[ctx[t]]) EXCEPT !.mem = "freed"]
      OBVIOUS
    <3>2. f \in Context /\ f.h = 0 /\ f.mem = "freed"
      BY <2>1, <2>2, <3>1, ChangedForms
    <3>3. base = [obj EXCEPT ![ctx[t]] = f]
      BY <1>3, <2>2, <3>1 DEF FinalizedObj
    <3> QED BY <2>1, <2>2, <3>2, <3>3
  <2>3. CASE ~(a.reinit /\ ctx[t] # 0)
    BY <1>3, <2>1, <2>3 DEF FinalizedObj
  <2> QED BY <2>2, <2>3
<1>8. /\ before \in [Handles -> Marks]
      /\ \A m \in Handles :
            before[m] = IF a.reinit /\ ctx[t] # 0 /\ obj[ctx[t]].h = m THEN "closed" ELSE handle[m]
  <2>1. handle \in [Handles -> Marks] /\ ctx[t] \in Objs \cup {0}
    BY DEF CtxTypeOK, Marks
  <2>2. CASE a.reinit /\ ctx[t] # 0
    <3>1. PICK h : h = obj[ctx[t]].h
      OBVIOUS
    <3>2. before = Closed(handle, h)
      BY <1>3, <2>2, <3>1 DEF FinalizedHandle
    <3>3. h \in Handles \cup {0}
      BY <2>1, <2>2, <3>1 DEF CtxTypeOK, Context
    <3>4. h # 0 => handle[h] = "open"
      <4>1. h # 0 /\ h = Broker => ctx[Service] = ctx[t]
        BY <2>1, <2>2, <3>1 DEF CtxInv, OwnersInv
      <4>2. h # Broker
        BY <4>1, <2>2 DEF CtxInv, PointersInv
      <4> QED BY <2>1, <2>2, <3>1, <4>2 DEF CtxInv, OwnersInv
    <3>5. CASE h = 0
      BY <2>1, <2>2, <3>1, <3>2, <3>5 DEF Closed
    <3>6. CASE h # 0
      <4>1. before = [handle EXCEPT ![h] = "closed"]
        BY <3>2, <3>4, <3>6 DEF Closed
      <4> QED BY <2>1, <2>2, <3>1, <3>3, <3>6, <4>1 DEF Marks
    <3> QED BY <3>5, <3>6
  <2>3. CASE ~(a.reinit /\ ctx[t] # 0)
    BY <1>3, <2>1, <2>3 DEF FinalizedHandle
  <2> QED BY <2>2, <2>3
<1>9. handle' = IF ~GetsHandle(t, a, fault) THEN before
                ELSE IF Rejected(a, fault) THEN Closed([before EXCEPT ![n] = "open"], n)
                ELSE [before EXCEPT ![n] = "open"]
  BY <1>3, <1>4 DEF InitHandles
<1>10. before[n] = "unused"
  <2>1. ctx[t] # 0 => obj[ctx[t]].h # n
    BY <1>5 DEF CtxInv, OwnersInv, CtxTypeOK
  <2> QED BY <1>5, <1>8, <2>1
<1>11. /\ c \in Context /\ c.mem = "live"
       /\ \/ c.h = 0 /\ handle' = before
          \/ c.h = 0 /\ handle' = [before EXCEPT ![n] = "closed"]
          \/ c.h = n /\ handle' = [before EXCEPT ![n] = "open"]
       /\ c.h = n /\ ~c.initialized => fault = "rank"
       /\ c.h = n /\ c.initialized => c.reenter
       /\ out.rc = "ok" /\ ~NoPaths(a) =>
            c.initialized /\ c.rank /\ c.kvs_namespace /\ c.policy /\ c.dtl = "ready" /\ c.h = n
  <2>1. CASE NoPaths(a)
    <3>1. out.rc = "ok" /\ out.c = [Default EXCEPT !.reenter = TRUE]
      BY <1>2, <2>1 DEF InitOutcome
    <3>2. Default \in Context /\ Default.h = 0 /\ Default.mem = "live"
      BY ContextForms
    <3>3. c \in Context /\ c.h = 0 /\ c.mem = "live"
      <4>1. PICK d : d = Default
        OBVIOUS
      <4>2. d \in Context /\ d.h = 0 /\ d.mem = "live" /\ c = [d EXCEPT !.reenter = TRUE]
        BY <1>3, <3>1, <3>2, <4>1
      <4> QED BY ONLY <4>2 DEF Context
    <3> QED BY <1>5, <1>9, <2>1, <3>3 DEF GetsHandle
  <2>2. CASE ~NoPaths(a) /\ fault = "open"
    <3>1. out.rc = "error" /\ out.c = Begun(a, 0)
      BY <1>2, <2>2 DEF InitOutcome, Rejected
    <3>2. Begun(a, 0) \in Context /\ Begun(a, 0).h = 0 /\ Begun(a, 0).mem = "live"
      BY ContextForms
    <3>3. c \in Context /\ c.h = 0 /\ c.mem = "live"
      BY <1>3, <3>1, <3>2, ChangedForms
    <3> QED BY <1>5, <1>9, <2>2, <3>1, <3>3 DEF GetsHandle
  <2>3. CASE ~NoPaths(a) /\ fault = "rank"
    <3>1. out.rc = "error" /\ out.c = Begun(a, n)
      BY <1>2, <2>3 DEF InitOutcome, Rejected
    <3>2. /\ Begun(a, n) \in Context /\ Begun(a, n).h = n /\ Begun(a, n).mem = "live"
          /\ Begun(a, n).initialized /\ Begun(a, n).reenter
      BY <1>5, ContextForms
    <3>3. c \in Context /\ c.h = n /\ c.mem = "live" /\ (c.initialized => c.reenter)
      BY <1>3, <3>1, <3>2, ChangedForms
    <3>4. handle' = [before EXCEPT ![n] = "open"]
      BY <1>9, <2>3 DEF GetsHandle, Rejected
    <3> QED BY <2>3, <3>1, <3>3, <3>4
  <2>4. CASE ~NoPaths(a) /\ fault \notin {"open", "rank"} /\ Rejected(a, fault)
    <3>1. out.rc = "error" /\ out.c = Default
      BY <1>2, <2>4 DEF InitOutcome
    <3>2. Default \in Context /\ Default.h = 0 /\ Default.mem = "live"
      BY ContextForms
    <3>3. c \in Context /\ c.h = 0 /\ c.mem = "live"
      BY <1>3, <3>1, <3>2, ChangedForms
    <3>4. handle' = Closed([before EXCEPT ![n] = "open"], n)
      BY <1>9, <2>4 DEF GetsHandle
    <3>5. handle' = [before EXCEPT ![n] = "closed"]
      BY <1>5, <1>8, <3>4 DEF Closed
    <3> QED BY <1>5, <2>4, <3>1, <3>3, <3>5
  <2>5. CASE ~NoPaths(a) /\ fault \notin {"open", "rank"} /\ ~Rejected(a, fault)
    <3>1. out.rc = "ok" /\ out.c = Built(a, n)
      BY <1>2, <2>5 DEF InitOutcome
    <3>2. c = Built(a, n)
      BY <1>3, <3>1
    <3>3. handle' = [before EXCEPT ![n] = "open"]
      BY <1>9, <2>5 DEF GetsHandle
    <3>4. /\ c \in Context /\ c.mem = "live" /\ c.h = n
          /\ c.initialized /\ c.reenter /\ c.rank
          /\ c.kvs_namespace /\ c.policy /\ c.dtl = "ready"
      BY <1>5, <3>2, ContextForms
    <3> QED BY <3>3, <3>4
  <2> QED BY <2>1, <2>2, <2>3, <2>4, <2>5
<1>12. Initialized(t, o, n, c)
  <2>1. obj' \in [Objs -> Context] /\ obj'[o] = c /\ \A x \in Objs \ {o} : obj'[x] = base[x]
    BY <1>4, <1>6, <1>7, <1>11
  <2>2. \A x \in Objs \ {o} :
            IF x = ctx[t] THEN obj'[x].h = 0 /\ obj'[x].mem = "freed" ELSE obj'[x] = obj[x]
    BY <1>6, <1>7, <2>1
  <2>3. /\ handle' \in [Handles -> Marks]
        /\ \A m \in Handles \ {n} : handle'[m] = before[m]
        /\ handle'[n] = "open" <=> c.h = n
        /\ handle'[n] # "twice"
    BY <1>5, <1>8, <1>10, <1>11 DEF Marks
  <2>4. ctx[t] \in Objs \ {o} <=> a.reinit /\ ctx[t] # 0
    <3>1. ctx[t] \in Objs \cup {0}
      BY DEF CtxTypeOK
    <3>2. ctx[t] # 0 => obj[ctx[t]].mem = "live"
      BY DEF CtxInv, PointersInv
    <3> QED BY <1>6, <3>1, <3>2
  <2>5. \A m \in Handles \ {n} :
          handle'[m] = IF ctx[t] \in Objs \ {o} /\ obj[ctx[t]].h = m THEN "closed" ELSE handle[m]
    BY <1>8, <2>3, <2>4
  <2>6. c.h = n /\ ~c.initialized => n \in norank'
    BY <1>4, <1>11
  <2>7. clean' \subseteq clean \cup {t} /\ (t \in clean' => out.rc = "ok" /\ ~NoPaths(a))
    BY <1>4
  <2> QED BY <1>4, <1>5, <1>6, <1>11, <2>1, <2>2, <2>3, <2>5, <2>6, <2>7 DEF Initialized
<1> QED BY <1>12

LEMMA InitKeeps ==
    ASSUME CtxTypeOK, CtxInv, NEW t \in Threads \ {Service}, NEW o, NEW n, NEW c,
           Initialized(t, o, n, c), mod' = mod
    PROVE  CtxTypeOK' /\ CtxInv' /\ ctx'[t] # 0
<1> USE Constants
<1>1. /\ o \in Objs /\ ctx' = [ctx EXCEPT ![t] = o]
      /\ (o = ctx[t] /\ ~obj[o].initialized) \/ obj[o].mem = "unused"
      /\ n \in Handles /\ handle[n] = "unused" /\ n # Broker /\ n # 0
      /\ obj' \in [Objs -> Context] /\ obj'[o] = c
      /\ \A x \in Objs \ {o} :
          IF x = ctx[t] THEN obj'[x].h = 0 /\ obj'[x].mem = "freed" ELSE obj'[x] = obj[x]
      /\ handle' \in [Handles -> Marks]
      /\ \A m \in Handles \ {n} :
          handle'[m] = IF ctx[t] \in Objs \ {o} /\ obj[ctx[t]].h = m THEN "closed" ELSE handle[m]
  BY DEF Initialized, CtxInv, HandlesInv
<1>2. /\ c.mem = "live" /\ c.h \in {0, n}
      /\ handle'[n] = "open" <=> c.h = n
      /\ handle'[n] # "twice"
      /\ norank' \in {norank, norank \cup {n}}
      /\ c.h = n /\ ~c.initialized => n \in norank'
      /\ c.h = n /\ c.initialized => c.reenter
      /\ clean' \subseteq clean \cup {t}
      /\ t \in clean' =>
          c.initialized /\ c.rank /\ c.kvs_namespace /\ c.policy /\ c.dtl = "ready" /\ c.h = n
  BY DEF Initialized
<1>3. CtxTypeOK'
  <2>1. ctx' \in [Threads -> 0..MaxObjs]
    BY <1>1 DEF CtxTypeOK
  <2>2. norank' \subseteq Handles /\ clean' \subseteq Threads
    BY <1>1, <1>2 DEF CtxTypeOK
  <2> QED BY <1>1, <2>1, <2>2 DEF CtxTypeOK, Marks
<1>4. /\ ctx'[t] = o /\ o # 0
      /\ \A u \in Threads \ {t} : ctx'[u] = ctx[u]
      /\ \A u \in Threads : ctx[u] \in Objs \cup {0}
      /\ \A x \in Objs : obj[x].h \in Handles \cup {0}
  BY <1>1 DEF CtxTypeOK, Context
<1>5. \A u \in Threads \ {t} : ctx[u] # 0 => ctx[u] # ctx[t] /\ ctx[u] # o /\ obj'[ctx[u]] = obj[ctx[u]]
  BY <1>1, <1>4 DEF CtxInv, PointersInv
<1>6. PointersInv'
  <2>1. \A u \in Threads : ctx'[u] # 0 => obj'[ctx'[u]].mem = "live"
    BY <1>1, <1>2, <1>4, <1>5 DEF CtxInv, PointersInv
  <2>2. \A u, v \in Threads : ctx'[u] # 0 /\ ctx'[u] = ctx'[v] => u = v
    BY <1>4, <1>5 DEF CtxInv, PointersInv
  <2>3. mod' = "loading" => ctx'[Service] = 0
    BY <1>4 DEF CtxInv, PointersInv
  <2> QED BY <2>1, <2>2, <2>3 DEF PointersInv
<1>7. \A x \in Objs \ {o} : obj'[x].h # 0 => x # ctx[t] /\ obj'[x] = obj[x] /\ obj[x].h # n
  BY <1>1, <1>4 DEF CtxInv, OwnersInv
<1>8. OwnersInv'
  <2> SUFFICES ASSUME NEW x \in Objs, obj'[x].h # 0
               PROVE  /\ obj'[x].mem = "live"
                      /\ obj'[x].h = Broker => ctx'[Service] = x
                      /\ obj'[x].h # Broker => handle'[obj'[x].h] = "open"
                      /\ ~obj'[x].initialized => obj'[x].h \in norank' \cup {Broker}
                      /\ \A y \in Objs : obj'[y].h = obj'[x].h => y = x
    BY DEF OwnersInv
  <2>1. CASE x = o
    <3>1. obj'[x].h = n
      BY <1>1, <1>2, <2>1
    <3> QED BY <1>1, <1>2, <1>7, <2>1, <3>1
  <2>2. CASE x # o
    <3>1. x # ctx[t] /\ obj'[x] = obj[x] /\ obj[x].h # n /\ obj[x].h \in Handles
      BY <1>4, <1>7, <2>2
    <3>2. /\ obj[x].mem = "live"
          /\ obj[x].h = Broker => ctx[Service] = x
          /\ obj[x].h # Broker => handle[obj[x].h] = "open"
          /\ ~obj[x].initialized => obj[x].h \in norank \cup {Broker}
          /\ \A y \in Objs : obj[y].h = obj[x].h => y = x
      BY <2>2, <3>1 DEF CtxInv, OwnersInv
    <3>3. handle'[obj[x].h] = handle[obj[x].h]
      BY <1>1, <3>1, <3>2
    <3>4. \A y \in Objs : obj'[y].h = obj[x].h => y = x
      <4> TAKE y \in Objs
      <4>1. CASE y = o
        BY <1>1, <1>2, <2>2, <3>1, <4>1
      <4>2. CASE y # o
        BY <1>7, <3>1, <3>2, <4>2
      <4> QED BY <4>1, <4>2
    <3> QED BY <1>2, <1>4, <3>1, <3>2, <3>3, <3>4
  <2> QED BY <2>1, <2>2
<1>9. HandlesInv'
  <2>1. handle'[Broker] # "unused"
    BY <1>1 DEF CtxInv, HandlesInv
  <2> SUFFICES ASSUME NEW m \in Handles
               PROVE  /\ handle'[m] = "open" /\ m \notin norank' \cup {Broker} => \E x \in Objs : obj'[x].h = m
                      /\ handle'[m] = "twice" => m = Broker /\ mod' = "unloaded"
    BY <2>1 DEF HandlesInv
  <2>2. CASE m = n
    BY <1>1, <1>2, <2>2
  <2>3. CASE m # n
    <3>1. /\ handle[m] = "open" /\ m \notin norank \cup {Broker} => \E x \in Objs : obj[x].h = m
          /\ handle[m] = "twice" => m = Broker /\ mod = "unloaded"
      BY DEF CtxInv, HandlesInv
    <3>2. handle'[m] \in {"closed", handle[m]}
      BY <1>1, <2>3
    <3>3. ASSUME handle'[m] = "open", m \notin norank' \cup {Broker}
          PROVE  \E x \in Objs : obj'[x].h = m
      <4>1. handle[m] = "open" /\ m \notin norank \cup {Broker}
        BY <1>1, <1>2, <2>3, <3>2, <3>3
      <4>2. PICK x \in Objs : obj[x].h = m
        BY <3>1, <4>1
      <4>3. x # o
        BY <1>1, <1>4, <4>1, <4>2 DEF CtxInv, OwnersInv
      <4>4. x # ctx[t]
        BY <1>1, <2>3, <3>3, <4>2, <4>3
      <4> QED BY <1>1, <4>2, <4>3, <4>4
    <3> QED BY <3>1, <3>2, <3>3
  <2> QED BY <2>2, <2>3
<1>10. UsersInv'
  <2>1. Service \notin clean'
    BY <1>2 DEF CtxInv, UsersInv
  <2>2. OkMeansUsable'
    <3> SUFFICES ASSUME NEW u \in clean'
                 PROVE  /\ Live(ctx[u])' /\ obj'[ctx'[u]].initialized /\ obj'[ctx'[u]].rank
                        /\ obj'[ctx'[u]].kvs_namespace /\ obj'[ctx'[u]].policy
                        /\ obj'[ctx'[u]].dtl = "ready" /\ obj'[ctx'[u]].h # 0
                        /\ handle'[obj'[ctx'[u]].h] = "open"
      BY DEF OkMeansUsable
    <3>1. CASE u = t
      BY <1>1, <1>2, <1>4, <3>1 DEF Live
    <3>2. CASE u # t
      <4>1. u \in clean /\ u \in Threads
        BY <1>2, <3>2 DEF CtxTypeOK
      <4>2. /\ Live(ctx[u]) /\ obj[ctx[u]].initialized /\ obj[ctx[u]].rank
            /\ obj[ctx[u]].kvs_namespace /\ obj[ctx[u]].policy
            /\ obj[ctx[u]].dtl = "ready" /\ obj[ctx[u]].h # 0
            /\ handle[obj[ctx[u]].h] = "open"
        BY <4>1 DEF CtxInv, UsersInv, OkMeansUsable
      <4>3. ctx'[u] = ctx[u] /\ ctx[u] \in Objs /\ obj'[ctx[u]] = obj[ctx[u]]
        BY <1>4, <1>5, <3>2, <4>1, <4>2 DEF Live
      <4>4. handle'[obj[ctx[u]].h] = "open"
        <5>1. u # Service /\ obj[ctx[u]].h # Broker
          <6>1. u # Service
            BY <4>1 DEF CtxInv, UsersInv
          <6>2. obj[ctx[u]].h = Broker => ctx[Service] = ctx[u]
            BY <4>2, <4>3 DEF CtxInv, OwnersInv
          <6> QED BY <4>1, <4>2, <6>1, <6>2 DEF CtxInv, PointersInv, Live
        <5> QED BY <1>8, <4>2, <4>3, <5>1 DEF OwnersInv
      <4> QED BY <4>2, <4>3, <4>4 DEF Live
    <3> QED BY <3>1, <3>2
  <2>3. SyncStaysOn'
    <3> SUFFICES ASSUME NEW x \in Objs, obj'[x].initialized, obj'[x].h # 0 PROVE obj'[x].reenter
      BY DEF SyncStaysOn
    <3>1. CASE x = o
      BY <1>1, <1>2, <3>1
    <3>2. CASE x # o
      BY <1>7, <3>2 DEF CtxInv, UsersInv, SyncStaysOn, OwnersInv
    <3> QED BY <3>1, <3>2
  <2>4. ServingModuleIsWhole'
    <3>1. mod = "serving" =>
            /\ ctx[Service] # 0 /\ obj[ctx[Service]].mem = "live"
            /\ obj[ctx[Service]].dtl = "ready" /\ obj[ctx[Service]].kvs_namespace
            /\ obj[ctx[Service]].h = Broker /\ handle[Broker] = "open"
      BY DEF CtxInv, UsersInv, ServingModuleIsWhole, Live
    <3>2. ctx'[Service] = ctx[Service] /\ (ctx[Service] # 0 => obj'[ctx[Service]] = obj[ctx[Service]])
      BY <1>4, <1>5
    <3>3. mod = "serving" => handle'[Broker] = "open"
      <4>1. ctx[t] \in Objs => obj[ctx[t]].h # Broker
        BY <1>4, <1>5 DEF CtxInv, OwnersInv
      <4> QED BY <1>1, <3>1, <4>1
    <3> QED BY <3>1, <3>2, <3>3 DEF ServingModuleIsWhole, Live
  <2> QED BY <2>1, <2>2, <2>3, <2>4 DEF UsersInv
<1> QED BY <1>3, <1>4, <1>6, <1>8, <1>9, <1>10 DEF CtxInv

\* A step that changes contexts in place: who has them, their handles and whether
\* they are initialized stay, and what a thread that is told OK may rely on.
Amended ==
    /\ UNCHANGED <<ctx, handle, norank, mod>>
    /\ obj' \in [Objs -> Context]
    /\ clean' \subseteq clean
    /\ \A o \in Objs :
        /\ obj'[o].mem = obj[o].mem /\ obj'[o].h = obj[o].h
        /\ obj'[o].initialized = obj[o].initialized
        /\ obj[o].reenter => obj'[o].reenter
    /\ \A t \in clean' \cup {Service} : ctx[t] # 0 =>
        /\ obj[ctx[t]].rank => obj'[ctx[t]].rank
        /\ obj[ctx[t]].kvs_namespace => obj'[ctx[t]].kvs_namespace
        /\ obj[ctx[t]].policy => obj'[ctx[t]].policy
        /\ obj[ctx[t]].dtl = "ready" => obj'[ctx[t]].dtl = "ready"

LEMMA AmendKeeps ==
    ASSUME CtxTypeOK, CtxInv, Amended
    PROVE  CtxTypeOK' /\ CtxInv'
<1> USE Constants
<1>1. /\ ctx' = ctx /\ handle' = handle /\ norank' = norank /\ mod' = mod
      /\ obj' \in [Objs -> Context] /\ clean' \subseteq clean
      /\ \A o \in Objs :
          /\ obj'[o].mem = obj[o].mem /\ obj'[o].h = obj[o].h
          /\ obj'[o].initialized = obj[o].initialized
          /\ obj[o].reenter => obj'[o].reenter
      /\ \A t \in clean' \cup {Service} : ctx[t] # 0 =>
          /\ obj[ctx[t]].rank => obj'[ctx[t]].rank
          /\ obj[ctx[t]].kvs_namespace => obj'[ctx[t]].kvs_namespace
          /\ obj[ctx[t]].policy => obj'[ctx[t]].policy
          /\ obj[ctx[t]].dtl = "ready" => obj'[ctx[t]].dtl = "ready"
  BY DEF Amended
<1>2. CtxTypeOK'
  BY <1>1 DEF CtxTypeOK
<1>3. \A t \in Threads : ctx[t] \in Objs \cup {0}
  BY DEF CtxTypeOK
<1>4. PointersInv'
  BY <1>1, <1>3 DEF CtxInv, PointersInv
<1>5. OwnersInv'
  BY <1>1 DEF CtxInv, OwnersInv
<1>6. HandlesInv'
  BY <1>1 DEF CtxInv, HandlesInv
<1>7. UsersInv'
  <2>1. OkMeansUsable'
    BY <1>1, <1>3 DEF CtxInv, UsersInv, OkMeansUsable, Live, CtxTypeOK
  <2>2. SyncStaysOn'
    BY <1>1 DEF CtxInv, UsersInv, SyncStaysOn
  <2>3. ServingModuleIsWhole'
    BY <1>1, <1>3 DEF CtxInv, UsersInv, ServingModuleIsWhole, Live
  <2> QED BY <1>1, <2>1, <2>2, <2>3 DEF CtxInv, UsersInv
<1> QED BY <1>2, <1>4, <1>5, <1>6, <1>7 DEF CtxInv

\* A call that only puts the re-entrance flag back on.
LEMMA TouchAmends ==
    ASSUME CtxTypeOK, NEW o \in Objs, obj' = [obj EXCEPT ![o].reenter = TRUE],
           UNCHANGED <<ctx, handle, norank, clean, mod>>
    PROVE  Amended
<1>1. PICK c : c = [obj[o] EXCEPT !.reenter = TRUE]
  OBVIOUS
<1>2. /\ c \in Context /\ c.mem = obj[o].mem /\ c.h = obj[o].h /\ c.initialized = obj[o].initialized
      /\ c.reenter /\ c.rank = obj[o].rank /\ c.kvs_namespace = obj[o].kvs_namespace
      /\ c.policy = obj[o].policy /\ c.dtl = obj[o].dtl
  BY <1>1 DEF CtxTypeOK, Context
<1>3. obj \in [Objs -> Context] /\ obj' = [obj EXCEPT ![o] = c]
  BY <1>1 DEF CtxTypeOK
<1>4. \A x \in Objs : obj'[x] = IF x = o THEN c ELSE obj[x]
  BY <1>3
<1>5. \A t \in Threads : ctx[t] # 0 => ctx[t] \in Objs
  BY Constants DEF CtxTypeOK
<1>6. clean' \subseteq Threads /\ Service \in Threads
  BY Constants DEF CtxTypeOK
<1>7. obj' \in [Objs -> Context]
  BY <1>2, <1>3
<1> QED BY <1>2, <1>4, <1>5, <1>6, <1>7 DEF Amended

\* A step that leaves contexts and the module alone.
LEMMA StillAmends == ASSUME CtxTypeOK, UNCHANGED <<ctxVars, mod>> PROVE Amended
<1> QED BY DEF Amended, ctxVars, CtxTypeOK

\* dyad_init() by any thread but the module's.
LEMMA InitStep ==
    ASSUME CtxTypeOK, CtxInv, NEW t \in Threads \ {Service}, NEW a \in Args, NEW fault \in Faults,
           NEW marks \in BOOLEAN, DyadInit(t, a, fault, 0, marks), mod' = mod
    PROVE  CtxTypeOK' /\ CtxInv' /\ ctx'[t] \in Objs
<1>1. CASE AlreadyInit(t, a)
  <2>1. PICK n : n = Least(FreeHandles)
    OBVIOUS
  <2>2. ctx[t] \in Objs /\ ctx[t] # 0 /\ ~a.reinit
    BY <1>1, Constants DEF AlreadyInit, CtxTypeOK
  <2>3. PICK out : out = InitOutcome(t, a, fault, n)
    OBVIOUS
  <2>4. out.rc = "ok" /\ out.c = [obj[ctx[t]] EXCEPT !.reenter = TRUE]
    BY <1>1, <2>3 DEF InitOutcome
  <2>5. /\ fault = "none"
        /\ handle' = InitHandles(t, a, fault, n)
        /\ obj' = [obj EXCEPT ![ctx[t]] = out.c]
        /\ ctx' = [ctx EXCEPT ![t] = ctx[t]]
        /\ norank' = norank
        /\ clean' = clean
    BY <1>1, <2>1, <2>2, <2>3, <2>4 DEF DyadInit, Faults
  <2>6. handle' = handle
    BY <1>1, <2>2, <2>5 DEF InitHandles, GetsHandle
  <2>7. ctx' = ctx
    BY <2>5 DEF CtxTypeOK
  <2>8. PICK o \in Objs : o = ctx[t]
    BY <2>2
  <2>9. obj' = [obj EXCEPT ![o].reenter = TRUE]
    BY <2>4, <2>5, <2>8
  <2>10. Amended
    BY <2>5, <2>6, <2>7, <2>9, TouchAmends
  <2> QED BY <2>2, <2>7, <2>10, AmendKeeps
<1>2. CASE ~AlreadyInit(t, a)
  <2>1. PICK o, n, c : Initialized(t, o, n, c)
    BY <1>2, InitInitializes
  <2>2. CtxTypeOK' /\ CtxInv' /\ ctx'[t] # 0
    BY <2>1, InitKeeps
  <2> QED BY <2>2, Constants DEF CtxTypeOK
<1> QED BY <1>1, <1>2

\* The functions that change a context in place.
LEMMA SetterStep ==
    ASSUME CtxTypeOK, CtxInv, NEW t \in Threads \ {Service}, mod' = mod,
           \/ \E side \in {"prod", "cons"}, path \in Paths,
                 fails \in {"no", "managed", "real"} : SetPath(t, side, path, fails)
           \/ \E result \in {"badmode", "none", "broken", "ready"} : SetDtlMode(t, result)
           \/ \E result \in {"badmode", "fails", "ok"} : SetCachePolicy(t, result)
    PROVE  CtxTypeOK' /\ CtxInv'
<1>0. ctx[t] \in Objs /\ ctx[t] # 0 /\ obj \in [Objs -> Context] /\ obj[ctx[t]] \in Context
  BY Constants DEF SetPath, SetDtlMode, SetCachePolicy, CtxTypeOK
<1>1. ASSUME NEW c \in Context, obj' = [obj EXCEPT ![ctx[t]] = c],
             c.mem = obj[ctx[t]].mem, c.h = obj[ctx[t]].h,
             c.initialized = obj[ctx[t]].initialized, c.reenter = obj[ctx[t]].reenter,
             c.rank = obj[ctx[t]].rank, c.kvs_namespace = obj[ctx[t]].kvs_namespace,
             clean' \in {clean, clean \ {t}}, UNCHANGED <<ctx, handle, norank>>,
             t \in clean' => (obj[ctx[t]].policy => c.policy) /\ (obj[ctx[t]].dtl = "ready" => c.dtl = "ready")
      PROVE  Amended
  <2>1. \A x \in Objs : obj'[x] = IF x = ctx[t] THEN c ELSE obj[x]
    BY <1>0, <1>1
  <2>2. obj' \in [Objs -> Context]
    BY <1>0, <1>1
  <2>3. \A u \in clean' \cup {Service} : u \in Threads /\ (ctx[u] # 0 => ctx[u] \in Objs)
    BY <1>1, Constants DEF CtxTypeOK
  <2>4. \A u \in clean' \cup {Service} : ctx[u] # 0 => u = t \/ ctx[u] # ctx[t]
    BY <2>3 DEF CtxInv, PointersInv
  <2>5. \A u \in clean' \cup {Service} : ctx[u] # 0 =>
          /\ obj[ctx[u]].rank => obj'[ctx[u]].rank
          /\ obj[ctx[u]].kvs_namespace => obj'[ctx[u]].kvs_namespace
          /\ obj[ctx[u]].policy => obj'[ctx[u]].policy
          /\ obj[ctx[u]].dtl = "ready" => obj'[ctx[u]].dtl = "ready"
    BY <1>1, <2>1, <2>3, <2>4
  <2>6. clean' \subseteq clean
    BY <1>1
  <2> QED BY <1>1, <2>1, <2>2, <2>5, <2>6 DEF Amended
<1>2. ASSUME NEW side \in {"prod", "cons"}, NEW path \in Paths, NEW fails \in {"no", "managed", "real"},
             SetPath(t, side, path, fails)
      PROVE  Amended
  <2>1. PICK c : c = IF side = "prod" THEN ProdPathSet(obj[ctx[t]], path, fails)
                     ELSE ConsPathSet(obj[ctx[t]], path, fails)
    OBVIOUS
  <2>2. /\ c \in Context
        /\ c.mem = obj[ctx[t]].mem /\ c.h = obj[ctx[t]].h
        /\ c.initialized = obj[ctx[t]].initialized /\ c.reenter = obj[ctx[t]].reenter
        /\ c.rank = obj[ctx[t]].rank /\ c.kvs_namespace = obj[ctx[t]].kvs_namespace
        /\ c.policy = obj[ctx[t]].policy /\ c.dtl = obj[ctx[t]].dtl
    BY <1>0, <2>1 DEF ProdPathSet, ConsPathSet, Keeps, Context
  <2>3. obj' = [obj EXCEPT ![ctx[t]] = c] /\ clean' \in {clean, clean \ {t}}
        /\ UNCHANGED <<ctx, handle, norank>>
    BY <1>2, <2>1, <1>0 DEF SetPath
  <2> QED BY <1>1, <2>2, <2>3
<1>3. ASSUME NEW result \in {"badmode", "none", "broken", "ready"}, SetDtlMode(t, result) PROVE Amended
  <2>1. CASE result = "badmode"
    <3>1. obj' = obj /\ clean' \subseteq clean /\ UNCHANGED <<ctx, handle, norank>>
      BY <1>3, <2>1 DEF SetDtlMode
    <3> QED BY <1>0, <3>1 DEF Amended
  <2>2. CASE result # "badmode"
    <3>1. PICK c : c = DtlInitialized(DtlFinalized(obj[ctx[t]]), result)
      OBVIOUS
    <3>2. /\ c \in Context
          /\ c.mem = obj[ctx[t]].mem /\ c.h = obj[ctx[t]].h
          /\ c.initialized = obj[ctx[t]].initialized /\ c.reenter = obj[ctx[t]].reenter
          /\ c.rank = obj[ctx[t]].rank /\ c.kvs_namespace = obj[ctx[t]].kvs_namespace
          /\ c.policy = obj[ctx[t]].policy /\ c.dtl = result
      BY <1>0, <2>2, <3>1 DEF DtlInitialized, DtlFinalized, Context
    <3>3. /\ obj' = [obj EXCEPT ![ctx[t]] = c]
          /\ clean' = IF result = "ready" THEN clean ELSE clean \ {t}
          /\ UNCHANGED <<ctx, handle, norank>>
      BY <1>3, <1>0, <2>2, <3>1 DEF SetDtlMode
    <3>4. clean' \in {clean, clean \ {t}} /\ (t \in clean' => result = "ready")
      BY <3>3
    <3> QED BY <1>1, <3>2, <3>3, <3>4
  <2> QED BY <2>1, <2>2
<1>4. ASSUME NEW result \in {"badmode", "fails", "ok"}, SetCachePolicy(t, result) PROVE Amended
  <2>1. CASE result = "badmode"
    <3>1. obj' = obj /\ clean' \subseteq clean /\ UNCHANGED <<ctx, handle, norank>>
      BY <1>4, <2>1 DEF SetCachePolicy
    <3> QED BY <1>0, <3>1 DEF Amended
  <2>2. CASE result # "badmode"
    <3>1. PICK c : c = PolicyInitialized(PolicyFinalized(obj[ctx[t]]), result)
      OBVIOUS
    <3>2. /\ c \in Context
          /\ c.mem = obj[ctx[t]].mem /\ c.h = obj[ctx[t]].h
          /\ c.initialized = obj[ctx[t]].initialized /\ c.reenter = obj[ctx[t]].reenter
          /\ c.rank = obj[ctx[t]].rank /\ c.kvs_namespace = obj[ctx[t]].kvs_namespace
          /\ c.policy = (result = "ok") /\ c.dtl = obj[ctx[t]].dtl
      BY <1>0, <2>2, <3>1 DEF PolicyInitialized, PolicyFinalized, Context
    <3>3. /\ obj' = [obj EXCEPT ![ctx[t]] = c]
          /\ clean' = IF result = "ok" THEN clean ELSE clean \ {t}
          /\ UNCHANGED <<ctx, handle, norank>>
      BY <1>4, <1>0, <2>2, <3>1 DEF SetCachePolicy
    <3>4. clean' \in {clean, clean \ {t}} /\ (t \in clean' => result = "ok")
      BY <3>3
    <3> QED BY <1>1, <3>2, <3>3, <3>4
  <2> QED BY <2>1, <2>2
<1>5. Amended
  BY <1>2, <1>3, <1>4
<1> QED BY <1>5, AmendKeeps

\* dyad_finalize(), by any thread; the module's only when it is unloaded.
LEMMA FinalizeStep ==
    ASSUME CtxTypeOK, CtxInv, NEW t \in Threads, DyadFinalize(t),
           (mod' = mod /\ t # Service) \/ (mod' = "unloaded" /\ mod # "unloaded")
    PROVE  CtxTypeOK' /\ CtxInv'
<1> USE Constants
<1>1. /\ ctx' = [ctx EXCEPT ![t] = 0] /\ clean' = clean \ {t} /\ norank' = norank
      /\ obj' = FinalizedObj(ctx[t]) /\ handle' = FinalizedHandle(ctx[t])
  BY DEF DyadFinalize
<1>2. /\ \A u \in Threads : ctx[u] \in Objs \cup {0}
      /\ obj \in [Objs -> Context] /\ handle \in [Handles -> Marks]
      /\ \A x \in Objs : obj[x].h \in Handles \cup {0}
  BY DEF CtxTypeOK, Context, Marks
<1>3. /\ obj' \in [Objs -> Context]
      /\ \A x \in Objs :
            IF x = ctx[t] THEN obj'[x].h = 0 /\ obj'[x].mem = "freed" ELSE obj'[x] = obj[x]
  <2>1. CASE ctx[t] # 0
    <3>1. PICK f : f = [Cleared(obj[ctx[t]]) EXCEPT !.mem = "freed"]
      OBVIOUS
    <3>2. f \in Context /\ f.h = 0 /\ f.mem = "freed"
      BY <1>2, <2>1, <3>1, ChangedForms
    <3>3. obj' = [obj EXCEPT ![ctx[t]] = f]
      BY <1>1, <2>1, <3>1 DEF FinalizedObj
    <3> QED BY <1>2, <2>1, <3>2, <3>3
  <2>2. CASE ctx[t] = 0
    BY <1>1, <1>2, <2>2 DEF FinalizedObj
  <2> QED BY <2>1, <2>2
<1>4. \A h \in Handles : ctx[t] # 0 /\ obj[ctx[t]].h = h /\ h # Broker => handle[h] = "open"
  BY <1>2 DEF CtxInv, OwnersInv
<1>5. /\ handle' \in [Handles -> Marks]
      /\ \A m \in Handles :
            IF ctx[t] # 0 /\ obj[ctx[t]].h = m
            THEN handle'[m] = IF handle[m] = "open" THEN "closed" ELSE "twice"
            ELSE handle'[m] = handle[m]
  <2>1. CASE ctx[t] # 0
    <3>1. PICK h : h = obj[ctx[t]].h
      OBVIOUS
    <3>2. handle' = Closed(handle, h) /\ h \in Handles \cup {0}
      BY <1>1, <1>2, <2>1, <3>1 DEF FinalizedHandle
    <3>3. CASE h = 0
      BY <1>2, <3>1, <3>2, <3>3 DEF Closed
    <3>4. CASE h # 0
      <4>1. handle' = [handle EXCEPT ![h] = IF handle[h] = "open" THEN "closed" ELSE "twice"]
        BY <3>2, <3>4 DEF Closed
      <4> QED BY <1>2, <2>1, <3>1, <3>2, <3>4, <4>1 DEF Marks
    <3> QED BY <3>3, <3>4
  <2>2. CASE ctx[t] = 0
    BY <1>1, <1>2, <2>2 DEF FinalizedHandle
  <2> QED BY <2>1, <2>2
<1>6. CtxTypeOK'
  <2>1. ctx' \in [Threads -> 0..MaxObjs] /\ norank' \subseteq Handles /\ clean' \subseteq Threads
    BY <1>1 DEF CtxTypeOK
  <2>2. mod' \in {"loading", "serving", "failed", "unloaded"}
    BY DEF CtxTypeOK
  <2> QED BY <1>3, <1>5, <2>1, <2>2 DEF CtxTypeOK, Marks
<1>7. /\ ctx'[t] = 0
      /\ \A u \in Threads \ {t} : ctx'[u] = ctx[u] /\ (ctx[u] # 0 => ctx[u] # ctx[t])
  BY <1>1 DEF CtxTypeOK, CtxInv, PointersInv
<1>8. PointersInv'
  <2>1. \A u \in Threads : ctx'[u] # 0 => obj'[ctx'[u]].mem = "live"
    BY <1>2, <1>3, <1>7 DEF CtxInv, PointersInv
  <2>2. \A u, v \in Threads : ctx'[u] # 0 /\ ctx'[u] = ctx'[v] => u = v
    BY <1>7 DEF CtxInv, PointersInv
  <2>3. mod' = "loading" => ctx'[Service] = 0
    BY <1>7 DEF CtxInv, PointersInv
  <2> QED BY <2>1, <2>2, <2>3 DEF PointersInv
<1>9. \A x \in Objs : obj'[x].h # 0 =>
        /\ x # ctx[t] /\ obj'[x] = obj[x] /\ obj[x].h \in Handles
        /\ handle'[obj[x].h] = handle[obj[x].h]
  <2> TAKE x \in Objs
  <2> HAVE obj'[x].h # 0
  <2>1. x # ctx[t] /\ obj'[x] = obj[x] /\ obj[x].h \in Handles
    BY <1>2, <1>3
  <2>2. ctx[t] # 0 => obj[ctx[t]].h # obj[x].h
    BY <1>2, <2>1 DEF CtxInv, OwnersInv
  <2> QED BY <1>5, <2>1, <2>2
<1>10. OwnersInv'
  <2> SUFFICES ASSUME NEW x \in Objs, obj'[x].h # 0
               PROVE  /\ obj'[x].mem = "live"
                      /\ obj'[x].h = Broker => ctx'[Service] = x
                      /\ obj'[x].h # Broker => handle'[obj'[x].h] = "open"
                      /\ ~obj'[x].initialized => obj'[x].h \in norank' \cup {Broker}
                      /\ \A y \in Objs : obj'[y].h = obj'[x].h => y = x
    BY DEF OwnersInv
  <2>1. /\ x # ctx[t] /\ obj'[x] = obj[x] /\ obj[x].h # 0
        /\ handle'[obj[x].h] = handle[obj[x].h]
    BY <1>9
  <2>2. /\ obj[x].mem = "live"
        /\ obj[x].h = Broker => ctx[Service] = x
        /\ obj[x].h # Broker => handle[obj[x].h] = "open"
        /\ ~obj[x].initialized => obj[x].h \in norank \cup {Broker}
        /\ \A y \in Objs : obj[y].h = obj[x].h => y = x
    BY <2>1 DEF CtxInv, OwnersInv
  <2>3. obj'[x].h = Broker => ctx'[Service] = x
    BY <1>7, <2>1, <2>2
  <2>4. \A y \in Objs : obj'[y].h = obj'[x].h => y = x
    BY <1>9, <2>1, <2>2
  <2> QED BY <1>1, <2>1, <2>2, <2>3, <2>4
<1>11. HandlesInv'
  <2>1. handle'[Broker] # "unused"
    BY <1>5 DEF CtxInv, HandlesInv
  <2> SUFFICES ASSUME NEW m \in Handles
               PROVE  /\ handle'[m] = "open" /\ m \notin norank' \cup {Broker} => \E x \in Objs : obj'[x].h = m
                      /\ handle'[m] = "twice" => m = Broker /\ mod' = "unloaded"
    BY <2>1 DEF HandlesInv
  <2>2. /\ handle[m] = "open" /\ m \notin norank \cup {Broker} => \E x \in Objs : obj[x].h = m
        /\ handle[m] = "twice" => m = Broker /\ mod = "unloaded"
    BY DEF CtxInv, HandlesInv
  <2>3. CASE ctx[t] # 0 /\ obj[ctx[t]].h = m
    <3>1. m = Broker => t = Service
      BY <1>2, <2>3 DEF CtxInv, OwnersInv, PointersInv
    <3> QED BY <1>4, <1>5, <2>3, <3>1
  <2>4. CASE ~(ctx[t] # 0 /\ obj[ctx[t]].h = m)
    <3>1. handle'[m] = handle[m]
      BY <1>5, <2>4
    <3>2. \A x \in Objs : obj[x].h = m => obj'[x].h = m
      BY <1>2, <1>3, <2>4
    <3> QED BY <1>1, <2>2, <3>1, <3>2
  <2> QED BY <2>3, <2>4
<1>12. UsersInv'
  <2>1. Service \notin clean'
    BY <1>1 DEF CtxInv, UsersInv
  <2>2. OkMeansUsable'
    <3> SUFFICES ASSUME NEW u \in clean'
                 PROVE  /\ Live(ctx[u])' /\ obj'[ctx'[u]].initialized /\ obj'[ctx'[u]].rank
                        /\ obj'[ctx'[u]].kvs_namespace /\ obj'[ctx'[u]].policy
                        /\ obj'[ctx'[u]].dtl = "ready" /\ obj'[ctx'[u]].h # 0
                        /\ handle'[obj'[ctx'[u]].h] = "open"
      BY DEF OkMeansUsable
    <3>1. u \in clean /\ u \in Threads /\ u # t
      BY <1>1 DEF CtxTypeOK
    <3>2. /\ Live(ctx[u]) /\ obj[ctx[u]].initialized /\ obj[ctx[u]].rank
          /\ obj[ctx[u]].kvs_namespace /\ obj[ctx[u]].policy
          /\ obj[ctx[u]].dtl = "ready" /\ obj[ctx[u]].h # 0
          /\ handle[obj[ctx[u]].h] = "open"
      BY <3>1 DEF CtxInv, UsersInv, OkMeansUsable
    <3>3. ctx'[u] = ctx[u] /\ ctx[u] \in Objs /\ obj'[ctx[u]] = obj[ctx[u]]
      BY <1>2, <1>3, <1>7, <3>1, <3>2 DEF Live
    <3>4. handle'[obj[ctx[u]].h] = handle[obj[ctx[u]].h]
      BY <1>9, <3>2, <3>3
    <3> QED BY <3>2, <3>3, <3>4 DEF Live
  <2>3. SyncStaysOn'
    BY <1>9 DEF CtxInv, UsersInv, SyncStaysOn, OwnersInv
  <2>4. ServingModuleIsWhole'
    <3> SUFFICES ASSUME mod' = "serving" PROVE ServingModuleIsWhole'
      BY DEF ServingModuleIsWhole
    <3>1. /\ mod = "serving" /\ t # Service
          /\ ctx[Service] # 0 /\ obj[ctx[Service]].mem = "live"
          /\ obj[ctx[Service]].dtl = "ready" /\ obj[ctx[Service]].kvs_namespace
          /\ obj[ctx[Service]].h = Broker /\ handle[Broker] = "open"
      BY DEF CtxInv, UsersInv, ServingModuleIsWhole, Live
    <3>2. ctx'[Service] = ctx[Service] /\ obj'[ctx[Service]] = obj[ctx[Service]]
      BY <1>2, <1>3, <1>7, <3>1
    <3>3. handle'[Broker] = "open"
      BY <1>2, <1>9, <3>1, <3>2
    <3> QED BY <3>1, <3>2, <3>3 DEF ServingModuleIsWhole, Live
  <2> QED BY <2>1, <2>2, <2>3, <2>4 DEF UsersInv
<1> QED BY <1>6, <1>8, <1>10, <1>11, <1>12 DEF CtxInv

\* mod_main() with its context.
LEMMA ModMainStep ==
    ASSUME CtxTypeOK, CtxInv, env \in Args, NEW fault \in Faults \ {"open"}, NEW registered \in BOOLEAN,
           ModMain(fault, registered)
    PROVE  CtxTypeOK' /\ CtxInv'
<1> USE Constants
<1>1. PICK a \in Args : a = env
  OBVIOUS
<1>2. PICK o, out : o = Least(FreeObjs) /\ out = InitOutcome(Service, a, fault, Broker)
  OBVIOUS
<1>3. PICK c : c = [(IF out.rc = "error" THEN Uninitialized(out.c) ELSE out.c) EXCEPT !.h = Broker]
  OBVIOUS
<1>4. /\ mod = "loading" /\ a.prod # "null" /\ ~a.reinit /\ ctx[Service] = 0
      /\ FreeObjs # {}
      /\ handle' = InitHandles(Service, a, fault, Broker)
      /\ obj' = [obj EXCEPT ![o] = c]
      /\ ctx' = [ctx EXCEPT ![Service] = o]
      /\ norank' = norank /\ clean' = clean
      /\ mod' = IF obj'[ctx'[Service]].dtl = "none" \/ ~registered THEN "failed" ELSE "serving"
  BY <1>1, <1>2, <1>3 DEF ModMain, ModuleCtxInit, CtxInv, PointersInv
<1>5. ~AlreadyInit(Service, a) /\ ~NoPaths(a) /\ GetsHandle(Service, a, fault)
  BY <1>4 DEF AlreadyInit, NoPaths, GetsHandle
<1>6. o \in Objs /\ obj[o].mem = "unused" /\ o # 0
  <2>1. FreeObjs \in SUBSET Nat
    BY DEF FreeObjs
  <2>2. o \in FreeObjs
    BY <1>2, <1>4, <2>1, LeastIsIn
  <2> QED BY <2>2 DEF FreeObjs
<1>7. /\ obj \in [Objs -> Context] /\ handle \in [Handles -> Marks]
      /\ \A u \in Threads : ctx[u] \in Objs \cup {0}
      /\ \A x \in Objs : obj[x].h \in Handles \cup {0}
  BY DEF CtxTypeOK, Marks, Context
<1>8. /\ handle' \in [Handles -> Marks] /\ handle'[Broker] \in {"open", "closed"}
      /\ \A m \in Handles \ {Broker} : handle'[m] = handle[m]
      /\ ~Rejected(a, fault) => handle'[Broker] = "open"
  <2>1. handle' = IF Rejected(a, fault) THEN Closed([handle EXCEPT ![Broker] = "open"], Broker)
                  ELSE [handle EXCEPT ![Broker] = "open"]
    BY <1>4, <1>5 DEF InitHandles
  <2>2. Closed([handle EXCEPT ![Broker] = "open"], Broker) = [handle EXCEPT ![Broker] = "closed"]
    BY <1>7 DEF Closed
  <2> QED BY <1>7, <2>1, <2>2 DEF Marks
<1>9. /\ c \in Context /\ c.mem = "live" /\ c.h = Broker
      /\ c.initialized => c.reenter
      /\ c.dtl # "none" => c.dtl = "ready" /\ c.kvs_namespace /\ ~Rejected(a, fault)
  <2>1. ASSUME NEW d \in Context, d.mem = "live", c = [d EXCEPT !.h = Broker]
        PROVE  /\ c \in Context /\ c.mem = "live" /\ c.h = Broker /\ c.initialized = d.initialized
               /\ c.reenter = d.reenter /\ c.dtl = d.dtl /\ c.kvs_namespace = d.kvs_namespace
    BY ONLY <2>1, Constants DEF Context
  <2>2. CASE fault = "rank"
    <3>1. out.rc = "error" /\ out.c = Begun(a, Broker)
      BY <1>2, <1>5, <2>2 DEF InitOutcome, Rejected
    <3>2. PICK b, d : b = Begun(a, Broker) /\ d = Uninitialized(b)
      OBVIOUS
    <3>3. b \in Context /\ b.mem = "live" /\ b.dtl = "none"
      BY <3>2, ContextForms
    <3>4. /\ d \in Context /\ d.mem = "live" /\ ~d.initialized /\ d.dtl = "none"
          /\ c = [d EXCEPT !.h = Broker]
      BY <1>3, <3>1, <3>2, <3>3, ChangedForms
    <3> QED BY <2>1, <3>4
  <2>3. CASE fault # "rank" /\ Rejected(a, fault)
    <3>1. out.rc = "error" /\ out.c = Default
      BY <1>2, <1>5, <2>3 DEF InitOutcome, Rejected
    <3>2. PICK d : d = Uninitialized(Default)
      OBVIOUS
    <3>3. /\ d \in Context /\ d.mem = "live" /\ ~d.initialized /\ d.dtl = "none"
          /\ c = [d EXCEPT !.h = Broker]
      BY <1>1, <1>3, <3>1, <3>2, ContextForms, ChangedForms
    <3> QED BY <2>1, <3>3
  <2>4. CASE fault # "rank" /\ ~Rejected(a, fault)
    <3>1. out.rc = "ok" /\ out.c = Built(a, Broker)
      BY <1>2, <1>5, <2>4 DEF InitOutcome
    <3>2. PICK d : d = Built(a, Broker)
      OBVIOUS
    <3>3. /\ d \in Context /\ d.mem = "live" /\ d.reenter /\ d.dtl = "ready" /\ d.kvs_namespace
          /\ c = [d EXCEPT !.h = Broker]
      BY <1>3, <3>1, <3>2, ContextForms
    <3> QED BY <2>1, <2>4, <3>3
  <2> QED BY <2>2, <2>3, <2>4
<1>10. /\ obj' \in [Objs -> Context] /\ obj'[o] = c /\ \A x \in Objs \ {o} : obj'[x] = obj[x]
       /\ ctx'[Service] = o /\ \A u \in Threads \ {Service} : ctx'[u] = ctx[u]
       /\ ctx' \in [Threads -> 0..MaxObjs]
       /\ mod' \in {"serving", "failed"} /\ (mod' = "serving" => c.dtl # "none")
  <2>1. obj' \in [Objs -> Context] /\ obj'[o] = c /\ \A x \in Objs \ {o} : obj'[x] = obj[x]
    BY <1>4, <1>6, <1>7, <1>9
  <2>2. /\ ctx'[Service] = o /\ \A u \in Threads \ {Service} : ctx'[u] = ctx[u]
        /\ ctx' \in [Threads -> 0..MaxObjs]
    BY <1>4, <1>6 DEF CtxTypeOK
  <2> QED BY <1>4, <2>1, <2>2
<1>11. CtxTypeOK'
  BY <1>4, <1>8, <1>10 DEF CtxTypeOK, Marks
<1>12. \A u \in Threads : ctx[u] # 0 => ctx[u] # o /\ u # Service
  BY <1>4, <1>6 DEF CtxInv, PointersInv
<1>13. \A x \in Objs \ {o} : obj[x].h # Broker
  BY <1>4 DEF CtxInv, OwnersInv
<1>14. PointersInv'
  <2>1. \A u \in Threads : ctx'[u] # 0 => obj'[ctx'[u]].mem = "live"
    BY <1>7, <1>9, <1>10, <1>12 DEF CtxInv, PointersInv
  <2>2. \A u, v \in Threads : ctx'[u] # 0 /\ ctx'[u] = ctx'[v] => u = v
    BY <1>10, <1>12 DEF CtxInv, PointersInv
  <2> QED BY <1>10, <2>1, <2>2 DEF PointersInv
<1>15. OwnersInv'
  <2> SUFFICES ASSUME NEW x \in Objs, obj'[x].h # 0
               PROVE  /\ obj'[x].mem = "live"
                      /\ obj'[x].h = Broker => ctx'[Service] = x
                      /\ obj'[x].h # Broker => handle'[obj'[x].h] = "open"
                      /\ ~obj'[x].initialized => obj'[x].h \in norank' \cup {Broker}
                      /\ \A y \in Objs : obj'[y].h = obj'[x].h => y = x
    BY DEF OwnersInv
  <2>1. CASE x = o
    BY <1>9, <1>10, <1>13, <2>1
  <2>2. CASE x # o
    <3>1. obj'[x] = obj[x] /\ obj[x].h \in Handles \ {Broker}
      BY <1>7, <1>10, <1>13, <2>2
    <3>2. /\ obj[x].mem = "live" /\ handle[obj[x].h] = "open"
          /\ ~obj[x].initialized => obj[x].h \in norank \cup {Broker}
          /\ \A y \in Objs : obj[y].h = obj[x].h => y = x
      BY <2>2, <3>1 DEF CtxInv, OwnersInv
    <3>3. \A y \in Objs : obj'[y].h = obj'[x].h => y = x
      BY <1>9, <1>10, <3>1, <3>2
    <3> QED BY <1>4, <1>8, <3>1, <3>2, <3>3
  <2> QED BY <2>1, <2>2
<1>16. HandlesInv'
  <2>1. \A m \in Handles : handle'[m] = "twice" => m = Broker /\ mod' = "unloaded"
    BY <1>4, <1>8 DEF CtxInv, HandlesInv
  <2>2. ASSUME NEW m \in Handles, handle'[m] = "open", m \notin norank' \cup {Broker}
        PROVE  \E x \in Objs : obj'[x].h = m
    <3>1. PICK x \in Objs : obj[x].h = m
      BY <1>4, <1>8, <2>2 DEF CtxInv, HandlesInv
    <3>2. x # o
      BY <1>6, <2>2, <3>1 DEF CtxInv, OwnersInv
    <3> QED BY <1>10, <3>1, <3>2
  <2> QED BY <1>8, <2>1, <2>2 DEF HandlesInv
<1>17. UsersInv'
  <2>1. Service \notin clean'
    BY <1>4 DEF CtxInv, UsersInv
  <2>2. OkMeansUsable'
    <3> SUFFICES ASSUME NEW u \in clean'
                 PROVE  /\ Live(ctx[u])' /\ obj'[ctx'[u]].initialized /\ obj'[ctx'[u]].rank
                        /\ obj'[ctx'[u]].kvs_namespace /\ obj'[ctx'[u]].policy
                        /\ obj'[ctx'[u]].dtl = "ready" /\ obj'[ctx'[u]].h # 0
                        /\ handle'[obj'[ctx'[u]].h] = "open"
      BY DEF OkMeansUsable
    <3>1. u \in clean /\ u \in Threads /\ u # Service
      BY <1>4 DEF CtxTypeOK, CtxInv, UsersInv
    <3>2. /\ Live(ctx[u]) /\ obj[ctx[u]].initialized /\ obj[ctx[u]].rank
          /\ obj[ctx[u]].kvs_namespace /\ obj[ctx[u]].policy
          /\ obj[ctx[u]].dtl = "ready" /\ obj[ctx[u]].h # 0
          /\ handle[obj[ctx[u]].h] = "open"
      BY <3>1 DEF CtxInv, UsersInv, OkMeansUsable
    <3>3. ctx'[u] = ctx[u] /\ ctx[u] \in Objs \ {o} /\ obj'[ctx[u]] = obj[ctx[u]]
      BY <1>7, <1>10, <1>12, <3>1, <3>2 DEF Live
    <3>4. handle'[obj[ctx[u]].h] = handle[obj[ctx[u]].h]
      BY <1>7, <1>8, <1>13, <3>2, <3>3
    <3> QED BY <3>2, <3>3, <3>4 DEF Live
  <2>3. SyncStaysOn'
    <3> SUFFICES ASSUME NEW x \in Objs, obj'[x].mem = "live", obj'[x].initialized, obj'[x].h # 0
                 PROVE  obj'[x].reenter
      BY DEF SyncStaysOn
    <3> QED BY <1>9, <1>10 DEF CtxInv, UsersInv, SyncStaysOn
  <2>4. ServingModuleIsWhole'
    BY <1>6, <1>8, <1>9, <1>10 DEF ServingModuleIsWhole, Live
  <2> QED BY <2>1, <2>2, <2>3, <2>4 DEF UsersInv
<1> QED BY <1>11, <1>14, <1>15, <1>16, <1>17 DEF CtxInv

-----------------------------------------------------------------------------
\* Marks stay, and with them what a consumer has read of a file that is not whole.
LEMMA MarksStay ==
    ASSUME \A f \in Files : tainted[f] \subseteq tainted'[f]
    PROVE  /\ \A f \in Files : \A S : Marked(f, S) => Marked(f, S)'
           /\ StreamTypeOK /\ ReaderSeesWholeFile /\ UNCHANGED <<hasfd, partial>> => ReaderSeesWholeFile'
<1>1. \A f \in Files : \A S : Marked(f, S) => Marked(f, S)'
  BY DEF Marked
<1>2. ASSUME StreamTypeOK, ReaderSeesWholeFile, UNCHANGED <<hasfd, partial>> PROVE ReaderSeesWholeFile'
  <2> SUFFICES ASSUME NEW r \in partial
               PROVE  r.closing \/ tainted'[r.file] # {} \/ (~hasfd /\ r.how = "env")
    BY <1>2 DEF ReaderSeesWholeFile
  <2>1. r.file \in Files /\ (r.closing \/ tainted[r.file] # {} \/ (~hasfd /\ r.how = "env"))
    BY <1>2 DEF ReaderSeesWholeFile, StreamTypeOK
  <2> QED BY <2>1
<1> QED BY <1>1, <1>2

\* A step after which the same streams write the same files, and that writes only
\* where one of them does.
LEMMA FilesStay ==
    ASSUME StreamTypeOK, StreamInv, pub' = pub,
           \A f \in Files : tainted[f] \subseteq tainted'[f],
           \A s \in Streams, f \in Files : Writes(s, f)' <=> Writes(s, f),
           \A f \in Files : disk'[f] = disk[f] \/ \E s \in Streams : Writes(s, f)
    PROVE  /\ \A f \in Files : FileOf(f)'
           /\ \A s \in Streams :
                stm'[s].kind = stm[s].kind /\ stm'[s].file = stm[s].file /\ stm'[s].filename = stm[s].filename
                    => NameOf(s)'
<1>1. \A f \in Files : \A S : Marked(f, S) => Marked(f, S)'
  BY MarksStay
<1>2. ASSUME NEW f \in Files PROVE FileOf(f)'
  <2>1. FileOf(f) /\ tainted[f] \subseteq tainted'[f] /\ (\A s \in Streams : Writes(s, f)' <=> Writes(s, f))
        /\ (disk'[f] = disk[f] \/ \E s \in Streams : Writes(s, f))
    BY DEF StreamInv
  <2> HIDE DEF Writes, Marked
  <2>2. (\A r, s \in Streams : Writes(r, f) /\ Writes(s, f) => r = s)'
    BY <2>1 DEF FileOf
  <2>3. (disk[f] = "part" => \E s \in Streams : Writes(s, f))'
    BY <2>1 DEF FileOf
  <2>4. (disk[f] = "whole" /\ (\A s \in Streams : ~Writes(s, f)) =>
            f \in pub \/ Marked(f, {"moved", "failed", "unsynced", "unlocked"}))'
    BY <1>1, <2>1 DEF FileOf
  <2>5. (f \in pub => "moved" \in tainted[f] \/ \A s \in Streams : ~Writes(s, f))'
    BY <2>1 DEF FileOf
  <2>6. (f \in pub => disk[f] = "whole" \/ tainted[f] # {})'
    BY <2>1 DEF FileOf
  <2> QED BY <2>2, <2>3, <2>4, <2>5, <2>6 DEF FileOf
<1>3. ASSUME NEW s \in Streams, stm'[s].kind = stm[s].kind, stm'[s].file = stm[s].file,
             stm'[s].filename = stm[s].filename
      PROVE  NameOf(s)'
  <2> SUFFICES ASSUME stm[s].kind \in Writers, stm[s].filename # NoFile
               PROVE  NameOf(s)'
    BY <1>3 DEF NameOf
  <2>1. PICK f : f = stm[s].filename
    OBVIOUS
  <2>2. f \in Files
    BY <2>1 DEF StreamTypeOK, Stream
  <2>3. f = stm[s].file \/ "moved" \in tainted[f] \/ (disk[f] = "whole" /\ \A r \in Streams : ~Writes(r, f))
    BY <2>1 DEF StreamInv, NameOf
  <2>4. f = stm'[s].file \/ "moved" \in tainted'[f] \/ (disk'[f] = "whole" /\ \A r \in Streams : ~Writes(r, f)')
    BY <1>3, <2>2, <2>3
  <2>5. f = stm'[s].filename
    BY <1>3, <2>1
  <2> QED BY <2>4, <2>5 DEF NameOf, Writes
<1> QED BY <1>2, <1>3

\* A step that changes one stream, and neither the files that are written nor
\* what is published.
LEMMA OneStreamStep ==
    ASSUME StreamTypeOK, StreamInv, NEW s \in Streams, UNCHANGED <<hasfd, pub, partial>>,
           \A r \in Streams \ {s} : stm'[r] = stm[r],
           \A f \in Files : tainted[f] \subseteq tainted'[f],
           \A f \in Files : Writes(s, f)' <=> Writes(s, f),
           \A f \in Files : disk'[f] = disk[f] \/ Writes(s, f),
           \A f \in lock \ lock', r \in Streams \ {s} : Writes(r, f) => "reread" \in tainted'[f],
           StreamOf(s)', LockOf(s)',
           NameOf(s)' \/ (/\ stm'[s].kind = stm[s].kind /\ stm'[s].file = stm[s].file
                          /\ stm'[s].filename = stm[s].filename)
    PROVE  StreamInv'
<1>1. \A f \in Files : \A S : Marked(f, S) => Marked(f, S)'
  BY MarksStay
<1>2. ReaderSeesWholeFile'
  BY MarksStay DEF StreamInv
<1>3. \A r \in Streams, f \in Files : Writes(r, f)' <=> Writes(r, f)
  BY DEF Writes
<1>4. \A f \in Files : disk'[f] = disk[f] \/ \E r \in Streams : Writes(r, f)
  OBVIOUS
<1>5. /\ \A f \in Files : FileOf(f)'
      /\ \A r \in Streams :
            stm'[r].kind = stm[r].kind /\ stm'[r].file = stm[r].file /\ stm'[r].filename = stm[r].filename
                => NameOf(r)'
  BY <1>3, <1>4, FilesStay
<1>6. ASSUME NEW r \in Streams, r # s PROVE StreamOf(r)' /\ NameOf(r)' /\ LockOf(r)'
  <2>1. stm'[r] = stm[r] /\ stm[r] \in Stream /\ StreamOf(r) /\ LockOf(r)
    BY <1>6 DEF StreamInv, StreamTypeOK
  <2>2. stm[r].file \in Files \cup {NoFile}
    BY <2>1 DEF Stream
  <2>3. StreamOf(r)'
    BY <1>1, <2>1, <2>2 DEF StreamOf
  <2>4. NameOf(r)'
    BY <1>5, <2>1
  <2>5. LockOf(r)'
    <3> SUFFICES ASSUME hasfd, stm[r].kind \in Writers, stm[r].file # NoFile, stm[r].closing = "no"
                 PROVE  stm[r].file \in lock' \/ Marked(stm[r].file, {"reread", "unlocked", "moved"})'
      BY <2>1 DEF LockOf
    <3>1. PICK f \in Files : f = stm[r].file
      BY <2>2
    <3>2. Writes(r, f)
      BY <3>1 DEF Writes
    <3>3. f \in lock \/ Marked(f, {"reread", "unlocked", "moved"})
      BY <2>1, <3>1 DEF LockOf
    <3>4. f \in lock' \/ Marked(f, {"reread", "unlocked", "moved"})'
      <4>1. CASE f \in lock \ lock'
        <5>1. "reread" \in tainted'[f]
          BY <1>6, <3>2, <4>1
        <5> QED BY <5>1 DEF Marked
      <4>2. CASE f \notin lock \ lock'
        BY <1>1, <3>3, <4>2
      <4> QED BY <4>1, <4>2
    <3>5. f = stm'[r].file
      BY <2>1, <3>1
    <3> QED BY <3>1, <3>4, <3>5 DEF Marked
  <2> QED BY <2>3, <2>4, <2>5
<1> QED BY <1>2, <1>5, <1>6 DEF StreamInv

\* A step that leaves the streams and the files alone.
LEMMA StreamsStay ==
    ASSUME StreamTypeOK, StreamInv, UNCHANGED <<hasfd, stm, files>>
    PROVE  StreamTypeOK' /\ StreamInv'
<1>1. UNCHANGED <<hasfd, stm, lock, disk, pub, partial, tainted>>
  BY DEF files
<1>2. StreamTypeOK'
  BY <1>1 DEF StreamTypeOK
<1>3. StreamInv'
  BY <1>1 DEF StreamInv, StreamOf, NameOf, LockOf, FileOf, ReaderSeesWholeFile, Writes, Marked
<1> QED BY <1>2, <1>3

\* A new stream, with a context.
LEMMA FreshStep ==
    ASSUME StreamTypeOK, StreamInv, UNCHANGED <<hasfd, files>>, NEW s \in Streams, stm[s].kind = "none",
           NEW kind \in {"ifstream", "ofstream", "fstream"}, NEW core \in Core, core.ctx # 0,
           stm' = [stm EXCEPT ![s] = Fresh(kind, core)]
    PROVE  StreamTypeOK' /\ StreamInv'
<1>1. UNCHANGED <<lock, disk, pub, partial, tainted>>
  BY DEF files
<1>2. PICK n : n = Fresh(kind, core)
  OBVIOUS
<1>3. /\ n \in Stream /\ n.kind = kind /\ n.core = core /\ n.stream /\ n.file = NoFile /\ ~n.dirty
      /\ n.filename = NoFile /\ n.closing = "no"
  BY <1>2 DEF Fresh, NoStream, Stream
<1>4. /\ stm' \in [Streams -> Stream] /\ stm'[s] = n /\ \A r \in Streams \ {s} : stm'[r] = stm[r]
  BY <1>2, <1>3 DEF StreamTypeOK
<1>5. StreamTypeOK'
  BY <1>1, <1>4 DEF StreamTypeOK
<1>6. StreamOf(s)' /\ NameOf(s)' /\ LockOf(s)'
  BY <1>3, <1>4 DEF StreamOf, NameOf, LockOf
<1>7. \A f \in Files : Writes(s, f)' <=> Writes(s, f)
  BY <1>3, <1>4, Constants DEF Writes, Writers
<1>8. StreamInv'
  BY <1>1, <1>4, <1>6, <1>7, OneStreamStep
<1> QED BY <1>5, <1>8

\* The core of a stream goes to another.
LEMMA SetCoreStep ==
    ASSUME StreamTypeOK, StreamInv, NEW s \in Streams, NEW r \in Streams, SetCore(s, r)
    PROVE  StreamTypeOK' /\ StreamInv'
<1>1. UNCHANGED <<hasfd, lock, disk, pub, partial, tainted>> /\ stm[s].kind # "none" /\ stm[r].kind # "none"
  BY DEF SetCore, StmCall, Call, fixed, files
<1>2. PICK c, d : c = stm[s] /\ d = [stm[r].core EXCEPT !.initialized = TRUE]
  OBVIOUS
<1>3. c \in Stream /\ d \in Core /\ d.ctx # 0
  <2>1. PICK e : e = stm[r].core
    OBVIOUS
  <2>2. e \in Core /\ e.ctx # 0
    BY <1>1, <2>1 DEF StreamTypeOK, Stream, StreamInv, StreamOf
  <2>3. d \in Core /\ d.ctx = e.ctx
    BY <1>2, <2>1, <2>2 DEF Core
  <2> QED BY <1>2, <2>2, <2>3 DEF StreamTypeOK
<1>4. PICK n : n = [c EXCEPT !.core = d]
  OBVIOUS
<1>5. /\ n \in Stream /\ n.kind = c.kind /\ n.core = d /\ n.stream = c.stream /\ n.file = c.file
      /\ n.dirty = c.dirty /\ n.filename = c.filename /\ n.closing = c.closing
  BY <1>3, <1>4 DEF Stream
<1>6. stm' = [stm EXCEPT ![s] = n]
  BY <1>2, <1>4 DEF SetCore
<1>7. /\ stm' \in [Streams -> Stream] /\ stm'[s] = n /\ \A x \in Streams \ {s} : stm'[x] = stm[x]
  BY <1>5, <1>6 DEF StreamTypeOK
<1>8. StreamTypeOK'
  BY <1>1, <1>7 DEF StreamTypeOK
<1>9. StreamOf(s)' /\ LockOf(s)'
  BY <1>1, <1>2, <1>3, <1>5, <1>7 DEF StreamOf, LockOf, StreamInv, Marked
<1>10. \A f \in Files : Writes(s, f)' <=> Writes(s, f)
  BY <1>2, <1>5, <1>7 DEF Writes
<1>11. StreamInv'
  BY <1>1, <1>2, <1>5, <1>7, <1>9, <1>10, OneStreamStep
<1> QED BY <1>8, <1>11

\* A stream opens a file to read it.
LEMMA OpenReadStep ==
    ASSUME StreamTypeOK, StreamInv, NEW s \in Streams, NEW f \in Files, OpenRead(s, f)
    PROVE  StreamTypeOK' /\ StreamInv'
<1>1. /\ UNCHANGED <<hasfd, disk, pub, partial>> /\ stm[s].kind = "ifstream"
      /\ lock' \in {lock, lock \ {f}} /\ tainted' = Taint(f, "reread")
  BY DEF OpenRead, StmCall, Call, fixed
<1>2. PICK c : c = stm[s]
  OBVIOUS
<1>3. c \in Stream /\ c.kind = "ifstream" /\ StreamOf(s)
  BY <1>1, <1>2 DEF StreamTypeOK, StreamInv
<1>4. PICK n : n = IF c.file = NoFile THEN [c EXCEPT !.file = f, !.filename = f] ELSE c
  OBVIOUS
<1>5. /\ n \in Stream /\ n.kind = "ifstream" /\ n.core = c.core /\ n.stream = c.stream
      /\ n.dirty = c.dirty /\ n.closing = c.closing /\ n.file \in {c.file, f} 
  BY <1>3, <1>4 DEF Stream
<1>6. stm' = [stm EXCEPT ![s] = n]
  <2>1. CASE c.file = NoFile
    BY <1>2, <1>4, <2>1 DEF OpenRead, StreamTypeOK
  <2>2. CASE c.file # NoFile
    BY <1>2, <1>4, <2>2 DEF OpenRead, StreamTypeOK
  <2> QED BY <2>1, <2>2
<1>7. /\ stm' \in [Streams -> Stream] /\ stm'[s] = n /\ \A x \in Streams \ {s} : stm'[x] = stm[x]
  BY <1>5, <1>6 DEF StreamTypeOK
<1>8. /\ \A g \in Files : tainted[g] \subseteq tainted'[g]
      /\ "reread" \in tainted'[f]
      /\ tainted' \in [Files -> SUBSET {"moved", "reread", "unlocked", "unsynced", "failed"}]
  BY <1>1 DEF Taint, StreamTypeOK
<1>9. StreamTypeOK'
  BY <1>1, <1>7, <1>8 DEF StreamTypeOK
<1>10. stm'[s].kind \notin Writers /\ stm[s].kind \notin Writers
  BY <1>1, <1>5, <1>7 DEF Writers
<1>11. StreamOf(s)' /\ LockOf(s)' /\ NameOf(s)'
  <2>1. c.file # NoFile => "reread" \in tainted'[c.file]
    BY <1>2, <1>3, <1>8 DEF StreamOf, Stream
  <2> QED BY <1>2, <1>3, <1>5, <1>7, <1>8, <1>10, <2>1 DEF StreamOf, LockOf, NameOf
<1>12. \A g \in Files : Writes(s, g)' <=> Writes(s, g)
  BY <1>10 DEF Writes
<1>13. \A g \in lock \ lock' : g = f
  BY <1>1
<1>14. StreamInv'
  BY <1>1, <1>7, <1>8, <1>11, <1>12, <1>13, OneStreamStep
<1> QED BY <1>9, <1>14

\* A writer's data may reach the disk.
LEMMA WriteStep ==
    ASSUME StreamTypeOK, StreamInv, NEW s \in Streams, Write(s)
    PROVE  StreamTypeOK' /\ StreamInv'
<1>1. /\ UNCHANGED <<hasfd, lock, pub, partial, tainted>>
      /\ stm[s].kind \in Writers /\ stm[s].file # NoFile
  BY DEF Write, StmCall, Call, fixed
<1>2. PICK c : c = stm[s]
  OBVIOUS
<1>3. PICK n : n = [c EXCEPT !.dirty = TRUE]
  OBVIOUS
<1>4. /\ n \in Stream /\ n.kind = c.kind /\ n.core = c.core /\ n.stream = c.stream /\ n.file = c.file
      /\ n.filename = c.filename /\ n.closing = c.closing /\ c \in Stream
  <2>1. c \in Stream
    BY <1>2 DEF StreamTypeOK
  <2> QED BY <1>3, <2>1 DEF Stream
<1>5. /\ stm' \in [Streams -> Stream] /\ stm'[s] = n /\ \A x \in Streams \ {s} : stm'[x] = stm[x]
  BY <1>2, <1>3, <1>4 DEF Write, StreamTypeOK
<1>6. PICK d : d \in {disk[stm[s].file], "part"} /\ disk' = [disk EXCEPT ![stm[s].file] = d]
  BY DEF Write
<1>7. c.file \in Files /\ c.kind # "none"
  BY <1>1, <1>2, <1>4 DEF Stream, Writers
<1>8. /\ disk' \in [Files -> {"none", "part", "whole"}]
      /\ \A f \in Files : f # c.file => disk'[f] = disk[f]
  BY <1>2, <1>6, <1>7 DEF StreamTypeOK
<1>9. StreamTypeOK'
  BY <1>1, <1>5, <1>8 DEF StreamTypeOK
<1>10. StreamOf(s)' /\ LockOf(s)'
  BY <1>1, <1>2, <1>4, <1>5, <1>7 DEF StreamOf, LockOf, StreamInv, Marked
<1>11. \A f \in Files : Writes(s, f)' <=> Writes(s, f)
  BY <1>2, <1>4, <1>5 DEF Writes
<1>12. \A f \in Files : disk'[f] = disk[f] \/ Writes(s, f)
  BY <1>1, <1>2, <1>8 DEF Writes
<1>13. StreamInv'
  BY <1>1, <1>2, <1>4, <1>5, <1>10, <1>11, <1>12, OneStreamStep
<1> QED BY <1>9, <1>13

\* The first part of close().
LEMMA CloseUnlockStep ==
    ASSUME StreamTypeOK, StreamInv, NEW s \in Streams, NEW how \in {"close", "destroy"}, CloseUnlock(s, how)
    PROVE  StreamTypeOK' /\ StreamInv'
<1>1. PICK c, writer, f, flush :
        /\ c = stm[s] /\ f = c.file
        /\ writer = (c.kind = "ofstream" \/ (c.kind = "fstream" /\ c.core.prod))
        /\ flush = (writer /\ obj[c.core.ctx].fsync_write /\ f # NoFile)
  OBVIOUS
<1>2. /\ UNCHANGED <<hasfd, pub, partial, tainted>> /\ c.kind # "none"
      /\ disk' = IF flush THEN [disk EXCEPT ![f] = "whole"] ELSE disk
      /\ lock' = lock \ {f}
      /\ stm' = [stm EXCEPT ![s].closing = how, ![s].dirty = IF flush THEN FALSE ELSE @]
  BY <1>1 DEF CloseUnlock, StmCall, Call, fixed
<1>3. c \in Stream /\ f \in Files \cup {NoFile} /\ (flush => f \in Files /\ c.kind \in Writers)
  BY <1>1 DEF StreamTypeOK, Stream, Writers
<1>4. PICK n : n = [c EXCEPT !.closing = how, !.dirty = IF flush THEN FALSE ELSE c.dirty]
  OBVIOUS
<1>5. /\ n \in Stream /\ n.kind = c.kind /\ n.core = c.core /\ n.stream = c.stream /\ n.file = c.file
      /\ n.filename = c.filename /\ n.closing = how /\ (n.dirty => c.dirty)
  BY <1>3, <1>4 DEF Stream
<1>6. stm' = [stm EXCEPT ![s] = n]
  BY <1>1, <1>2, <1>4 DEF StreamTypeOK
<1>7. /\ stm' \in [Streams -> Stream] /\ stm'[s] = n /\ \A x \in Streams \ {s} : stm'[x] = stm[x]
  BY <1>5, <1>6 DEF StreamTypeOK
<1>8. /\ disk' \in [Files -> {"none", "part", "whole"}]
      /\ \A g \in Files : disk'[g] = disk[g] \/ Writes(s, g)
  BY <1>1, <1>2, <1>3 DEF StreamTypeOK, Writes
<1>9. StreamTypeOK'
  BY <1>2, <1>7, <1>8 DEF StreamTypeOK
<1>10. StreamOf(s)' /\ LockOf(s)'
  BY <1>1, <1>2, <1>5, <1>7 DEF StreamOf, LockOf, StreamInv, Marked
<1>11. \A g \in Files : Writes(s, g)' <=> Writes(s, g)
  BY <1>1, <1>5, <1>7 DEF Writes
<1>12. ASSUME NEW g \in lock \ lock', NEW r \in Streams \ {s}, Writes(r, g) PROVE "reread" \in tainted'[g]
  <2>1. g = f /\ g \in Files
    BY <1>2 DEF StreamTypeOK
  <2>2. ~Writes(s, g)
    BY <1>12, <2>1 DEF StreamInv, FileOf
  <2>3. c.kind = "ifstream"
    BY <1>1, <1>2, <1>3, <2>1, <2>2 DEF Writes, Writers, Stream
  <2> QED BY <1>1, <1>2, <2>1, <2>3, Constants DEF StreamInv, StreamOf
<1>13. StreamInv'
  BY <1>1, <1>2, <1>5, <1>7, <1>8, <1>10, <1>11, <1>12, OneStreamStep
<1> QED BY <1>9, <1>13

\* The destructor of a stream without a file.
LEMMA DestroyStep ==
    ASSUME StreamTypeOK, StreamInv, NEW s \in Streams, Destroy(s)
    PROVE  StreamTypeOK' /\ StreamInv'
<1>1. /\ UNCHANGED <<hasfd, lock, disk, pub, partial, tainted>> /\ stm[s].file = NoFile
      /\ stm' = [stm EXCEPT ![s] = NoStream]
  BY DEF Destroy, StmCall, Call, fixed, files
<1>2. /\ NoStream \in Stream /\ NoStream.kind = "none" /\ ~NoStream.stream /\ NoStream.file = NoFile
      /\ ~NoStream.dirty
  BY Constants DEF NoStream, Stream, NoCore, Core
<1>3. /\ stm' \in [Streams -> Stream] /\ stm'[s] = NoStream /\ \A x \in Streams \ {s} : stm'[x] = stm[x]
  BY <1>1, <1>2 DEF StreamTypeOK
<1>4. StreamTypeOK'
  BY <1>1, <1>3 DEF StreamTypeOK
<1>5. stm'[s].kind = "none" /\ "none" \notin Writers
  BY <1>2, <1>3 DEF Writers
<1>6. StreamOf(s)' /\ LockOf(s)' /\ NameOf(s)'
  BY <1>2, <1>3, <1>5 DEF StreamOf, LockOf, NameOf
<1>7. \A g \in Files : Writes(s, g)' <=> Writes(s, g)
  BY <1>1, <1>5, Constants DEF Writes
<1>8. StreamInv'
  BY <1>1, <1>3, <1>6, <1>7, OneStreamStep
<1> QED BY <1>4, <1>8

\* A consumer elsewhere reads a file: if it is not whole, a stream writes it, and
\* does not hold the lock because it is closing or the file is marked.
LEMMA OtherReadsStep ==
    ASSUME StreamTypeOK, StreamInv, NEW f \in Files, NEW how \in {"env", "params"}, OtherReads(f, how)
    PROVE  StreamTypeOK' /\ StreamInv'
<1>1. PICK r : r = [file |-> f, how |-> how,
                    closing |-> \E s \in Streams : stm[s].file = f /\ stm[s].closing # "no"]
  OBVIOUS
<1>2. /\ UNCHANGED <<hasfd, stm, lock, disk, pub, tainted>> /\ f \notin lock /\ Ready(f, how)
      /\ partial' \in {partial, partial \cup {r}}
      /\ disk[f] = "whole" => partial' = partial
  BY <1>1 DEF OtherReads, fixed
<1>3. StreamTypeOK'
  <2>1. r \in [file : Files, how : {"env", "params"}, closing : BOOLEAN]
    BY <1>1
  <2>2. partial' \subseteq [file : Files, how : {"env", "params"}, closing : BOOLEAN]
    BY <1>2, <2>1 DEF StreamTypeOK
  <2> QED BY <1>2, <2>2 DEF StreamTypeOK
<1>4. disk[f] # "whole" => r.closing \/ tainted[f] # {} \/ (~hasfd /\ how = "env")
  <2> SUFFICES ASSUME disk[f] # "whole", tainted[f] = {}, hasfd \/ how # "env"
               PROVE  r.closing
    OBVIOUS
  <2>1. f \notin pub /\ (disk[f] = "part" => \E s \in Streams : Writes(s, f))
    BY DEF StreamInv, FileOf
  <2>2. FsLocks(how) /\ disk[f] # "none"
    BY <1>2, <2>1 DEF Ready
  <2>3. hasfd /\ disk[f] = "part"
    BY <2>2 DEF FsLocks, StreamTypeOK
  <2>4. PICK s \in Streams : Writes(s, f)
    BY <2>1, <2>3
  <2>5. stm[s].kind \in Writers /\ stm[s].file = f /\ f # NoFile
    BY <2>4, Constants DEF Writes
  <2>6. stm[s].closing # "no"
    BY <1>2, <2>3, <2>5 DEF StreamInv, LockOf, Marked
  <2> QED BY <1>1, <2>5, <2>6
<1>5. ReaderSeesWholeFile'
  <2>1. r.file = f /\ r.how = how
    BY <1>1
  <2> QED BY <1>2, <1>4, <2>1 DEF StreamInv, ReaderSeesWholeFile
<1>6. StreamInv'
  BY <1>2, <1>5 DEF StreamInv, StreamOf, NameOf, LockOf, FileOf, Writes, Marked
<1> QED BY <1>3, <1>6

\* A file that a step does not concern.
LEMMA FileStays ==
    ASSUME StreamInv, NEW f \in Files, tainted[f] \subseteq tainted'[f], disk'[f] = disk[f],
           \A s \in Streams : Writes(s, f)' <=> Writes(s, f),
           f \in pub' => f \in pub \/ (disk[f] = "whole" /\ \A s \in Streams : ~Writes(s, f))
                         \/ "moved" \in tainted[f],
           f \in pub => f \in pub'
    PROVE  FileOf(f)'
<1>1. FileOf(f) /\ \A S : Marked(f, S) => Marked(f, S)'
  BY DEF StreamInv, Marked
<1> HIDE DEF Writes, Marked
<1>2. (\A r, s \in Streams : Writes(r, f) /\ Writes(s, f) => r = s)'
  BY <1>1 DEF FileOf
<1>3. (disk[f] = "part" => \E s \in Streams : Writes(s, f))'
  BY <1>1 DEF FileOf
<1>4. (disk[f] = "whole" /\ (\A s \in Streams : ~Writes(s, f)) =>
          f \in pub \/ Marked(f, {"moved", "failed", "unsynced", "unlocked"}))'
  BY <1>1 DEF FileOf
<1>5. (f \in pub => "moved" \in tainted[f] \/ \A s \in Streams : ~Writes(s, f))'
  BY <1>1 DEF FileOf
<1>6. (f \in pub => disk[f] = "whole" \/ tainted[f] # {})'
  BY <1>1 DEF FileOf
<1> QED BY <1>2, <1>3, <1>4, <1>5, <1>6 DEF FileOf

\* A name that a step leaves.
LEMMA NameStays ==
    ASSUME StreamTypeOK, StreamInv, NEW s \in Streams, stm'[s].filename = stm[s].filename,
           stm'[s].kind \in Writers => stm[s].kind \in Writers \/ stm[s].filename = NoFile,
           \A f \in Files : tainted[f] \subseteq tainted'[f],
           \A f \in Files : disk[f] = "whole" /\ (\A r \in Streams : ~Writes(r, f)) =>
                disk'[f] = "whole" /\ (\A r \in Streams : ~Writes(r, f)'),
           \A f \in Files : Writes(s, f) =>
                \/ stm'[s].file = f \/ "moved" \in tainted'[f]
                \/ disk'[f] = "whole" /\ (\A r \in Streams : ~Writes(r, f)')
    PROVE  NameOf(s)'
<1> SUFFICES ASSUME stm'[s].kind \in Writers, stm[s].filename # NoFile
             PROVE  NameOf(s)'
  BY DEF NameOf
<1>1. PICK f : f = stm[s].filename
  OBVIOUS
<1>2. f \in Files
  BY <1>1 DEF StreamTypeOK, Stream
<1>3. Writes(s, f) \/ "moved" \in tainted[f] \/ (disk[f] = "whole" /\ \A r \in Streams : ~Writes(r, f))
  BY <1>1 DEF StreamInv, NameOf, Writes
<1>4. f = stm'[s].file \/ "moved" \in tainted'[f] \/ (disk'[f] = "whole" /\ \A r \in Streams : ~Writes(r, f)')
  BY <1>2, <1>3
<1>5. f = stm'[s].filename
  BY <1>1
<1> QED BY <1>4, <1>5 DEF NameOf, Writes

\* A stream opens a file that nobody has written.
LEMMA OpenWriteStep ==
    ASSUME StreamTypeOK, StreamInv, NEW s \in Streams, NEW f \in Files, OpenWrite(s, f)
    PROVE  StreamTypeOK' /\ StreamInv'
<1> USE Constants
<1>1. /\ UNCHANGED <<hasfd, disk, pub, partial>> /\ stm[s].kind \in Writers /\ stm[s].stream
      /\ disk[f] = "none" /\ f \notin pub /\ \A r \in Streams : stm[r].file # f
  BY DEF OpenWrite, StmCall, Call, fixed
<1>2. PICK c, locked : c = stm[s] /\ locked = (hasfd /\ Managed(s))
  OBVIOUS
<1>3. c \in Stream /\ StreamOf(s) /\ c.kind # "none" /\ c.kind # "ifstream" /\ hasfd \in BOOLEAN
  BY <1>1, <1>2 DEF StreamTypeOK, StreamInv, Writers
<1>4. CASE c.file # NoFile
  <2>1. stm' = stm /\ lock' = lock /\ tainted' = tainted
    BY <1>2, <1>4 DEF OpenWrite
  <2> QED BY <1>1, <2>1, StreamsStay DEF files
<1>5. CASE c.file = NoFile
  <2>1. PICK n : n = [c EXCEPT !.file = f, !.filename = IF locked \/ ~hasfd THEN f ELSE c.filename]
    OBVIOUS
  <2>2. /\ n \in Stream /\ n.kind = c.kind /\ n.core = c.core /\ n.stream = c.stream /\ n.file = f
        /\ n.dirty = c.dirty /\ n.closing = c.closing
        /\ n.filename = IF locked \/ ~hasfd THEN f ELSE c.filename
    BY <1>3, <2>1 DEF Stream
  <2>3. /\ lock' = IF locked THEN lock \cup {f} ELSE lock
        /\ tainted' = IF hasfd /\ ~locked THEN Taint(f, "unlocked") ELSE tainted
        /\ stm' = [stm EXCEPT ![s] = n]
    BY <1>2, <1>5, <2>1 DEF OpenWrite, StreamTypeOK
  <2>4. /\ stm' \in [Streams -> Stream] /\ stm'[s] = n /\ \A x \in Streams \ {s} : stm'[x] = stm[x]
    BY <2>2, <2>3 DEF StreamTypeOK
  <2>5. /\ \A g \in Files : tainted[g] \subseteq tainted'[g]
        /\ hasfd /\ ~locked => "unlocked" \in tainted'[f]
        /\ tainted' \in [Files -> SUBSET {"moved", "reread", "unlocked", "unsynced", "failed"}]
    BY <2>3 DEF Taint, StreamTypeOK
  <2>6. StreamTypeOK' /\ ReaderSeesWholeFile'
    <3>1. StreamTypeOK'
      BY <1>1, <2>3, <2>4, <2>5 DEF StreamTypeOK
    <3> QED BY <1>1, <2>5, <3>1, MarksStay DEF StreamInv
  <2>7. /\ \A r \in Streams, g \in Files : g # f => (Writes(r, g)' <=> Writes(r, g))
        /\ \A r \in Streams : Writes(r, f)' <=> r = s
    BY <1>1, <1>2, <1>5, <2>2, <2>4 DEF Writes
  <2>8. ASSUME NEW g \in Files PROVE FileOf(g)'
    <3>1. CASE g # f
      BY <1>1, <2>5, <2>7, <3>1, FileStays
    <3>2. CASE g = f
      BY <1>1, <2>7, <3>2 DEF FileOf
    <3> QED BY <3>1, <3>2
  <2>9. ASSUME NEW r \in Streams PROVE StreamOf(r)' /\ NameOf(r)' /\ LockOf(r)'
    <3>1. \A g \in Files : disk[g] = "whole" /\ (\A x \in Streams : ~Writes(x, g)) =>
                disk'[g] = "whole" /\ (\A x \in Streams : ~Writes(x, g)')
      BY <1>1, <2>7
    <3>2. \A g \in Files : \A S : Marked(g, S) => Marked(g, S)'
      BY <2>5, MarksStay
    <3>3. CASE r # s
      <4>1. stm'[r] = stm[r] /\ StreamOf(r) /\ LockOf(r) /\ stm[r].file \in Files \cup {NoFile}
        BY <2>4, <3>3 DEF StreamInv, StreamTypeOK, Stream
      <4>2. NameOf(r)'
        BY <2>5, <3>1, <4>1, NameStays DEF Writes
      <4>3. StreamOf(r)'
        BY <2>5, <3>2, <4>1 DEF StreamOf
      <4>4. LockOf(r)'
        BY <1>1, <2>3, <3>2, <4>1 DEF LockOf
      <4> QED BY <4>2, <4>3, <4>4
    <3>4. CASE r = s
      <4>1. NameOf(s)'
        <5>1. CASE locked \/ ~hasfd
          BY <2>2, <2>4, <5>1 DEF NameOf
        <5>2. CASE ~(locked \/ ~hasfd)
          <6>1. stm'[s].filename = stm[s].filename
            BY <1>2, <2>2, <2>4, <5>2
          <6>2. \A g \in Files : ~Writes(s, g)
            BY <1>2, <1>5 DEF Writes
          <6> QED BY <1>1, <2>5, <3>1, <6>1, <6>2, NameStays
        <5> QED BY <5>1, <5>2
      <4>2. StreamOf(s)'
        <5>1. n.filename = f \/ Marked(f, {"moved", "unlocked"})'
          BY <2>2, <2>5 DEF Marked
        <5> QED BY <1>2, <1>3, <2>2, <2>4, <5>1 DEF StreamOf, Marked
      <4>3. LockOf(s)'
        <5>1. hasfd => f \in lock' \/ Marked(f, {"reread", "unlocked", "moved"})'
          BY <2>3, <2>5 DEF Marked
        <5> QED BY <1>1, <2>2, <2>4, <5>1 DEF LockOf, Marked
      <4> QED BY <3>4, <4>1, <4>2, <4>3
    <3> QED BY <3>3, <3>4
  <2> QED BY <2>6, <2>8, <2>9 DEF StreamInv
<1> QED BY <1>4, <1>5

\* The rest of close(): the file is whole, and published or marked.
LEMMA CloseFinishStep ==
    ASSUME StreamTypeOK, StreamInv, NEW s \in Streams, NEW published \in BOOLEAN,
           CloseFinish(s, published)
    PROVE  StreamTypeOK' /\ StreamInv'
<1> USE Constants
<1>1. PICK c, f, out, why :
        /\ c = stm[s] /\ f = c.file /\ out = (c.kind \in Writers /\ f # NoFile)
        /\ why = IF Produces(s) THEN "failed" ELSE "unsynced"
  OBVIOUS
<1>2. /\ UNCHANGED <<hasfd, partial>> /\ (published => c.kind \in Writers) /\ c.closing # "no"
      /\ disk' = IF out THEN [disk EXCEPT ![f] = "whole"] ELSE disk
      /\ lock' = lock \ {f}
      /\ pub' = pub \cup IF published THEN {c.filename} \ {NoFile} ELSE {}
      /\ tainted' = IF ~out \/ published THEN tainted ELSE Taint(f, why)
      /\ stm' = [stm EXCEPT ![s] = IF @.closing = "destroy" THEN NoStream
                                   ELSE [@ EXCEPT !.file = NoFile, !.dirty = FALSE, !.closing = "no"]]
  BY <1>1 DEF CloseFinish, fixed, Produces
<1>3. /\ c \in Stream /\ f \in Files \cup {NoFile} /\ c.filename \in Files \cup {NoFile}
      /\ StreamOf(s) /\ NameOf(s)
  BY <1>1 DEF StreamTypeOK, Stream, StreamInv
<1>4. PICK n : n = IF c.closing = "destroy" THEN NoStream
                   ELSE [c EXCEPT !.file = NoFile, !.dirty = FALSE, !.closing = "no"]
  OBVIOUS
<1>5. c.kind # "none"
  <2>1. NoStream.closing = "no"
    BY DEF NoStream
  <2> QED BY <1>1, <1>2, <1>3, <2>1 DEF StreamOf
<1>6. /\ n \in Stream /\ n.file = NoFile /\ ~n.dirty /\ n.closing = "no"
      /\ n = NoStream \/ (/\ n.kind = c.kind /\ n.core = c.core /\ n.stream = c.stream
                          /\ n.filename = c.filename)
  <2>1. /\ NoStream \in Stream /\ NoStream.file = NoFile /\ ~NoStream.dirty
        /\ NoStream.closing = "no"
    BY DEF NoStream, Stream, NoCore, Core
  <2>2. CASE c.closing = "destroy"
    BY <1>4, <2>1, <2>2
  <2>3. CASE c.closing # "destroy"
    <3>1. n = [c EXCEPT !.file = NoFile, !.dirty = FALSE, !.closing = "no"]
      BY <1>4, <2>3
    <3> QED BY <1>3, <3>1 DEF Stream
  <2> QED BY <2>2, <2>3
<1>7. NoStream.kind = "none" /\ ~NoStream.stream /\ NoStream.filename = NoFile /\ "none" \notin Writers
  BY DEF NoStream, Writers
<1>8. stm' = [stm EXCEPT ![s] = n]
  BY <1>1, <1>2, <1>4 DEF StreamTypeOK
<1>9. /\ stm' \in [Streams -> Stream] /\ stm'[s] = n /\ \A x \in Streams \ {s} : stm'[x] = stm[x]
  BY <1>6, <1>8 DEF StreamTypeOK
<1>10. /\ \A g \in Files : tainted[g] \subseteq tainted'[g]
       /\ \A g \in Files \ {f} : tainted'[g] = tainted[g] /\ disk'[g] = disk[g]
       /\ out /\ ~published => why \in tainted'[f]
       /\ tainted' \in [Files -> SUBSET {"moved", "reread", "unlocked", "unsynced", "failed"}]
       /\ disk' \in [Files -> {"none", "part", "whole"}]
       /\ out => disk'[f] = "whole"
       /\ ~out => disk' = disk /\ tainted' = tainted
  <2>1. why \in {"failed", "unsynced"} /\ (out => f \in Files)
    BY <1>1, <1>3
  <2> QED BY <1>2, <2>1 DEF Taint, StreamTypeOK
<1>11. StreamTypeOK' /\ ReaderSeesWholeFile'
  <2>1. pub' \subseteq Files
    BY <1>2, <1>3 DEF StreamTypeOK
  <2>2. StreamTypeOK'
    BY <1>2, <1>9, <1>10, <2>1 DEF StreamTypeOK
  <2> QED BY <1>2, <1>10, <2>2, MarksStay DEF StreamInv
<1>12. /\ \A r \in Streams, g \in Files : Writes(r, g)' <=> r # s /\ Writes(r, g)
       /\ \A g \in Files : Writes(s, g) <=> out /\ g = f
  BY <1>1, <1>6, <1>7, <1>9 DEF Writes
<1>13. out => \A r \in Streams : ~Writes(r, f)'
  BY <1>1, <1>3, <1>12 DEF StreamInv, FileOf
<1>14. \A g \in Files : disk[g] = "whole" /\ (\A x \in Streams : ~Writes(x, g)) =>
            disk'[g] = "whole" /\ (\A x \in Streams : ~Writes(x, g)')
  BY <1>10, <1>12
<1>15. ASSUME NEW g \in Files PROVE FileOf(g)'
  <2>1. CASE ~(out /\ g = f)
    <3>1. \A r \in Streams : Writes(r, g)' <=> Writes(r, g)
      BY <1>12, <2>1
    <3>2. disk'[g] = disk[g] /\ tainted'[g] = tainted[g]
      BY <1>10, <2>1
    <3>3. g \in pub' => g \in pub \/ (disk[g] = "whole" /\ \A r \in Streams : ~Writes(r, g))
                        \/ "moved" \in tainted[g]
      <4> SUFFICES ASSUME published, g = c.filename, "moved" \notin tainted[g]
                   PROVE  disk[g] = "whole" /\ \A r \in Streams : ~Writes(r, g)
        BY <1>2
      <4>1. stm[s].kind \in Writers /\ stm[s].filename = g /\ g # stm[s].file /\ g # NoFile
        BY <1>1, <1>2, <2>1
      <4> QED BY <1>3, <4>1 DEF NameOf
    <3> QED BY <1>2, <3>1, <3>2, <3>3, FileStays
  <2>2. CASE out /\ g = f
    <3>1. disk'[g] = "whole" /\ \A r \in Streams : ~Writes(r, g)'
      BY <1>10, <1>13, <2>2
    <3>2. g \in pub' \/ Marked(g, {"moved", "failed", "unsynced", "unlocked"})'
      <4>1. CASE published
        BY <1>1, <1>2, <1>3, <1>10, <2>2, <4>1 DEF StreamOf, Marked
      <4>2. CASE ~published
        BY <1>1, <1>10, <2>2, <4>2 DEF Marked
      <4> QED BY <4>1, <4>2
    <3> QED BY <3>1, <3>2 DEF FileOf
  <2> QED BY <2>1, <2>2
<1>16. ASSUME NEW r \in Streams PROVE StreamOf(r)' /\ NameOf(r)' /\ LockOf(r)'
  <2>1. CASE r = s
    <3>1. StreamOf(s)'
      BY <1>1, <1>3, <1>5, <1>6, <1>7, <1>9 DEF StreamOf
    <3>2. LockOf(s)'
      BY <1>6, <1>9 DEF LockOf
    <3>3. NameOf(s)'
      <4>1. CASE n = NoStream
        BY <1>7, <1>9, <4>1 DEF NameOf
      <4>2. CASE n # NoStream
        <5>1. stm'[s].filename = stm[s].filename /\ stm'[s].kind = stm[s].kind
          BY <1>1, <1>6, <1>9, <4>2
        <5>2. \A g \in Files : Writes(s, g) =>
                    disk'[g] = "whole" /\ (\A x \in Streams : ~Writes(x, g)')
          BY <1>10, <1>12, <1>13
        <5> QED BY <1>10, <1>14, <5>1, <5>2, NameStays
      <4> QED BY <4>1, <4>2
    <3> QED BY <2>1, <3>1, <3>2, <3>3
  <2>2. CASE r # s
    <3>1. stm'[r] = stm[r] /\ StreamOf(r) /\ LockOf(r) /\ stm[r].file \in Files \cup {NoFile}
      BY <1>9, <2>2 DEF StreamInv, StreamTypeOK, Stream
    <3>2. \A g \in Files : \A S : Marked(g, S) => Marked(g, S)'
      BY <1>10, MarksStay
    <3>3. StreamOf(r)'
      BY <1>10, <3>1, <3>2 DEF StreamOf
    <3>4. NameOf(r)'
      BY <1>10, <1>14, <3>1, NameStays DEF Writes
    <3>5. LockOf(r)'
      <4> SUFFICES ASSUME hasfd, stm[r].kind \in Writers, stm[r].file # NoFile, stm[r].closing = "no"
                   PROVE  stm[r].file \in lock' \/ Marked(stm[r].file, {"reread", "unlocked", "moved"})'
        BY <1>2, <3>1 DEF LockOf
      <4>1. PICK g \in Files : g = stm[r].file
        BY <3>1
      <4>2. g \in lock \/ Marked(g, {"reread", "unlocked", "moved"})
        BY <3>1, <4>1 DEF LockOf
      <4>3. g = f => "reread" \in tainted[g]
        <5> SUFFICES ASSUME g = f PROVE "reread" \in tainted[g]
          OBVIOUS
        <5>1. Writes(r, g)
          BY <4>1 DEF Writes
        <5>2. ~out
          BY <1>12, <1>13, <2>2, <5>1
        <5>3. c.kind = "ifstream"
          BY <1>1, <1>3, <1>5, <4>1, <5>2 DEF Stream, Writers
        <5> QED BY <1>1, <1>3, <4>1, <5>3 DEF StreamOf
      <4>4. g \in lock' \/ Marked(g, {"reread", "unlocked", "moved"})'
        BY <1>2, <1>10, <3>2, <4>2, <4>3 DEF Marked
      <4> QED BY <3>1, <4>1, <4>4 DEF Marked
    <3> QED BY <3>3, <3>4, <3>5
  <2> QED BY <2>1, <2>2
<1> QED BY <1>11, <1>15, <1>16 DEF StreamInv

\* What is left to show of a step in which each writer of a file after it has one
\* before it to come from, when the files that changed hands are marked.
LEMMA HandedStep ==
    ASSUME StreamTypeOK, StreamInv, StreamTypeOK', UNCHANGED <<hasfd, pub, partial>>,
           NEW from \in [Streams -> Streams], NEW H \in SUBSET Files,
           \A f \in Files : tainted[f] \subseteq tainted'[f],
           \A f \in H : "moved" \in tainted'[f],
           \A f \in Files \ H : disk'[f] = disk[f],
           \A f \in Files \ H, x \in Streams : Writes(x, f)' <=> Writes(x, f),
           \A f \in H, x \in Streams : Writes(x, f)' => Writes(from[x], f),
           \A x, y \in Streams : from[x] = from[y] => x = y,
           \A f \in H : disk'[f] = "whole" \/
                (disk'[f] = disk[f] /\ \A x \in Streams : Writes(x, f) => \E y \in Streams : Writes(y, f)'),
           \A f \in H : disk[f] = "whole" => disk'[f] = "whole",
           \A x \in Streams :
                /\ StreamOf(x)' /\ LockOf(x)' /\ stm'[x].filename = stm[x].filename
                /\ stm'[x].kind \in Writers => stm[x].kind \in Writers \/ stm[x].filename = NoFile
                /\ \A f \in Files : Writes(x, f) => stm'[x].file = f \/ f \in H
    PROVE  StreamInv'
<1>1. ReaderSeesWholeFile'
  BY MarksStay DEF StreamInv
<1>2. ASSUME NEW f \in Files PROVE FileOf(f)'
  <2>1. CASE f \notin H
    BY <2>1, FileStays
  <2>2. CASE f \in H
    <3>1. "moved" \in tainted'[f] /\ FileOf(f)
      BY <2>2 DEF StreamInv
    <3> HIDE DEF Writes
    <3>2. (\A r, s \in Streams : Writes(r, f) /\ Writes(s, f) => r = s)'
      BY <2>2, <3>1 DEF FileOf
    <3>3. (disk[f] = "part" => \E s \in Streams : Writes(s, f))'
      BY <2>2, <3>1 DEF FileOf
    <3>4. Marked(f, {"moved", "failed", "unsynced", "unlocked"})'
      BY <3>1 DEF Marked
    <3> QED BY <3>1, <3>2, <3>3, <3>4 DEF FileOf
  <2> QED BY <2>1, <2>2
<1>3. \A f \in Files : disk[f] = "whole" /\ (\A r \in Streams : ~Writes(r, f)) =>
            disk'[f] = "whole" /\ (\A r \in Streams : ~Writes(r, f)')
  <2> SUFFICES ASSUME NEW f \in Files, disk[f] = "whole", \A r \in Streams : ~Writes(r, f)
               PROVE  disk'[f] = "whole" /\ (\A r \in Streams : ~Writes(r, f)')
    OBVIOUS
  <2> HIDE DEF Writes
  <2>1. CASE f \in H
    <3>1. \A r \in Streams : from[r] \in Streams
      OBVIOUS
    <3> QED BY <2>1, <3>1
  <2>2. CASE f \notin H
    BY <2>2
  <2> QED BY <2>1, <2>2
<1>4. ASSUME NEW x \in Streams PROVE NameOf(x)'
  <2>1. \A f \in Files : Writes(x, f) => stm'[x].file = f \/ "moved" \in tainted'[f]
    OBVIOUS
  <2> QED BY <1>3, <2>1, NameStays
<1> QED BY <1>1, <1>2, <1>4 DEF StreamInv

\* The marks after a move or a swap.
LEMMA MovedMarks ==
    ASSUME StreamTypeOK, NEW s \in Streams, NEW r \in Streams, tainted' = TaintAll(Concerned(s, r), "moved")
    PROVE  /\ Concerned(s, r) \in SUBSET Files
           /\ \A f \in Files : tainted[f] \subseteq tainted'[f]
           /\ \A f \in Concerned(s, r) : "moved" \in tainted'[f]
           /\ tainted' \in [Files -> SUBSET {"moved", "reread", "unlocked", "unsynced", "failed"}]
<1>1. Concerned(s, r) \in SUBSET Files
  BY DEF Concerned, StreamTypeOK, Stream
<1> QED BY <1>1 DEF TaintAll, StreamTypeOK

\* A stream is moved: the other writes its file, and the other's is closed.
LEMMA MoveStep ==
    ASSUME StreamTypeOK, StreamInv, NEW s \in Streams, NEW r \in Streams, Move(s, r)
    PROVE  StreamTypeOK' /\ StreamInv'
<1> USE Constants
<1>1. PICK c, d, H : c = stm[s] /\ d = stm[r] /\ H = Concerned(s, r)
  OBVIOUS
<1>2. /\ UNCHANGED <<hasfd, pub, partial>> /\ s # r /\ c.kind # "none" /\ d.kind \in {"none", c.kind}
      /\ stm' = [stm EXCEPT ![r] = [stm[s] EXCEPT !.filename = stm[r].filename],
                            ![s] = [@ EXCEPT !.stream = FALSE, !.file = NoFile, !.dirty = FALSE]]
      /\ disk' = IF d.kind \in Writers /\ d.file # NoFile THEN [disk EXCEPT ![d.file] = "whole"] ELSE disk
      /\ lock' = lock \ {d.file} /\ tainted' = TaintAll(H, "moved")
  BY <1>1 DEF Move, StmCall, Call, fixed
<1>3. c \in Stream /\ d \in Stream /\ StreamOf(s) /\ StreamOf(r)
  BY <1>1 DEF StreamTypeOK, StreamInv
<1>4. PICK m, n : m = [c EXCEPT !.stream = FALSE, !.file = NoFile, !.dirty = FALSE]
                  /\ n = [c EXCEPT !.filename = d.filename]
  OBVIOUS
<1>5. /\ m \in Stream /\ m.kind = c.kind /\ m.core = c.core /\ ~m.stream /\ m.file = NoFile /\ ~m.dirty
      /\ m.filename = c.filename /\ m.closing = c.closing
      /\ n \in Stream /\ n.kind = c.kind /\ n.core = c.core /\ n.stream = c.stream /\ n.file = c.file
      /\ n.dirty = c.dirty /\ n.filename = d.filename /\ n.closing = c.closing
  BY <1>3, <1>4 DEF Stream
<1>6. stm' = [stm EXCEPT ![r] = n, ![s] = m]
  BY <1>1, <1>2, <1>4 DEF StreamTypeOK
<1>7. /\ stm' \in [Streams -> Stream] /\ stm'[s] = m /\ stm'[r] = n
      /\ \A x \in Streams \ {s, r} : stm'[x] = stm[x]
  BY <1>2, <1>5, <1>6 DEF StreamTypeOK
<1>8. /\ H \in SUBSET Files /\ \A f \in Files : tainted[f] \subseteq tainted'[f]
      /\ \A f \in H : "moved" \in tainted'[f]
      /\ tainted' \in [Files -> SUBSET {"moved", "reread", "unlocked", "unsynced", "failed"}]
  BY <1>1, <1>2, MovedMarks
<1>9. \A f \in Files : f \in H <=> f = c.file \/ f = d.file
  BY <1>1 DEF Concerned
<1>10. /\ disk' \in [Files -> {"none", "part", "whole"}]
       /\ \A f \in Files \ H : disk'[f] = disk[f]
       /\ \A f \in Files : disk'[f] = "whole" \/ (disk'[f] = disk[f] /\ ~Writes(r, f))
  BY <1>1, <1>2, <1>3, <1>9 DEF StreamTypeOK, Stream, Writes
<1>11. StreamTypeOK'
  BY <1>2, <1>7, <1>8, <1>10 DEF StreamTypeOK
<1>12. PICK from \in [Streams -> Streams] : from = [x \in Streams |-> IF x = s THEN r ELSE IF x = r THEN s ELSE x]
  OBVIOUS
<1>13. /\ \A x, y \in Streams : from[x] = from[y] => x = y
       /\ from[r] = s /\ \A x \in Streams \ {s, r} : from[x] = x
  BY <1>2, <1>12
<1>14. /\ \A f \in Files : ~Writes(s, f)' /\ (Writes(r, f)' <=> Writes(s, f))
       /\ \A x \in Streams \ {s, r}, f \in Files : Writes(x, f)' <=> Writes(x, f)
       /\ \A f \in Files : (Writes(s, f) => f = c.file) /\ (Writes(r, f) => f = d.file)
  BY <1>1, <1>5, <1>7 DEF Writes
<1>15. ASSUME NEW x \in Streams
       PROVE  /\ StreamOf(x)' /\ LockOf(x)' /\ stm'[x].filename = stm[x].filename
              /\ stm'[x].kind \in Writers => stm[x].kind \in Writers \/ stm[x].filename = NoFile
              /\ \A f \in Files : Writes(x, f) => stm'[x].file = f \/ f \in H
  <2>1. \A f \in Files : \A S : Marked(f, S) => Marked(f, S)'
    BY <1>8, MarksStay
  <2>2. \A f \in H : \A S : "moved" \in S => Marked(f, S)'
    BY <1>8 DEF Marked
  <2>3. CASE x = s
    <3>1. StreamOf(s)' /\ LockOf(s)'
      BY <1>1, <1>2, <1>3, <1>5, <1>7 DEF StreamOf, LockOf
    <3> QED BY <1>1, <1>5, <1>7, <1>9, <1>14, <2>3, <3>1
  <2>4. CASE x = r
    <3>1. c.file \in Files \cup {NoFile}
      BY <1>3 DEF Stream
    <3>2. c.file # NoFile => c.file \in H
      BY <1>9, <3>1
    <3>3. c.kind = "ifstream" /\ c.file # NoFile => "reread" \in tainted'[c.file]
      BY <1>1, <1>3, <1>8, <3>1 DEF StreamOf
    <3>4. StreamOf(r)'
      <4>1. c.file # NoFile => Marked(c.file, {"moved", "unlocked"})'
        BY <2>2, <3>2
      <4> QED BY <1>1, <1>2, <1>3, <1>5, <1>7, <3>3, <4>1 DEF StreamOf, Marked
    <3>5. LockOf(r)'
      <4>1. c.file # NoFile => Marked(c.file, {"reread", "unlocked", "moved"})'
        BY <2>2, <3>2
      <4> QED BY <1>5, <1>7, <4>1 DEF LockOf, Marked
    <3>6. d.kind \notin Writers => d.filename = NoFile \/ c.kind \notin Writers
      <4>1. NoStream.filename = NoFile
        BY DEF NoStream
      <4> QED BY <1>1, <1>2, <1>3, <4>1 DEF StreamOf
    <3> QED BY <1>1, <1>5, <1>7, <1>9, <1>14, <2>4, <3>4, <3>5, <3>6
  <2>5. CASE x \notin {s, r}
    <3>1. stm'[x] = stm[x] /\ StreamOf(x) /\ LockOf(x) /\ stm[x].file \in Files \cup {NoFile}
      BY <1>7, <2>5 DEF StreamInv, StreamTypeOK, Stream
    <3>2. StreamOf(x)'
      BY <1>8, <2>1, <3>1 DEF StreamOf
    <3>3. LockOf(x)'
      <4> SUFFICES ASSUME hasfd, stm[x].kind \in Writers, stm[x].file # NoFile, stm[x].closing = "no"
                   PROVE  stm[x].file \in lock' \/ Marked(stm[x].file, {"reread", "unlocked", "moved"})'
        BY <1>2, <3>1 DEF LockOf
      <4>1. PICK g \in Files : g = stm[x].file
        BY <3>1
      <4>2. g \in lock \/ Marked(g, {"reread", "unlocked", "moved"})
        BY <3>1, <4>1 DEF LockOf
      <4>3. g \in lock' \/ Marked(g, {"reread", "unlocked", "moved"})'
        BY <1>2, <1>9, <2>1, <2>2, <4>2
      <4> QED BY <3>1, <4>1, <4>3 DEF Marked
    <3> QED BY <3>1, <3>2, <3>3 DEF Writes
  <2> QED BY <2>3, <2>4, <2>5
<1>16. \A f \in Files \ H, x \in Streams : Writes(x, f)' <=> Writes(x, f)
  BY <1>9, <1>14
<1>17. \A f \in H, x \in Streams : Writes(x, f)' => Writes(from[x], f)
  BY <1>8, <1>13, <1>14
<1>18. \A f \in H : disk'[f] = "whole" \/
                (disk'[f] = disk[f] /\ \A x \in Streams : Writes(x, f) => \E y \in Streams : Writes(y, f)')
  BY <1>8, <1>10, <1>14
<1>19. StreamInv'
  BY <1>2, <1>8, <1>10, <1>11, <1>13, <1>15, <1>16, <1>17, <1>18, HandedStep
<1> QED BY <1>11, <1>19

\* Two streams of one class exchange their files.
LEMMA SwapStep ==
    ASSUME StreamTypeOK, StreamInv, NEW s \in Streams, NEW r \in Streams, Swap(s, r)
    PROVE  StreamTypeOK' /\ StreamInv'
<1> USE Constants
<1>1. PICK c, d, H : c = stm[s] /\ d = stm[r] /\ H = Concerned(s, r)
  OBVIOUS
<1>2. UNCHANGED <<hasfd, lock, disk, pub, partial>> /\ s # r /\ c.kind # "none" /\ d.kind = c.kind
  BY <1>1 DEF Swap, StmCall, Call, fixed
<1>3. c \in Stream /\ d \in Stream /\ StreamOf(s) /\ StreamOf(r)
  BY <1>1 DEF StreamTypeOK, StreamInv
<1>4. CASE ~d.stream
  <2>1. UNCHANGED <<stm, tainted>>
    BY <1>1, <1>4 DEF Swap
  <2> QED BY <1>2, <2>1, StreamsStay DEF files
<1>5. CASE d.stream
  <2>1. PICK m, n : m = [c EXCEPT !.file = d.file, !.dirty = d.dirty]
                    /\ n = [d EXCEPT !.file = c.file, !.dirty = c.dirty]
    OBVIOUS
  <2>2. /\ m \in Stream /\ m.kind = c.kind /\ m.core = c.core /\ m.stream = c.stream /\ m.file = d.file
        /\ m.dirty = d.dirty /\ m.filename = c.filename /\ m.closing = c.closing
        /\ n \in Stream /\ n.kind = c.kind /\ n.core = d.core /\ n.stream = d.stream /\ n.file = c.file
        /\ n.dirty = c.dirty /\ n.filename = d.filename /\ n.closing = d.closing
    BY <1>2, <1>3, <2>1 DEF Stream
  <2>3. stm' = [stm EXCEPT ![s] = m, ![r] = n] /\ tainted' = TaintAll(H, "moved")
    BY <1>1, <1>2, <1>5, <2>1 DEF Swap, StreamTypeOK
  <2>4. /\ stm' \in [Streams -> Stream] /\ stm'[s] = m /\ stm'[r] = n
        /\ \A x \in Streams \ {s, r} : stm'[x] = stm[x]
    BY <1>2, <2>2, <2>3 DEF StreamTypeOK
  <2>5. /\ H \in SUBSET Files /\ \A f \in Files : tainted[f] \subseteq tainted'[f]
        /\ \A f \in H : "moved" \in tainted'[f]
        /\ tainted' \in [Files -> SUBSET {"moved", "reread", "unlocked", "unsynced", "failed"}]
    BY <1>1, <2>3, MovedMarks
  <2>6. \A f \in Files : f \in H <=> f = c.file \/ f = d.file
    BY <1>1 DEF Concerned
  <2>7. StreamTypeOK'
    BY <1>2, <2>4, <2>5 DEF StreamTypeOK
  <2>8. PICK from \in [Streams -> Streams] :
                from = [x \in Streams |-> IF x = s THEN r ELSE IF x = r THEN s ELSE x]
    OBVIOUS
  <2>9. /\ \A x, y \in Streams : from[x] = from[y] => x = y
        /\ from[s] = r /\ from[r] = s /\ \A x \in Streams \ {s, r} : from[x] = x
    BY <1>2, <2>8
  <2>10. /\ \A f \in Files : (Writes(s, f)' <=> Writes(r, f)) /\ (Writes(r, f)' <=> Writes(s, f))
         /\ \A x \in Streams \ {s, r}, f \in Files : Writes(x, f)' <=> Writes(x, f)
         /\ \A f \in Files : (Writes(s, f) => f = c.file) /\ (Writes(r, f) => f = d.file)
    BY <1>1, <1>2, <2>2, <2>4 DEF Writes
  <2>11. ASSUME NEW x \in Streams
         PROVE  /\ StreamOf(x)' /\ LockOf(x)' /\ stm'[x].filename = stm[x].filename
                /\ stm'[x].kind \in Writers => stm[x].kind \in Writers \/ stm[x].filename = NoFile
                /\ \A f \in Files : Writes(x, f) => stm'[x].file = f \/ f \in H
    <3>1. \A f \in Files : \A S : Marked(f, S) => Marked(f, S)'
      BY <2>5, MarksStay
    <3>2. \A f \in H : \A S : "moved" \in S => Marked(f, S)'
      BY <2>5 DEF Marked
    <3>3. CASE x \in {s, r}
      <4>1. PICK e, b : e = stm'[x] /\ b \in {c, d} /\ e.file = b.file /\ e.dirty = b.dirty
                        /\ e.kind = b.kind
        BY <1>2, <2>2, <2>4, <3>3
      <4>2. e.file \in Files \cup {NoFile} /\ e.kind = c.kind /\ e.core.ctx # 0
        BY <1>1, <1>2, <1>3, <2>2, <2>4, <3>3, <4>1 DEF Stream, StreamOf
      <4>3. e.file # NoFile => e.file \in H
        BY <2>6, <4>1, <4>2
      <4>4. e.kind = "ifstream" /\ e.file # NoFile => "reread" \in tainted'[e.file]
        BY <1>1, <1>3, <2>5, <4>1, <4>2 DEF StreamOf
      <4>5. e.dirty => e.kind \in Writers
        BY <1>1, <1>2, <1>3, <4>1 DEF StreamOf
      <4>6. e.file # NoFile => Marked(e.file, {"moved", "unlocked"})'
        BY <3>2, <4>3
      <4>7. e.file # NoFile => Marked(e.file, {"reread", "unlocked", "moved"})'
        BY <3>2, <4>3
      <4>8. StreamOf(x)'
        BY <1>2, <4>1, <4>2, <4>4, <4>5, <4>6 DEF StreamOf, Marked
      <4>9. LockOf(x)'
        BY <4>1, <4>7 DEF LockOf, Marked
      <4>10. stm'[x].filename = stm[x].filename /\ stm'[x].kind = stm[x].kind
        BY <1>1, <1>2, <2>2, <2>4, <3>3
      <4>11. \A f \in Files : Writes(x, f) => f \in H
        BY <2>6, <2>10, <3>3
      <4> QED BY <4>8, <4>9, <4>10, <4>11
    <3>4. CASE x \notin {s, r}
      <4>1. stm'[x] = stm[x] /\ StreamOf(x) /\ LockOf(x) /\ stm[x].file \in Files \cup {NoFile}
        BY <2>4, <3>4 DEF StreamInv, StreamTypeOK, Stream
      <4>2. StreamOf(x)'
        BY <2>5, <3>1, <4>1 DEF StreamOf
      <4>3. LockOf(x)'
        BY <1>2, <3>1, <4>1 DEF LockOf
      <4> QED BY <4>1, <4>2, <4>3 DEF Writes
    <3> QED BY <3>3, <3>4
  <2>12. \A f \in Files \ H, x \in Streams : Writes(x, f)' <=> Writes(x, f)
    BY <2>6, <2>10
  <2>13. \A f \in H, x \in Streams : Writes(x, f)' => Writes(from[x], f)
    BY <2>5, <2>9, <2>10
  <2>14. \A f \in H, x \in Streams : Writes(x, f) => \E y \in Streams : Writes(y, f)'
    BY <2>5, <2>10
  <2>15. StreamInv'
    BY <1>2, <2>5, <2>7, <2>9, <2>11, <2>12, <2>13, <2>14, HandedStep
  <2> QED BY <2>7, <2>15
<1> QED BY <1>4, <1>5

-----------------------------------------------------------------------------
\* The copies of the pointer, when nobody follows one that cannot be used.
LEMMA UsersStay ==
    ASSUME UsersSound, env' = env, crash' = crash, left' = left \/ CtxCall \/ StmCall,
           wctx' \in [Threads -> 0..MaxObjs], pyctx' \in 0..MaxObjs, pyinit' \in BOOLEAN
    PROVE  UsersSound'
<1>1. left' \in Nat \X Nat
  BY DEF UsersSound, UsersTypeOK, CtxCall, StmCall, Call
<1> QED BY <1>1 DEF UsersSound, UsersTypeOK, NullOnlyElsewhere

\* The same, with what most calls leave alone.
LEMMA CallerStays ==
    ASSUME UsersSound, CtxCall \/ StmCall, UNCHANGED <<users, crash>>
    PROVE  UsersSound' /\ mod' = mod /\ hasfd' = hasfd
<1>1. UNCHANGED <<env, hasfd, wctx, pyctx, pyinit, mod, crash>>
  BY DEF users, CtxCall, StmCall, Call, fixed
<1>2. UsersSound'
  BY <1>1, UsersStay DEF UsersSound, UsersTypeOK
<1> QED BY <1>1, <1>2

\* A step that leaves the context alone.
LEMMA CtxStays == ASSUME CtxSound, UNCHANGED <<ctxVars, mod>> PROVE CtxSound'
BY StillAmends, AmendKeeps DEF CtxSound

\* One that puts the re-entrance flag of a context on, or does not.
LEMMA CtxTouched ==
    ASSUME CtxSound, NEW o, UNCHANGED <<ctx, handle, norank, clean, mod>>,
           obj' = obj \/ (o \in Objs /\ obj' = [obj EXCEPT ![o].reenter = TRUE])
    PROVE  CtxSound'
<1>1. CASE obj' = obj
  BY <1>1, CtxStays DEF ctxVars
<1>2. CASE o \in Objs /\ obj' = [obj EXCEPT ![o].reenter = TRUE]
  BY <1>2, TouchAmends, AmendKeeps DEF CtxSound
<1> QED BY <1>1, <1>2

\* A pointer that cannot be used is followed.
LEMMA CrashStep ==
    ASSUME ClientInv, CtxCall \/ StmCall,
           NEW who \in {"wrapper", "python", "stream"}, NEW t \in Threads, NEW p, Crashes(who, t, p),
           who # "wrapper" \/ t = Main => p # 0
    PROVE  ClientInv'
<1>1. UNCHANGED <<ctxVars, hasfd, env, wctx, pyctx, pyinit, mod, stm, files>>
  BY DEF Crashes, users, CtxCall, StmCall, Call, fixed
<1>2. CtxSound'
  BY <1>1, CtxStays DEF ClientInv
<1>3. FilesSound'
  BY <1>1, StreamsStay DEF ClientInv, FilesSound
<1>4. PICK w \in {"null", "freed"} : w = Why(p)
  BY DEF Why
<1>5. crash' = <<who, t, w>> /\ (who # "wrapper" \/ t = Main => w = "freed")
  BY <1>4 DEF Crashes, Why
<1>6. left' \in Nat \X Nat
  BY DEF ClientInv, UsersSound, UsersTypeOK, CtxCall, StmCall, Call
<1>7. UsersTypeOK'
  BY <1>1, <1>5, <1>6 DEF ClientInv, UsersSound, UsersTypeOK
<1>8. NullOnlyElsewhere'
  <2>1. crash'[1] = who /\ crash'[2] = t /\ crash'[3] = w
    BY <1>5
  <2> QED BY <1>5, <2>1 DEF NullOnlyElsewhere
<1> QED BY <1>2, <1>3, <1>7, <1>8 DEF ClientInv, UsersSound

\* The wrapper's calls.
LEMMA WrapperStep ==
    ASSUME ClientInv,
           \/ \E fault \in Faults : WrapperInit(fault)
           \/ \E t \in Apps : WrapperRead(t) \/ WrapperWrite(t) \/ WrapperCrashes(t)
           \/ WrapperFini
    PROVE  ClientInv'
<1> USE Constants
<1>1. PICK a \in Args : a = env
  BY DEF ClientInv, UsersSound, UsersTypeOK
<1>2. ASSUME NEW fault \in Faults, WrapperInit(fault) PROVE ClientInv'
  <2>1. /\ UNCHANGED <<hasfd, env, pyctx, pyinit, mod, stm, files, crash>> /\ CtxCall
        /\ DyadInit(Main, a, fault, 0, TRUE) /\ wctx' = [wctx EXCEPT ![Main] = ctx'[Main]]
    BY <1>1, <1>2 DEF WrapperInit, CtxCall, Call, fixed
  <2>2. CtxSound' /\ ctx'[Main] \in Objs
    BY <2>1, InitStep DEF ClientInv, CtxSound
  <2>3. FilesSound'
    BY <2>1, StreamsStay DEF ClientInv, FilesSound
  <2>4. UsersSound'
    BY <2>1, <2>2, UsersStay DEF ClientInv, UsersSound, UsersTypeOK
  <2> QED BY <2>2, <2>3, <2>4 DEF ClientInv
<1>3. ASSUME NEW t \in Apps, WrapperRead(t) \/ WrapperWrite(t) PROVE ClientInv'
  <2>1. UNCHANGED <<ctxVars, users, stm, files, crash>> /\ CtxCall
    BY <1>3 DEF WrapperRead, WrapperWrite, Goes
  <2>2. UsersSound' /\ mod' = mod /\ hasfd' = hasfd
    BY <2>1, CallerStays DEF ClientInv
  <2>3. CtxSound'
    BY <2>1, <2>2, CtxStays DEF ClientInv
  <2>4. FilesSound'
    BY <2>1, <2>2, StreamsStay DEF ClientInv, FilesSound
  <2> QED BY <2>2, <2>3, <2>4 DEF ClientInv
<1>4. ASSUME NEW t \in Apps, WrapperCrashes(t) PROVE ClientInv'
  <2>1. CtxCall /\ Crashes("wrapper", t, wctx[t]) /\ (t = Main => wctx[t] # 0) /\ t \in Threads
    BY <1>4 DEF WrapperCrashes, Apps
  <2> QED BY <2>1, CrashStep
<1>5. ASSUME WrapperFini PROVE ClientInv'
  <2>1. UNCHANGED <<users, stm, files, crash>> /\ CtxCall /\ DyadFinalize(Main)
    BY <1>5 DEF WrapperFini
  <2>2. UsersSound' /\ mod' = mod /\ hasfd' = hasfd
    BY <2>1, CallerStays DEF ClientInv
  <2>3. CtxSound'
    BY <2>1, <2>2, FinalizeStep DEF ClientInv, CtxSound
  <2>4. FilesSound'
    BY <2>1, <2>2, StreamsStay DEF ClientInv, FilesSound
  <2> QED BY <2>2, <2>3, <2>4 DEF ClientInv
<1> QED BY <1>2, <1>3, <1>4, <1>5

\* The calls of pydyad and of the exported functions.
LEMMA PythonStep ==
    ASSUME ClientInv,
           \/ \E a \in Params, fault \in Faults : PyInit(a, fault)
           \/ PyCall \/ PyCrashes \/ PyFinalize
           \/ \E t \in Apps : Setter(t)
    PROVE  ClientInv'
<1> USE Constants
<1>1. ASSUME NEW a \in Params, NEW fault \in Faults, PyInit(a, fault) PROVE ClientInv'
  <2>1. /\ UNCHANGED <<hasfd, env, wctx, mod, stm, files, crash>> /\ CtxCall
        /\ DyadInit(Main, a, fault, 0, FALSE) /\ pyctx' = ctx'[Main]
        /\ pyinit' = (pyinit \/ InitOutcome(Main, a, fault, 1).rc = "ok")
    BY <1>1 DEF PyInit, CtxCall, Call, fixed
  <2>2. CtxSound' /\ ctx'[Main] \in Objs
    BY <2>1, ClientAssumption, InitStep DEF ClientInv, CtxSound
  <2>3. FilesSound'
    BY <2>1, StreamsStay DEF ClientInv, FilesSound
  <2>4. UsersSound'
    BY <2>1, <2>2, UsersStay DEF ClientInv, UsersSound, UsersTypeOK
  <2> QED BY <2>2, <2>3, <2>4 DEF ClientInv
<1>2. ASSUME PyCall PROVE ClientInv'
  <2>1. /\ UNCHANGED <<ctx, handle, norank, clean, users, stm, files, crash>> /\ CtxCall /\ pyctx # 0
        /\ obj' = [obj EXCEPT ![pyctx].reenter = TRUE]
    BY <1>2 DEF PyCall, Goes, Live
  <2>2. UsersSound' /\ mod' = mod /\ hasfd' = hasfd
    BY <2>1, CallerStays DEF ClientInv
  <2>3. PICK o \in Objs : o = pyctx
    BY <2>1 DEF ClientInv, UsersSound, UsersTypeOK
  <2>4. CtxSound'
    BY <2>1, <2>2, <2>3, CtxTouched DEF ClientInv
  <2>5. FilesSound'
    BY <2>1, <2>2, StreamsStay DEF ClientInv, FilesSound
  <2> QED BY <2>2, <2>4, <2>5 DEF ClientInv
<1>3. ASSUME PyCrashes PROVE ClientInv'
  <2>1. CtxCall /\ Crashes("python", Main, pyctx) /\ pyctx # 0
    BY <1>3 DEF PyCrashes
  <2> QED BY <2>1, CrashStep
<1>4. ASSUME PyFinalize PROVE ClientInv'
  <2>1. /\ UNCHANGED <<hasfd, env, wctx, pyctx, mod, stm, files, crash>> /\ CtxCall
        /\ DyadFinalize(Main) /\ pyinit' = FALSE
    BY <1>4 DEF PyFinalize, CtxCall, Call, fixed
  <2>2. CtxSound'
    BY <2>1, FinalizeStep DEF ClientInv, CtxSound
  <2>3. FilesSound'
    BY <2>1, StreamsStay DEF ClientInv, FilesSound
  <2>4. UsersSound'
    BY <2>1, UsersStay DEF ClientInv, UsersSound, UsersTypeOK
  <2> QED BY <2>2, <2>3, <2>4 DEF ClientInv
<1>5. ASSUME NEW t \in Apps, Setter(t) PROVE ClientInv'
  <2>1. UNCHANGED <<users, stm, files, crash>> /\ CtxCall /\ t \in Threads \ {Service}
    BY <1>5 DEF Setter, Apps
  <2>2. UsersSound' /\ mod' = mod /\ hasfd' = hasfd
    BY <2>1, CallerStays DEF ClientInv
  <2>3. CtxSound'
    BY <1>5, <2>1, <2>2, SetterStep DEF ClientInv, CtxSound, Setter
  <2>4. FilesSound'
    BY <2>1, <2>2, StreamsStay DEF ClientInv, FilesSound
  <2> QED BY <2>2, <2>3, <2>4 DEF ClientInv
<1> QED BY <1>1, <1>2, <1>3, <1>4, <1>5

\* The module's context.
LEMMA ModuleStep ==
    ASSUME ClientInv,
           \/ \E fault \in Faults \ {"open"}, registered \in BOOLEAN : ModMain(fault, registered)
           \/ ModMainHelps
           \/ FreeCtx
    PROVE  ClientInv'
<1> USE Constants
<1>1. /\ UNCHANGED <<hasfd, env, wctx, pyctx, pyinit, stm, files, crash>> /\ CtxCall
  BY DEF ModMain, ModMainHelps, FreeCtx, CtxCall, Call, fixed
<1>2. FilesSound'
  BY <1>1, StreamsStay DEF ClientInv, FilesSound
<1>3. UsersSound'
  BY <1>1, UsersStay DEF ClientInv, UsersSound, UsersTypeOK
<1>4. ASSUME NEW fault \in Faults \ {"open"}, NEW registered \in BOOLEAN, ModMain(fault, registered)
      PROVE  CtxSound'
  BY <1>4, ModMainStep DEF ClientInv, CtxSound, UsersSound, UsersTypeOK
<1>5. ASSUME ModMainHelps PROVE CtxSound'
  <2>1. UNCHANGED ctxVars /\ mod = "loading" /\ mod' = "failed"
    BY <1>5 DEF ModMainHelps
  <2> QED BY <2>1 DEF ClientInv, CtxSound, CtxTypeOK, CtxInv, PointersInv, OwnersInv, HandlesInv,
             UsersInv, OkMeansUsable, SyncStaysOn, ServingModuleIsWhole, Live, ctxVars
<1>6. ASSUME FreeCtx PROVE CtxSound'
  <2>1. DyadFinalize(Service) /\ mod' = "unloaded" /\ mod # "unloaded"
    BY <1>6 DEF FreeCtx
  <2> QED BY <2>1, FinalizeStep DEF ClientInv, CtxSound
<1> QED BY <1>2, <1>3, <1>4, <1>5, <1>6 DEF ClientInv

\* A stream is made, with the context of its thread or with a new one.
LEMMA NewStreamStep ==
    ASSUME ClientInv, NEW t \in Apps, NEW s \in Streams,
           NEW kind \in {"ifstream", "ofstream", "fstream"}, NEW fault \in Faults,
           NewStream(t, s, kind, fault) \/ \E a \in Params : NewStreamParams(t, s, kind, a, fault)
    PROVE  ClientInv'
<1> USE Constants
<1>1. t \in Threads \ {Service}
  BY DEF Apps
<1>2. /\ UNCHANGED <<users, files, crash>> /\ (CtxCall \/ StmCall) /\ stm[s].kind = "none"
  BY DEF NewStream, NewStreamParams
<1>3. UsersSound' /\ mod' = mod /\ hasfd' = hasfd
  BY <1>2, CallerStays DEF ClientInv
<1>4. ASSUME NewStream(t, s, kind, fault) PROVE CtxSound' /\ FilesSound'
  <2>1. CtxSound' /\ ctx'[t] \in Objs
    <3>1. CASE env.reinit \/ ctx[t] = 0
      <4>1. PICK a \in Args : a = env
        BY DEF ClientInv, UsersSound, UsersTypeOK
      <4>2. DyadInit(t, a, fault, 0, TRUE)
        BY <1>4, <3>1, <4>1 DEF NewStream
      <4> QED BY <1>1, <1>3, <4>2, InitStep DEF ClientInv, CtxSound
    <3>2. CASE ~(env.reinit \/ ctx[t] = 0)
      <4>1. UNCHANGED ctxVars
        BY <1>4, <3>2 DEF NewStream
      <4>2. CtxSound'
        BY <1>3, <4>1, CtxStays DEF ClientInv
      <4> QED BY <1>1, <3>2, <4>1, <4>2 DEF ClientInv, CtxSound, CtxTypeOK, ctxVars
    <3> QED BY <3>1, <3>2
  <2>2. PICK core : core = [ctx |-> ctx'[t], initialized |-> TRUE,
                            prod |-> env.prod = "path", cons |-> env.cons = "path"]
    OBVIOUS
  <2>3. core \in Core /\ core.ctx # 0
    BY <2>1, <2>2 DEF Core
  <2>4. stm' = [stm EXCEPT ![s] = Fresh(kind, core)]
    BY <1>4, <2>2 DEF NewStream
  <2>5. FilesSound'
    BY <1>2, <1>3, <2>3, <2>4, FreshStep DEF ClientInv, FilesSound
  <2> QED BY <2>1, <2>5
<1>5. ASSUME NEW a \in Params, NewStreamParams(t, s, kind, a, fault) PROVE CtxSound' /\ FilesSound'
  <2>1. a \in Args /\ DyadInit(t, a, fault, 0, FALSE)
    BY <1>5, ClientAssumption DEF NewStreamParams
  <2>2. CtxSound' /\ ctx'[t] \in Objs
    BY <1>1, <1>3, <2>1, InitStep DEF ClientInv, CtxSound
  <2>3. PICK ok \in BOOLEAN : ok = (InitOutcome(t, a, fault, 1).rc = "ok")
    OBVIOUS
  <2>4. PICK core : core = [ctx |-> ctx'[t], initialized |-> TRUE,
                            prod |-> ok /\ a.prod = "path", cons |-> ok /\ a.cons = "path"]
    OBVIOUS
  <2>5. core \in Core /\ core.ctx # 0
    BY <2>2, <2>4 DEF Core
  <2>6. stm' = [stm EXCEPT ![s] = Fresh(kind, core)]
    BY <1>5, <2>3, <2>4 DEF NewStreamParams
  <2>7. FilesSound'
    BY <1>2, <1>3, <2>5, <2>6, FreshStep DEF ClientInv, FilesSound
  <2> QED BY <2>2, <2>7
<1> QED BY <1>3, <1>4, <1>5 DEF ClientInv

\* Cores and files go from a stream to another.
LEMMA TwoStreamsStep ==
    ASSUME ClientInv, NEW s \in Streams, NEW r \in Streams, SetCore(s, r) \/ Move(s, r) \/ Swap(s, r)
    PROVE  ClientInv'
<1> USE Constants
<1>1. StmCall /\ UNCHANGED <<ctxVars, users>>
  BY DEF SetCore, Move, Swap
<1>2. UNCHANGED <<env, hasfd, wctx, pyctx, pyinit, mod>>
  BY <1>1 DEF users, StmCall, Call, fixed
<1>3. CtxSound'
  BY <1>1, <1>2, CtxStays DEF ClientInv
<1>4. FilesSound'
  BY SetCoreStep, MoveStep, SwapStep DEF ClientInv, FilesSound
<1>5. UsersSound'
  <2>1. CASE crash' = crash
    BY <1>1, <1>2, <2>1, UsersStay DEF ClientInv, UsersSound, UsersTypeOK
  <2>2. CASE crash' # crash
    <3>1. crash' = <<"swap", Main, "null">>
      BY <2>2 DEF SetCore, Move, Swap
    <3>2. left' \in Nat \X Nat
      BY <1>1 DEF ClientInv, UsersSound, UsersTypeOK, StmCall, Call
    <3>3. UsersTypeOK'
      BY <1>2, <3>1, <3>2 DEF ClientInv, UsersSound, UsersTypeOK
    <3> QED BY <3>1, <3>3 DEF UsersSound, NullOnlyElsewhere
  <2> QED BY <2>1, <2>2
<1> QED BY <1>3, <1>4, <1>5 DEF ClientInv

\* A stream's context is one of the heap.
LEMMA ContextOf ==
    ASSUME FilesSound, NEW s \in Streams, stm[s].kind # "none"
    PROVE  stm[s].core.ctx \in Objs /\ stm[s].core.ctx # 0
<1>1. stm[s].core.ctx # 0 /\ stm[s].core.ctx \in 0..MaxObjs
  BY DEF FilesSound, StreamTypeOK, StreamInv, StreamOf, Stream, Core
<1> QED BY <1>1, Constants

\* Opening a file.
LEMMA OpenStep ==
    ASSUME ClientInv, NEW s \in Streams, NEW f \in Files, OpenRead(s, f) \/ OpenWrite(s, f)
    PROVE  ClientInv'
<1>1. /\ StmCall /\ UNCHANGED <<ctx, handle, norank, clean, users, crash>> /\ stm[s].kind # "none"
      /\ obj' = obj \/ obj' = [obj EXCEPT ![stm[s].core.ctx].reenter = TRUE]
  BY DEF OpenRead, OpenWrite, Writers
<1>2. UsersSound' /\ mod' = mod
  BY <1>1, CallerStays DEF ClientInv
<1>3. PICK o \in Objs : o = stm[s].core.ctx
  BY <1>1, ContextOf DEF ClientInv
<1>4. CtxSound'
  BY <1>1, <1>2, <1>3, CtxTouched DEF ClientInv
<1>5. FilesSound'
  BY OpenReadStep, OpenWriteStep DEF ClientInv, FilesSound
<1> QED BY <1>2, <1>4, <1>5 DEF ClientInv

\* Writing a file, and the two parts of close().
LEMMA CloseStep ==
    ASSUME ClientInv, NEW s \in Streams,
           \/ Write(s) \/ Destroy(s)
           \/ \E how \in {"close", "destroy"} : CloseUnlock(s, how)
           \/ \E published \in BOOLEAN : CloseFinish(s, published)
    PROVE  ClientInv'
<1>1. FilesSound'
  BY WriteStep, DestroyStep, CloseUnlockStep, CloseFinishStep DEF ClientInv, FilesSound
<1>2. ASSUME Write(s) \/ Destroy(s) \/ \E how \in {"close", "destroy"} : CloseUnlock(s, how)
      PROVE  CtxSound' /\ UsersSound'
  <2>1. StmCall /\ UNCHANGED <<ctxVars, users, crash>>
    BY <1>2 DEF Write, Destroy, CloseUnlock
  <2>2. UsersSound' /\ mod' = mod
    BY <2>1, CallerStays DEF ClientInv
  <2> QED BY <2>1, <2>2, CtxStays DEF ClientInv
<1>3. ASSUME NEW published \in BOOLEAN, CloseFinish(s, published) PROVE CtxSound' /\ UsersSound'
  <2>1. /\ UNCHANGED <<ctx, handle, norank, clean, users, fixed, crash, left>> /\ stm[s].closing # "no"
        /\ obj' = obj \/ obj' = [obj EXCEPT ![stm[s].core.ctx].reenter = TRUE]
    BY <1>3 DEF CloseFinish
  <2>2. UNCHANGED <<env, wctx, pyctx, pyinit, mod>>
    BY <2>1 DEF users, fixed
  <2>3. UsersSound'
    BY <2>1, <2>2, UsersStay DEF ClientInv, UsersSound, UsersTypeOK
  <2>4. stm[s].kind # "none"
    <3>1. NoStream.closing = "no"
      BY DEF NoStream
    <3> QED BY <2>1, <3>1 DEF ClientInv, FilesSound, StreamInv, StreamOf
  <2>5. PICK o \in Objs : o = stm[s].core.ctx
    BY <2>4, ContextOf DEF ClientInv
  <2>6. CtxSound'
    BY <2>1, <2>2, <2>5, CtxTouched DEF ClientInv
  <2> QED BY <2>3, <2>6
<1> QED BY <1>1, <1>2, <1>3 DEF ClientInv

\* A stream follows a pointer that cannot be used, and a consumer reads elsewhere.
LEMMA OtherStep ==
    ASSUME ClientInv,
           \/ \E s \in Streams, t \in Apps : StreamCrashes(t, s)
           \/ \E f \in Files, how \in {"env", "params"} : OtherReads(f, how)
    PROVE  ClientInv'
<1>1. ASSUME NEW s \in Streams, NEW t \in Apps, StreamCrashes(t, s) PROVE ClientInv'
  <2>1. StmCall /\ Crashes("stream", t, stm[s].core.ctx) /\ stm[s].stream /\ t \in Threads
    BY <1>1 DEF StreamCrashes, Apps
  <2>2. stm[s].kind # "none"
    BY <2>1 DEF ClientInv, FilesSound, StreamInv, StreamOf
  <2>3. PICK p : p = stm[s].core.ctx /\ p # 0
    BY <2>2, ContextOf DEF ClientInv
  <2> QED BY <2>1, <2>3, CrashStep
<1>2. ASSUME NEW f \in Files, NEW how \in {"env", "params"}, OtherReads(f, how) PROVE ClientInv'
  <2>1. UNCHANGED <<ctxVars, env, wctx, pyctx, pyinit, mod, crash, left>>
    BY <1>2 DEF OtherReads, users, fixed
  <2>2. UsersSound'
    BY <2>1, UsersStay DEF ClientInv, UsersSound, UsersTypeOK
  <2>3. CtxSound'
    BY <2>1, CtxStays DEF ClientInv
  <2>4. FilesSound'
    BY <1>2, OtherReadsStep DEF ClientInv, FilesSound
  <2> QED BY <2>2, <2>3, <2>4 DEF ClientInv
<1> QED BY <1>1, <1>2

\* The program starts with the broker's handle and nothing else.
LEMMA ClientStarts == ASSUME Init PROVE ClientInv
<1> USE Constants
<1>1. PICK u \in Context : u = [Default EXCEPT !.mem = "unused"] /\ u.h = 0 /\ u.mem = "unused"
  <2>1. PICK d, v : d = Default /\ v = [d EXCEPT !.mem = "unused"]
    OBVIOUS
  <2>2. PICK a \in Args : a = env
    BY ClientAssumption DEF Init
  <2>3. d \in Context /\ d.h = 0
    BY <2>1, <2>2, ContextForms
  <2>4. v \in Context /\ v.h = 0 /\ v.mem = "unused"
    BY <2>1, <2>3 DEF Context
  <2> QED BY <2>1, <2>4
<1>2. \A o \in Objs : obj[o] = u
  BY <1>1 DEF Init, CtxInit
<1>3. CtxTypeOK
  BY <1>1 DEF Init, CtxInit, CtxTypeOK
<1>4. CtxInv
  <2>1. \A t \in Threads : ctx[t] = 0
    BY DEF Init, CtxInit
  <2>2. PointersInv
    BY <2>1 DEF PointersInv
  <2>3. OwnersInv
    BY <1>1, <1>2 DEF OwnersInv
  <2>4. HandlesInv
    BY DEF Init, CtxInit, HandlesInv
  <2>5. UsersInv
    BY <1>1, <1>2 DEF Init, CtxInit, UsersInv, OkMeansUsable, SyncStaysOn, ServingModuleIsWhole
  <2> QED BY <2>2, <2>3, <2>4, <2>5 DEF CtxInv
<1>5. /\ NoStream \in Stream /\ NoStream.kind = "none" /\ ~NoStream.stream /\ NoStream.file = NoFile
      /\ ~NoStream.dirty
  BY DEF NoStream, Stream, NoCore, Core
<1>6. \A s \in Streams : stm[s] = NoStream
  BY DEF Init
<1>7. StreamTypeOK
  BY <1>5, ClientAssumption DEF Init, StreamTypeOK
<1>8. StreamInv
  <2>1. "none" \notin Writers
    BY DEF Writers
  <2>2. \A s \in Streams : StreamOf(s) /\ NameOf(s) /\ LockOf(s)
    BY <1>5, <1>6, <2>1 DEF StreamOf, NameOf, LockOf
  <2>3. \A f \in Files : FileOf(f)
    BY <1>5, <1>6, <2>1 DEF Init, FileOf, Writes
  <2> QED BY <2>2, <2>3 DEF Init, StreamInv, ReaderSeesWholeFile
<1>9. UsersTypeOK
  BY ClientAssumption DEF Init, UsersTypeOK
<1>10. NullOnlyElsewhere
  BY DEF Init, NullOnlyElsewhere
<1> QED BY <1>3, <1>4, <1>7, <1>8, <1>9, <1>10 DEF ClientInv, CtxSound, FilesSound, UsersSound

\* A step that changes nothing.
LEMMA ClientStutters == ASSUME ClientInv, UNCHANGED vars PROVE ClientInv'
<1>1. UNCHANGED <<ctxVars, hasfd, env, wctx, pyctx, pyinit, mod, stm, files, crash, left>>
  BY DEF vars, fixed, users
<1>2. CtxSound'
  BY <1>1, CtxStays DEF ClientInv
<1>3. FilesSound'
  BY <1>1, StreamsStay DEF ClientInv, FilesSound
<1>4. UsersSound'
  BY <1>1, UsersStay DEF ClientInv, UsersSound, UsersTypeOK
<1> QED BY <1>2, <1>3, <1>4 DEF ClientInv

\* Every call of every user of a context, every failure of it, and every step of
\* a stream's close(), keeps the invariant.
THEOREM ClientInvariant == Spec => []ClientInv
<1>1. ASSUME ClientInv, [Next]_vars PROVE ClientInv'
  <2>1. CASE UNCHANGED vars
    BY <1>1, <2>1, ClientStutters
  <2>2. CASE Next
    BY <1>1, <2>2, WrapperStep, PythonStep, ModuleStep, NewStreamStep, TwoStreamsStep, OpenStep,
       CloseStep, OtherStep DEF Next
  <2> QED BY <1>1, <2>1, <2>2
<1> QED BY <1>1, ClientStarts, PTL DEF Spec

\* Through every sequence of initialisations, finalisations and failures of
\* dyad_init() by streams, wrapper, pydyad and module, each Flux handle is closed
\* once, and the module that serves has a whole context.
THEOREM ClientContextsSound == Spec => []ContextsSound
<1>1. ASSUME ClientInv PROVE ContextsSound
  <2>1. TypeOK
    BY <1>1 DEF ClientInv, CtxSound, FilesSound, UsersSound, CtxTypeOK, StreamTypeOK, UsersTypeOK, TypeOK
  <2>2. ServingModuleIsWhole /\ HandlesInv /\ OwnersInv
    BY <1>1 DEF ClientInv, CtxSound, CtxInv, UsersInv
  <2>3. HandlesAccounted
    <3> SUFFICES ASSUME NEW n \in Handles \ norank
                 PROVE  /\ handle[n] = "open" /\ n # Broker => \E o \in Objs : obj[o].mem = "live" /\ obj[o].h = n
                        /\ handle[n] = "twice" => n = Broker /\ mod = "unloaded"
      BY DEF HandlesAccounted
    <3>1. handle[n] = "open" /\ n # Broker => \E o \in Objs : obj[o].h = n
      BY <2>2 DEF HandlesInv
    <3>2. \A o \in Objs : obj[o].h = n => obj[o].mem = "live"
      BY <2>2, Constants DEF OwnersInv
    <3> QED BY <2>2, <3>1, <3>2 DEF HandlesInv
  <2> QED BY <2>1, <2>2, <2>3 DEF ContextsSound
<1> QED BY <1>1, ClientInvariant, PTL

\* A thread all of whose calls were told DYAD_RC_OK, the first with a managed
\* path, has a context that works.
THEOREM ClientOkMeansUsable == Spec => []OkMeansUsable
<1>1. ASSUME ClientInv PROVE OkMeansUsable
  BY <1>1 DEF ClientInv, CtxSound, CtxInv, UsersInv
<1> QED BY <1>1, ClientInvariant, PTL

\* No call leaves reenter off in an initialised context with a handle.
THEOREM ClientSyncStaysOn == Spec => []SyncStaysOn
<1>1. ASSUME ClientInv PROVE SyncStaysOn
  BY <1>1 DEF ClientInv, CtxSound, CtxInv, UsersInv
<1> QED BY <1>1, ClientInvariant, PTL

\* A NULL context is followed by the wrapper only, in a thread other than the one
\* that loaded the library, or by swap() with a stream that was moved from.
THEOREM ClientNullOnlyElsewhere == Spec => []NullOnlyElsewhere
<1>1. ASSUME ClientInv PROVE NullOnlyElsewhere
  BY <1>1 DEF ClientInv, UsersSound
<1> QED BY <1>1, ClientInvariant, PTL

\* Each file that a stream wrote and closed is published, and none whose data is
\* still in a buffer, apart from the files that the properties name.
THEOREM ClientStreamsSound == Spec => []StreamsSound
<1>1. ASSUME ClientInv PROVE StreamsSound
  <2>1. /\ \A s \in Streams : StreamOf(s)
        /\ \A f \in Files : FileOf(f)
    BY <1>1 DEF ClientInv, FilesSound, StreamInv
  <2>2. ClosedIsPublished
    BY <2>1 DEF ClosedIsPublished, FileOf, Writes, Marked
  <2>3. PublishedIsFlushed
    <3> SUFFICES ASSUME NEW f \in pub, "moved" \notin tainted[f], NEW s \in Streams, stm[s].file = f
                 PROVE  ~stm[s].dirty
      BY DEF PublishedIsFlushed
    <3>1. f \in Files
      BY <1>1 DEF ClientInv, FilesSound, StreamTypeOK
    <3>2. ~Writes(s, f)
      BY <2>1, <3>1 DEF FileOf
    <3> QED BY <2>1, <3>2 DEF StreamOf, Writes
  <2> QED BY <2>2, <2>3 DEF StreamsSound
<1> QED BY <1>1, ClientInvariant, PTL

\* A writer keeps its lock until its close(), and with it a consumer elsewhere
\* reads the whole file, apart from the cases that the properties name.
THEOREM ClientLocksSound == Spec => []LocksSound
<1>1. ASSUME ClientInv PROVE LocksSound
  <2>1. /\ \A s \in Streams : LockOf(s)
        /\ ReaderSeesWholeFile
    BY <1>1 DEF ClientInv, FilesSound, StreamInv
  <2> QED BY <2>1 DEF LocksSound, WriterKeepsLock, LockOf, Marked
<1> QED BY <1>1, ClientInvariant, PTL

-----------------------------------------------------------------------------
(* mkdir_as_needed() *)

\* What exists at some component lies in directories, however far up: MkDirsTypeOK
\* says it of the next component, and from that to all of them it would take an
\* induction on the path.
PathInv == \A i, j \in Levels : i < j /\ entry[j] # "none" => entry[i] = "dir"

\* The umask of a process is 0 inside mkpath(), and its own when it is outside
\* and none of its calls has left through the second stat().
MaskInv ==
    \A p \in Processes :
        /\ pc[p] \in {"stat", "mkdir", "recheck", "restore"} => umask[p] = "zero"
        /\ pc[p] \in {"idle", "umask"} /\ p \notin rechecked => umask[p] = "own"
        /\ pc[p] \in {"stat", "mkdir", "recheck", "restore"} /\ p \notin rechecked =>
            old_mask[p] = "own"

\* Nothing fails by itself and no file is in the way.
Undisturbed == faults = 0 /\ \A i \in Levels : entry[i] # "file"

\* Undisturbed, a process is at a component whose parent is there, and whoever
\* was faster has left the whole path behind when its mkdir() fails.
RaceInv ==
    Undisturbed => \A p \in Processes :
        /\ pc[p] = "mkdir" /\ level[p] > 1 => entry[level[p] - 1] = "dir"
        /\ pc[p] \in {"recheck", "restore"} => entry[Depth] = "dir"
        /\ res[p] # "negative"
        /\ res[p] = "usable" => entry[Depth] = "dir"

MkInv == MkDirsTypeOK /\ PathInv /\ MaskInv /\ BitsAreExact /\ RaceInv

Places == {"idle", "umask", "stat", "mkdir", "recheck", "restore"}

\* The initial states of a process that has not yet called mkdir_as_needed().
LEMMA MkInit == MkDirsInit => MkInv
<1> USE MkDirsAssumption DEF Levels
<1>1. MkDirsInit => MkDirsTypeOK /\ PathInv /\ MaskInv /\ BitsAreExact
  BY DEF MkDirsInit, MkDirsTypeOK, PathInv, MaskInv, BitsAreExact
<1>2. MkDirsInit => RaceInv
  BY DEF MkDirsInit, RaceInv
<1> QED BY <1>1, <1>2 DEF MkInv

\* Every step of mkdir_as_needed(), of mkpath() and of a program that is in the
\* way preserves the invariant.
LEMMA MkStep == MkInv /\ [MkDirsNext]_MkDirsVars => MkInv'
<1> SUFFICES ASSUME MkInv, [MkDirsNext]_MkDirsVars PROVE MkInv'
  OBVIOUS
<1> USE MkDirsAssumption DEF Levels, Undisturbed
<1>0. /\ MkDirsTypeOK /\ PathInv /\ MaskInv /\ BitsAreExact /\ RaceInv
      /\ Depth \in Levels
  BY DEF MkInv
<1> USE <1>0
<1>1. ASSUME NEW p \in Processes, MkDirCall(p) PROVE MkInv'
  <2> USE <1>1 DEF MkDirCall, Goto, Found, dirs
  <2>0. calls[p] + 1 \in 0..MaxCalls
    BY DEF MkDirsTypeOK
  <2>a. CASE entry[Depth] # "none"
    <3> USE <2>0, <2>a DEF Return
    <3>1. MkDirsTypeOK'
      BY DEF MkDirsTypeOK
    <3>2. PathInv'
      BY DEF MkDirsTypeOK, PathInv
    <3>3. MaskInv'
      BY DEF MkDirsTypeOK, MaskInv
    <3>4. BitsAreExact'
      BY DEF MkDirsTypeOK, MaskInv, BitsAreExact
    <3>5. RaceInv'
      BY DEF MkDirsTypeOK, PathInv, RaceInv
    <3> QED BY <3>1, <3>2, <3>3, <3>4, <3>5 DEF MkInv
  <2>b. CASE entry[Depth] = "none"
    <3> USE <2>0, <2>b
    <3>1. MkDirsTypeOK'
      BY DEF MkDirsTypeOK
    <3>2. PathInv'
      BY DEF MkDirsTypeOK, PathInv
    <3>3. MaskInv'
      BY DEF MkDirsTypeOK, MaskInv
    <3>4. BitsAreExact'
      BY DEF MkDirsTypeOK, MaskInv, BitsAreExact
    <3>5. RaceInv'
      BY DEF MkDirsTypeOK, PathInv, RaceInv
    <3> QED BY <3>1, <3>2, <3>3, <3>4, <3>5 DEF MkInv
  <2> QED BY <2>a, <2>b
<1>2. ASSUME NEW p \in Processes, Umask(p) PROVE MkInv'
  <2> USE <1>2 DEF Umask, Goto, dirs
  <2>1. MkDirsTypeOK'
    BY DEF MkDirsTypeOK
  <2>2. PathInv'
    BY DEF MkDirsTypeOK, PathInv
  <2>3. MaskInv'
    BY DEF MkDirsTypeOK, MaskInv
  <2>4. BitsAreExact'
    BY DEF MkDirsTypeOK, BitsAreExact
  <2>5. RaceInv'
    BY DEF MkDirsTypeOK, PathInv, RaceInv
  <2> QED BY <2>1, <2>2, <2>3, <2>4, <2>5 DEF MkInv
<1>3. ASSUME NEW p \in Processes, Stat(p) PROVE MkInv'
  <2>0. /\ level[p] \in Levels
        /\ pc[p] = "stat"
        /\ UNCHANGED <<entry, exact, umask, old_mask, calls, res, rechecked, faults>>
    BY <1>3 DEF Stat, MkDirsTypeOK, dirs
  <2>a. CASE entry[level[p]] # "none" /\ level[p] = Depth
    <3>0. pc' = [pc EXCEPT ![p] = "restore"] /\ level' = level
      BY <1>3, <2>0, <2>a DEF Stat, Goto
    <3>1. MkDirsTypeOK'
      <4>1. level' \in [Processes -> Levels] /\ pc' \in [Processes -> Places]
        BY <2>0, <2>a, <3>0 DEF MkDirsTypeOK, Places
      <4>2. entry' \in [Levels -> {"none", "dir", "file"}]
        BY <2>0, <3>0 DEF MkDirsTypeOK
      <4>3. \A i \in Levels : i > 1 /\ entry'[i] # "none" => entry'[i - 1] = "dir"
        BY <2>0, <2>a, <3>0 DEF MkDirsTypeOK
      <4>4. exact' \subseteq {i \in Levels : entry'[i] = "dir"}
        BY <2>0, <3>0 DEF MkDirsTypeOK
      <4> QED BY <2>0, <3>0, <4>1, <4>2, <4>3, <4>4 DEF MkDirsTypeOK, Places
    <3>2. PathInv'
      BY <2>0, <2>a, <3>0 DEF MkDirsTypeOK, PathInv
    <3>3. MaskInv'
      BY <2>0, <2>a, <3>0 DEF MkDirsTypeOK, MaskInv
    <3>4. BitsAreExact'
      BY <2>0, <2>a, <3>0 DEF MkDirsTypeOK, BitsAreExact
    <3>5. RaceInv'
      BY <2>0, <2>a, <3>0 DEF MkDirsTypeOK, PathInv, RaceInv
    <3> QED BY <3>1, <3>2, <3>3, <3>4, <3>5 DEF MkInv
  <2>b. CASE entry[level[p]] # "none" /\ level[p] < Depth
    <3>0. pc' = [pc EXCEPT ![p] = "mkdir"] /\ level' = [level EXCEPT ![p] = level[p] + 1]
      BY <1>3, <2>0, <2>b DEF Stat, Goto
    <3>1. MkDirsTypeOK'
      <4>1. level' \in [Processes -> Levels] /\ pc' \in [Processes -> Places]
        BY <2>0, <2>b, <3>0 DEF MkDirsTypeOK, Places
      <4>2. entry' \in [Levels -> {"none", "dir", "file"}]
        BY <2>0, <3>0 DEF MkDirsTypeOK
      <4>3. \A i \in Levels : i > 1 /\ entry'[i] # "none" => entry'[i - 1] = "dir"
        BY <2>0, <2>b, <3>0 DEF MkDirsTypeOK
      <4>4. exact' \subseteq {i \in Levels : entry'[i] = "dir"}
        BY <2>0, <3>0 DEF MkDirsTypeOK
      <4> QED BY <2>0, <3>0, <4>1, <4>2, <4>3, <4>4 DEF MkDirsTypeOK, Places
    <3>2. PathInv'
      BY <2>0, <2>b, <3>0 DEF MkDirsTypeOK, PathInv
    <3>3. MaskInv'
      BY <2>0, <2>b, <3>0 DEF MkDirsTypeOK, MaskInv
    <3>4. BitsAreExact'
      BY <2>0, <2>b, <3>0 DEF MkDirsTypeOK, BitsAreExact
    <3>5. RaceInv'
      BY <2>0, <2>b, <3>0 DEF MkDirsTypeOK, PathInv, RaceInv
    <3> QED BY <3>1, <3>2, <3>3, <3>4, <3>5 DEF MkInv
  <2>c. CASE entry[level[p]] = "none" /\ level[p] > 1
    <3>0. pc' = pc /\ level' = [level EXCEPT ![p] = level[p] - 1]
      BY <1>3, <2>0, <2>c DEF Stat, Goto
    <3>1. MkDirsTypeOK'
      <4>1. level' \in [Processes -> Levels] /\ pc' \in [Processes -> Places]
        BY <2>0, <2>c, <3>0 DEF MkDirsTypeOK, Places
      <4>2. entry' \in [Levels -> {"none", "dir", "file"}]
        BY <2>0, <3>0 DEF MkDirsTypeOK
      <4>3. \A i \in Levels : i > 1 /\ entry'[i] # "none" => entry'[i - 1] = "dir"
        BY <2>0, <2>c, <3>0 DEF MkDirsTypeOK
      <4>4. exact' \subseteq {i \in Levels : entry'[i] = "dir"}
        BY <2>0, <3>0 DEF MkDirsTypeOK
      <4> QED BY <2>0, <3>0, <4>1, <4>2, <4>3, <4>4 DEF MkDirsTypeOK, Places
    <3>2. PathInv'
      BY <2>0, <2>c, <3>0 DEF MkDirsTypeOK, PathInv
    <3>3. MaskInv'
      BY <2>0, <2>c, <3>0 DEF MkDirsTypeOK, MaskInv
    <3>4. BitsAreExact'
      BY <2>0, <2>c, <3>0 DEF MkDirsTypeOK, BitsAreExact
    <3>5. RaceInv'
      BY <2>0, <2>c, <3>0 DEF MkDirsTypeOK, PathInv, RaceInv
    <3> QED BY <3>1, <3>2, <3>3, <3>4, <3>5 DEF MkInv
  <2>d. CASE entry[level[p]] = "none" /\ level[p] = 1
    <3>0. pc' = [pc EXCEPT ![p] = "mkdir"] /\ level' = level
      BY <1>3, <2>0, <2>d DEF Stat, Goto
    <3>1. MkDirsTypeOK'
      <4>1. level' \in [Processes -> Levels] /\ pc' \in [Processes -> Places]
        BY <2>0, <2>d, <3>0 DEF MkDirsTypeOK, Places
      <4>2. entry' \in [Levels -> {"none", "dir", "file"}]
        BY <2>0, <3>0 DEF MkDirsTypeOK
      <4>3. \A i \in Levels : i > 1 /\ entry'[i] # "none" => entry'[i - 1] = "dir"
        BY <2>0, <2>d, <3>0 DEF MkDirsTypeOK
      <4>4. exact' \subseteq {i \in Levels : entry'[i] = "dir"}
        BY <2>0, <3>0 DEF MkDirsTypeOK
      <4> QED BY <2>0, <3>0, <4>1, <4>2, <4>3, <4>4 DEF MkDirsTypeOK, Places
    <3>2. PathInv'
      BY <2>0, <2>d, <3>0 DEF MkDirsTypeOK, PathInv
    <3>3. MaskInv'
      BY <2>0, <2>d, <3>0 DEF MkDirsTypeOK, MaskInv
    <3>4. BitsAreExact'
      BY <2>0, <2>d, <3>0 DEF MkDirsTypeOK, BitsAreExact
    <3>5. RaceInv'
      BY <2>0, <2>d, <3>0 DEF MkDirsTypeOK, PathInv, RaceInv
    <3> QED BY <3>1, <3>2, <3>3, <3>4, <3>5 DEF MkInv
  <2> QED BY <2>0, <2>a, <2>b, <2>c, <2>d
<1>4. ASSUME NEW p \in Processes, Mkdir(p) PROVE MkInv'
  <2>0. /\ level[p] \in Levels /\ umask[p] = "zero"
        /\ pc[p] = "mkdir"
        /\ UNCHANGED <<umask, old_mask, calls, res, rechecked, faults>>
    BY <1>4 DEF Mkdir, MkDirsTypeOK, MaskInv
  <2>a. CASE CanMake(level[p]) /\ level[p] < Depth
    <3>0. /\ entry' = [entry EXCEPT ![level[p]] = "dir"] /\ exact' = exact \cup {level[p]}
          /\ entry[level[p]] = "none" /\ (level[p] > 1 => entry[level[p] - 1] = "dir")
          /\ pc' = pc /\ level' = [level EXCEPT ![p] = level[p] + 1]
      BY <1>4, <2>0, <2>a DEF Mkdir, AfterMkdir, Goto, CanMake
    <3>1. MkDirsTypeOK'
      <4>1. level' \in [Processes -> Levels] /\ pc' \in [Processes -> Places]
        BY <2>0, <2>a, <3>0 DEF MkDirsTypeOK, Places
      <4>2. entry' \in [Levels -> {"none", "dir", "file"}]
        BY <2>0, <3>0 DEF MkDirsTypeOK
      <4>3. \A i \in Levels : i > 1 /\ entry'[i] # "none" => entry'[i - 1] = "dir"
        BY <2>0, <2>a, <3>0 DEF MkDirsTypeOK
      <4>4. exact' \subseteq {i \in Levels : entry'[i] = "dir"}
        BY <2>0, <3>0 DEF MkDirsTypeOK
      <4> QED BY <2>0, <3>0, <4>1, <4>2, <4>3, <4>4 DEF MkDirsTypeOK, Places
    <3>2. PathInv'
      BY <2>0, <2>a, <3>0 DEF MkDirsTypeOK, PathInv
    <3>3. MaskInv'
      BY <2>0, <2>a, <3>0 DEF MkDirsTypeOK, MaskInv
    <3>4. BitsAreExact'
      BY <2>0, <2>a, <3>0 DEF MkDirsTypeOK, BitsAreExact
    <3>5. RaceInv'
      BY <2>0, <2>a, <3>0 DEF MkDirsTypeOK, PathInv, RaceInv
    <3> QED BY <3>1, <3>2, <3>3, <3>4, <3>5 DEF MkInv
  <2>b. CASE CanMake(level[p]) /\ level[p] = Depth
    <3>0. /\ entry' = [entry EXCEPT ![level[p]] = "dir"] /\ exact' = exact \cup {level[p]}
          /\ entry[level[p]] = "none" /\ (level[p] > 1 => entry[level[p] - 1] = "dir")
          /\ pc' = [pc EXCEPT ![p] = "restore"] /\ level' = level
      BY <1>4, <2>0, <2>b DEF Mkdir, AfterMkdir, Goto, CanMake
    <3>1. MkDirsTypeOK'
      <4>1. level' \in [Processes -> Levels] /\ pc' \in [Processes -> Places]
        BY <2>0, <2>b, <3>0 DEF MkDirsTypeOK, Places
      <4>2. entry' \in [Levels -> {"none", "dir", "file"}]
        BY <2>0, <3>0 DEF MkDirsTypeOK
      <4>3. \A i \in Levels : i > 1 /\ entry'[i] # "none" => entry'[i - 1] = "dir"
        BY <2>0, <2>b, <3>0 DEF MkDirsTypeOK
      <4>4. exact' \subseteq {i \in Levels : entry'[i] = "dir"}
        BY <2>0, <3>0 DEF MkDirsTypeOK
      <4> QED BY <2>0, <3>0, <4>1, <4>2, <4>3, <4>4 DEF MkDirsTypeOK, Places
    <3>2. PathInv'
      <4> SUFFICES ASSUME NEW i \in Levels, NEW j \in Levels, i < j, entry'[j] # "none"
                   PROVE  entry'[i] = "dir"
        BY DEF PathInv
      <4>1. CASE j = level[p]
        <5>1. level[p] - 1 \in Levels /\ entry[level[p] - 1] = "dir"
          BY <2>0, <4>1, <3>0
        <5>2. i = level[p] - 1 \/ i < level[p] - 1
          BY <2>0, <4>1
        <5> QED BY <2>0, <3>0, <4>1, <5>1, <5>2 DEF MkDirsTypeOK, PathInv
      <4>2. CASE j # level[p]
        BY <2>0, <3>0, <4>2 DEF MkDirsTypeOK, PathInv
      <4> QED BY <4>1, <4>2
    <3>3. MaskInv'
      BY <2>0, <2>b, <3>0 DEF MkDirsTypeOK, MaskInv
    <3>4. BitsAreExact'
      BY <2>0, <2>b, <3>0 DEF MkDirsTypeOK, BitsAreExact
    <3>5. RaceInv'
      BY <2>0, <2>b, <3>0 DEF MkDirsTypeOK, PathInv, RaceInv
    <3> QED BY <3>1, <3>2, <3>3, <3>4, <3>5 DEF MkInv
  <2>c. CASE ~CanMake(level[p]) /\ level[p] < Depth
    <3>0. /\ entry' = entry /\ exact' = exact
          /\ entry[level[p]] # "none" \/ (level[p] > 1 /\ entry[level[p] - 1] # "dir")
          /\ pc' = pc /\ level' = [level EXCEPT ![p] = level[p] + 1]
      BY <1>4, <2>0, <2>c DEF Mkdir, AfterMkdir, Goto, CanMake, dirs
    <3>1. MkDirsTypeOK'
      <4>1. level' \in [Processes -> Levels] /\ pc' \in [Processes -> Places]
        BY <2>0, <2>c, <3>0 DEF MkDirsTypeOK, Places
      <4>2. entry' \in [Levels -> {"none", "dir", "file"}]
        BY <2>0, <3>0 DEF MkDirsTypeOK
      <4>3. \A i \in Levels : i > 1 /\ entry'[i] # "none" => entry'[i - 1] = "dir"
        BY <2>0, <2>c, <3>0 DEF MkDirsTypeOK
      <4>4. exact' \subseteq {i \in Levels : entry'[i] = "dir"}
        BY <2>0, <3>0 DEF MkDirsTypeOK
      <4> QED BY <2>0, <3>0, <4>1, <4>2, <4>3, <4>4 DEF MkDirsTypeOK, Places
    <3>2. PathInv'
      BY <2>0, <2>c, <3>0 DEF MkDirsTypeOK, PathInv
    <3>3. MaskInv'
      BY <2>0, <2>c, <3>0 DEF MkDirsTypeOK, MaskInv
    <3>4. BitsAreExact'
      BY <2>0, <2>c, <3>0 DEF MkDirsTypeOK, BitsAreExact
    <3>5. RaceInv'
      BY <2>0, <2>c, <3>0 DEF MkDirsTypeOK, PathInv, RaceInv
    <3> QED BY <3>1, <3>2, <3>3, <3>4, <3>5 DEF MkInv
  <2>d. CASE ~CanMake(level[p]) /\ level[p] = Depth
    <3>0. /\ entry' = entry /\ exact' = exact
          /\ entry[level[p]] # "none" \/ (level[p] > 1 /\ entry[level[p] - 1] # "dir")
          /\ pc' = [pc EXCEPT ![p] = "recheck"] /\ level' = level
      BY <1>4, <2>0, <2>d DEF Mkdir, AfterMkdir, Goto, CanMake, dirs
    <3>1. MkDirsTypeOK'
      <4>1. level' \in [Processes -> Levels] /\ pc' \in [Processes -> Places]
        BY <2>0, <2>d, <3>0 DEF MkDirsTypeOK, Places
      <4>2. entry' \in [Levels -> {"none", "dir", "file"}]
        BY <2>0, <3>0 DEF MkDirsTypeOK
      <4>3. \A i \in Levels : i > 1 /\ entry'[i] # "none" => entry'[i - 1] = "dir"
        BY <2>0, <2>d, <3>0 DEF MkDirsTypeOK
      <4>4. exact' \subseteq {i \in Levels : entry'[i] = "dir"}
        BY <2>0, <3>0 DEF MkDirsTypeOK
      <4> QED BY <2>0, <3>0, <4>1, <4>2, <4>3, <4>4 DEF MkDirsTypeOK, Places
    <3>2. PathInv'
      BY <2>0, <2>d, <3>0 DEF MkDirsTypeOK, PathInv
    <3>3. MaskInv'
      BY <2>0, <2>d, <3>0 DEF MkDirsTypeOK, MaskInv
    <3>4. BitsAreExact'
      BY <2>0, <2>d, <3>0 DEF MkDirsTypeOK, BitsAreExact
    <3>5. RaceInv'
      BY <2>0, <2>d, <3>0 DEF MkDirsTypeOK, PathInv, RaceInv
    <3> QED BY <3>1, <3>2, <3>3, <3>4, <3>5 DEF MkInv
  <2> QED BY <2>0, <2>a, <2>b, <2>c, <2>d
<1>5. ASSUME NEW p \in Processes, MkdirFails(p) PROVE MkInv'
  <2>0. /\ level[p] \in Levels
        /\ pc[p] = "mkdir"
        /\ faults' = faults + 1 /\ faults' \in 0..MaxFaults /\ faults' # 0
        /\ UNCHANGED <<entry, exact, umask, old_mask, calls, res, rechecked>>
    BY <1>5 DEF MkdirFails, MkDirsTypeOK, dirs
  <2>a. CASE level[p] < Depth
    <3>0. /\ pc' = pc /\ level' = [level EXCEPT ![p] = level[p] + 1]
      BY <1>5, <2>0, <2>a DEF MkdirFails, AfterMkdir, Goto
    <3>1. MkDirsTypeOK'
      <4>1. level' \in [Processes -> Levels] /\ pc' \in [Processes -> Places]
        BY <2>0, <2>a, <3>0 DEF MkDirsTypeOK, Places
      <4>2. entry' \in [Levels -> {"none", "dir", "file"}]
        BY <2>0, <3>0 DEF MkDirsTypeOK
      <4>3. \A i \in Levels : i > 1 /\ entry'[i] # "none" => entry'[i - 1] = "dir"
        BY <2>0, <2>a, <3>0 DEF MkDirsTypeOK
      <4>4. exact' \subseteq {i \in Levels : entry'[i] = "dir"}
        BY <2>0, <3>0 DEF MkDirsTypeOK
      <4> QED BY <2>0, <3>0, <4>1, <4>2, <4>3, <4>4 DEF MkDirsTypeOK, Places
    <3>2. PathInv'
      BY <2>0, <2>a, <3>0 DEF MkDirsTypeOK, PathInv
    <3>3. MaskInv'
      BY <2>0, <2>a, <3>0 DEF MkDirsTypeOK, MaskInv
    <3>4. BitsAreExact'
      BY <2>0, <2>a, <3>0 DEF MkDirsTypeOK, BitsAreExact
    <3>5. RaceInv'
      BY <2>0, <2>a, <3>0 DEF MkDirsTypeOK, PathInv, RaceInv
    <3> QED BY <3>1, <3>2, <3>3, <3>4, <3>5 DEF MkInv
  <2>b. CASE level[p] = Depth
    <3>0. /\ pc' = [pc EXCEPT ![p] = "recheck"] /\ level' = level
      BY <1>5, <2>0, <2>b DEF MkdirFails, AfterMkdir, Goto
    <3>1. MkDirsTypeOK'
      <4>1. level' \in [Processes -> Levels] /\ pc' \in [Processes -> Places]
        BY <2>0, <2>b, <3>0 DEF MkDirsTypeOK, Places
      <4>2. entry' \in [Levels -> {"none", "dir", "file"}]
        BY <2>0, <3>0 DEF MkDirsTypeOK
      <4>3. \A i \in Levels : i > 1 /\ entry'[i] # "none" => entry'[i - 1] = "dir"
        BY <2>0, <2>b, <3>0 DEF MkDirsTypeOK
      <4>4. exact' \subseteq {i \in Levels : entry'[i] = "dir"}
        BY <2>0, <3>0 DEF MkDirsTypeOK
      <4> QED BY <2>0, <3>0, <4>1, <4>2, <4>3, <4>4 DEF MkDirsTypeOK, Places
    <3>2. PathInv'
      BY <2>0, <2>b, <3>0 DEF MkDirsTypeOK, PathInv
    <3>3. MaskInv'
      BY <2>0, <2>b, <3>0 DEF MkDirsTypeOK, MaskInv
    <3>4. BitsAreExact'
      BY <2>0, <2>b, <3>0 DEF MkDirsTypeOK, BitsAreExact
    <3>5. RaceInv'
      BY <2>0, <2>b, <3>0 DEF MkDirsTypeOK, PathInv, RaceInv
    <3> QED BY <3>1, <3>2, <3>3, <3>4, <3>5 DEF MkInv
  <2> QED BY <2>0, <2>a, <2>b
<1>6. ASSUME NEW p \in Processes, Recheck(p) PROVE MkInv'
  <2> USE <1>6 DEF Recheck, Return, Goto, Found, dirs
  <2>1. MkDirsTypeOK'
    BY DEF MkDirsTypeOK
  <2>2. PathInv'
    BY DEF MkDirsTypeOK, PathInv
  <2>3. MaskInv'
    BY DEF MkDirsTypeOK, MaskInv
  <2>4. BitsAreExact'
    BY DEF MkDirsTypeOK, BitsAreExact
  <2>5. RaceInv'
    BY DEF MkDirsTypeOK, PathInv, RaceInv
  <2> QED BY <2>1, <2>2, <2>3, <2>4, <2>5 DEF MkInv
<1>7. ASSUME NEW p \in Processes, Restore(p) PROVE MkInv'
  <2> USE <1>7 DEF Restore, Return, Goto, dirs
  <2>1. MkDirsTypeOK'
    BY DEF MkDirsTypeOK
  <2>2. PathInv'
    BY DEF MkDirsTypeOK, PathInv
  <2>3. MaskInv'
    BY DEF MkDirsTypeOK, MaskInv
  <2>4. BitsAreExact'
    BY DEF MkDirsTypeOK, BitsAreExact
  <2>5. RaceInv'
    BY DEF MkDirsTypeOK, PathInv, RaceInv
  <2> QED BY <2>1, <2>2, <2>3, <2>4, <2>5 DEF MkInv
<1>8. ASSUME FileAppears PROVE MkInv'
  <2> USE <1>8 DEF FileAppears, CanMake
  <2>1. MkDirsTypeOK'
    BY DEF MkDirsTypeOK
  <2>2. PathInv'
    BY DEF MkDirsTypeOK, PathInv
  <2>3. MaskInv'
    BY DEF MkDirsTypeOK, MaskInv
  <2>4. BitsAreExact'
    BY DEF MkDirsTypeOK, BitsAreExact
  <2>5. RaceInv'
    BY DEF MkDirsTypeOK, PathInv, RaceInv
  <2> QED BY <2>1, <2>2, <2>3, <2>4, <2>5 DEF MkInv
<1>9. CASE UNCHANGED MkDirsVars
  BY <1>9 DEF MkDirsVars, MkInv, MkDirsTypeOK, PathInv, MaskInv, BitsAreExact, RaceInv
<1> HIDE <1>0
<1> QED
  BY <1>1, <1>2, <1>3, <1>4, <1>5, <1>6, <1>7, <1>8, <1>9 DEF MkDirsNext, Step

\* The invariant holds in every behaviour.
LEMMA MkInvariant == MkDirsSpec => []MkInv
<1> QED BY MkInit, MkStep, PTL DEF MkDirsSpec

\* Directories are made with the bits that were asked for, also where several
\* processes make the same path, and the umask comes back, except to a caller
\* that has once left mkdir_as_needed() through the second stat().
THEOREM UmaskIsSound == MkDirsSpec => []UmaskSound
<1>1. MkInv => UmaskSound
  BY DEF MkInv, UmaskSound, UmaskRestored, MaskInv
<1> QED BY <1>1, MkInvariant, PTL

\* No race of dyad_init() in any number of processes makes mkdir_as_needed()
\* fail or return before the whole path is there.
THEOREM RacersSucceed == MkDirsSpec => []RacersGetDirectory
<1>1. MkInv => RacersGetDirectory
  <2> SUFFICES ASSUME MkInv, Undisturbed, NEW p \in Processes
               PROVE  /\ res[p] # "negative"
                      /\ res[p] = "usable" => \A i \in Levels : entry[i] = "dir"
    BY DEF RacersGetDirectory, Undisturbed
  <2>1. res[p] # "negative" /\ (res[p] = "usable" => entry[Depth] = "dir")
    BY DEF MkInv, RaceInv
  <2>2. ASSUME entry[Depth] = "dir", NEW i \in Levels PROVE entry[i] = "dir"
    BY <2>2, MkDirsAssumption DEF MkInv, PathInv, Levels
  <2> QED BY <2>1, <2>2
<1> QED BY <1>1, MkInvariant, PTL
=============================================================================
