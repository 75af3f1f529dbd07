-------------------------- MODULE CacheEvict_proofs --------------------------
(***************************************************************************)
(* Proofs about the eviction of a managed directory, for any processes,    *)
(* files, capacity, watermark, policy and grace period, and with or        *)
(* without calls that fail: what an evictor may take, and what is left     *)
(* once everybody has returned.                                            *)
(***************************************************************************)
EXTENDS CacheEvict, TLAPS, FiniteSetTheorems

InConsumption == {"lock", "size", "fetch", "store", "write", "publish", "scan",
                  "dirlock", "rescan", "victim", "try", "unlink", "read"}
InRange == {"rlook", "rexcl", "rfetch", "rrecord", "rread"}

\* A process past its open() has a file and a generation of it that exists.
CallOf(p) ==
    /\ pc[p] = "idle" => call[p].since = -1
    /\ pc[p] = "meta" => call[p].name \in Files /\ call[p].since = -1
    /\ pc[p] \in InConsumption =>
        call[p].name \in Files \cup LocalFiles /\ call[p].fd \in 1..last[call[p].name]
    /\ pc[p] = "write" => call[p].wfd \in 1..last[call[p].name]
    /\ pc[p] \in InRange =>
        /\ call[p].name \in RangeFiles /\ call[p].since = -1
        /\ call[p].fd \in 1..last[Bitmap(call[p].name)]

\* A consumer between its lock and its release has the lock.
LockOf(p) ==
    pc[p] \in {"size", "fetch", "store", "write"} => ino[call[p].name][call[p].fd].lock = p

\* One evictor at a time: what its victim's name leads to stays the inode that
\* it has opened, and locked before unlink().
EvictorOf(p) ==
    /\ pc[p] \in {"rescan", "victim", "try", "unlink"} => dirlock = p
    /\ pc[p] \in {"try", "unlink"} =>
        /\ pass[p].name \in Names /\ pass[p].gen # 0
        /\ dir[pass[p].name] = pass[p].gen
        /\ pass[p].total > 0
    /\ pc[p] = "unlink" => ino[pass[p].name][pass[p].gen].lock = p

\* Process p has created the file n, and its name still leads to it.
Made(p, n) == call[p].since # -1 /\ call[p].name = n /\ dir[n] = call[p].fd

\* What an evictor knows of the files that others have just made: a candidate
\* was in the directory at the scan and still is, each name is a candidate once,
\* and the access time the scan has seen is not before the creation.
ScanOf(p) ==
    pc[p] \in {"victim", "try", "unlink"} =>
        /\ pass[p].started <= now
        /\ \A e \in pass[p].entries :
            /\ dir[e.name] # 0
            /\ \A x \in pass[p].entries : x.name = e.name => x = e
            /\ pc[p] # "victim" => e.name # pass[p].name
            /\ \A q \in Procs : Made(q, e.name) => call[q].since <= e.atime
        /\ pc[p] # "victim" => \A q \in Procs :
            Made(q, pass[p].name) => now - call[q].since >= grace

\* Access times do not go back behind the creation.
AtimeOf(p) ==
    call[p].since # -1 =>
        /\ call[p].since <= now
        /\ call[p].since <= ino[call[p].name][call[p].fd].atime

\* What a process has created is in the directory for the grace period.
GraceOf(p) ==
    pc[p] \in InConsumption /\ call[p].since # -1 /\ now - call[p].since < grace =>
        dir[call[p].name] = call[p].fd

InvOf(p) == CallOf(p) /\ LockOf(p) /\ EvictorOf(p) /\ ScanOf(p) /\ AtimeOf(p) /\ GraceOf(p)

\* No file was used at a time to come.
TimesInv == \A n \in Names, g \in Gen : ino[n][g].atime <= now

EvictInv == TypeOK /\ TimesInv /\ \A p \in Procs : InvOf(p)

-----------------------------------------------------------------------------
\* What the step of a process may do to the inodes that exist: it leaves the
\* locks of other processes alone and no access time goes back.
InodesKept(p) ==
    \A n \in Names : \A g \in 1..last[n] :
        /\ ino[n][g].lock \in Procs \ {p} => ino'[n][g].lock = ino[n][g].lock
        /\ ino[n][g].atime <= ino'[n][g].atime

\* To the names: it gives a name that leads nowhere a new inode, or takes away
\* the name of its victim.
NamesKept(p) ==
    \A n \in Names :
        /\ last'[n] \in Nat /\ last[n] <= last'[n]
        /\ \/ dir'[n] = dir[n]
           \/ dir[n] = 0 /\ dir'[n] = last[n] + 1
           \/ pc[p] = "unlink" /\ n = pass[p].name /\ dir'[n] = 0

\* To the lock of the directory, to its own call and to the variables of others.
OthersKept(p) ==
    /\ now' = now /\ grace' = grace
    /\ dirlock' = dirlock \/ {dirlock, dirlock'} \subseteq {None, p}
    /\ \A q \in Procs \ {p} : pc'[q] = pc[q] /\ call'[q] = call[q] /\ pass'[q] = pass[q]

\* A file is made only where there was none.
CallKept(p) ==
    \/ call'[p].since = -1
    \/ /\ call'[p].since = call[p].since
       /\ call'[p].name = call[p].name
       /\ call'[p].fd = call[p].fd
    \/ dir[call'[p].name] = 0

Move(p) == InodesKept(p) /\ NamesKept(p) /\ OthersKept(p) /\ CallKept(p) /\ TimesInv'

\* The constants, as the steps need them.
LEMMA Constants ==
    /\ Capacity \in Nat /\ Low \in Nat /\ MaxGen \in Nat \ {0} /\ MaxCalls \in Nat /\ MaxTime \in Nat
    /\ Files \subseteq Names /\ RangeFiles \subseteq Names /\ LocalFiles \subseteq Names
    /\ \A r \in RangeFiles : Bitmap(r) \in Names
    /\ None \notin Procs
    /\ NoCall \in Call /\ NoCall.since = -1
    /\ Cardinality(Names) \in Nat
<1>1. NoCall \in Call /\ NoCall.since = -1
  BY EvictAssumption DEF NoCall, Call
<1>2. Cardinality(Names) \in Nat
  BY EvictAssumption, FS_CardinalityType
<1> QED BY <1>1, <1>2, EvictAssumption DEF Names

\* What the step of one process leaves of the invariant of another.
LEMMA OthersHold ==
    ASSUME EvictInv, TypeOK', NEW p \in Procs, Move(p), NEW q \in Procs \ {p}
    PROVE  InvOf(q)'
<1> USE Constants DEF EvictInv, InvOf, Move
<1>1. TypeOK /\ InvOf(q) /\ InvOf(p) /\ q \in Procs /\ q # p
  OBVIOUS
<1>2. /\ pc'[q] = pc[q] /\ call'[q] = call[q] /\ pass'[q] = pass[q]
      /\ now' = now /\ grace' = grace /\ now \in Time /\ grace \in Nat
  BY EvictAssumption DEF OthersKept, TypeOK, conf
<1>a. /\ \A n \in Names : last[n] \in 0..MaxGen /\ dir[n] \in 0..MaxGen
      /\ \A n \in Names : \A g \in Gen : ino[n][g].atime \in Time /\ ino'[n][g].atime \in Time
  BY DEF TypeOK, Inode
<1>b. /\ pc[q] \in Pcs /\ call[q].since \in Int /\ Pcs = InConsumption \cup InRange \cup {"idle", "meta"}
      /\ pass[p].name \in Names \cup {None} /\ pass[q].name \in Names \cup {None}
  BY <1>1 DEF TypeOK, Pass, Call, Pcs, InConsumption, InRange, Time
<1>c. \A n \in Names : \A g \in 1..last[n] : g \in 1..last'[n] /\ g \in Gen /\ g # 0
  BY <1>a DEF NamesKept, Gen
<1>3. CallOf(q)'
  <2>1. pc[q] \in InConsumption => CallOf(q)'
    BY <1>1, <1>2, <1>c DEF CallOf, InConsumption, InRange
  <2>2. pc[q] \in InRange => CallOf(q)'
    BY <1>1, <1>2, <1>c DEF CallOf, InConsumption, InRange
  <2>3. pc[q] \in {"idle", "meta"} => CallOf(q)'
    BY <1>1, <1>2 DEF CallOf, InConsumption, InRange
  <2> QED BY <1>b, <2>1, <2>2, <2>3
<1>4. LockOf(q)'
  BY <1>1, <1>2 DEF CallOf, LockOf, InodesKept, InConsumption
<1>5. pc[q] \in {"rescan", "victim", "try", "unlink"} =>
        dirlock = q /\ dirlock' = q /\ pc[p] \notin {"rescan", "victim", "try", "unlink"}
  BY <1>1, <1>2 DEF EvictorOf, OthersKept
<1>6. EvictorOf(q)'
  <2>1. pc[q] \in {"try", "unlink"} => dir'[pass[q].name] = dir[pass[q].name]
    BY <1>1, <1>5 DEF EvictorOf, NamesKept
  <2>2. pc[q] \in {"try", "unlink"} => pass[q].gen \in 1..last[pass[q].name]
    BY <1>1, <1>a DEF EvictorOf, TypeOK
  <2>3. pc[q] = "unlink" => ino'[pass[q].name][pass[q].gen].lock = q
    BY <1>1, <2>2 DEF EvictorOf, InodesKept
  <2> QED BY <1>1, <1>2, <1>5, <2>1, <2>3 DEF EvictorOf
<1>7. ScanOf(q)'
  <2> SUFFICES ASSUME pc[q] \in {"victim", "try", "unlink"} PROVE ScanOf(q)'
    BY <1>2 DEF ScanOf
  <2>1. ASSUME NEW n \in Names, dir[n] # 0, NEW r \in Procs
        PROVE  /\ dir'[n] = dir[n]
               /\ Made(r, n)' => Made(r, n) /\ call'[r].since = call[r].since
    BY <1>5, <2>1 DEF Made, NamesKept, OthersKept, CallKept
  <2>2. \A e \in pass[q].entries : e.name \in Names
    BY DEF TypeOK, Pass, Entry
  <2>3. /\ pass[q].started <= now
        /\ \A e \in pass[q].entries :
            /\ dir[e.name] # 0
            /\ \A x \in pass[q].entries : x.name = e.name => x = e
            /\ pc[q] # "victim" => e.name # pass[q].name
            /\ \A r \in Procs : Made(r, e.name) => call[r].since <= e.atime
        /\ pc[q] # "victim" => \A r \in Procs :
            Made(r, pass[q].name) => now - call[r].since >= grace
    BY <1>1 DEF ScanOf
  <2>4. pc[q] # "victim" => pass[q].name \in Names /\ dir[pass[q].name] # 0
    BY <1>1 DEF EvictorOf
  <2>5. \A e \in pass[q].entries :
          dir'[e.name] # 0 /\ \A r \in Procs : Made(r, e.name)' => call'[r].since <= e.atime
    BY <2>1, <2>2, <2>3
  <2>6. pc[q] # "victim" => \A r \in Procs :
            Made(r, pass[q].name)' => now - call'[r].since >= grace
    <3>1. PICK n : n = pass[q].name
      OBVIOUS
    <3>2. pc[q] # "victim" => \A r \in Procs : Made(r, n)' => now - call'[r].since >= grace
      BY <2>1, <2>3, <2>4, <3>1
    <3> QED BY <1>2, <3>1, <3>2 DEF Made
  <2> QED BY <1>2, <2>3, <2>5, <2>6 DEF ScanOf
<1>8. AtimeOf(q)'
  <2> SUFFICES ASSUME call[q].since # -1 PROVE AtimeOf(q)'
    BY <1>2 DEF AtimeOf
  <2>1. pc[q] \in InConsumption
    BY <1>1, <1>b DEF CallOf
  <2>2. call[q].name \in Names /\ call[q].fd \in 1..last[call[q].name]
    BY <1>1, <2>1 DEF CallOf
  <2>3. ino[call[q].name][call[q].fd].atime <= ino'[call[q].name][call[q].fd].atime
    BY <2>2 DEF InodesKept
  <2> QED BY <1>1, <1>2, <1>a, <1>b, <1>c, <2>2, <2>3 DEF AtimeOf, Time
<1>9. GraceOf(q)'
  <2> SUFFICES ASSUME pc[q] \in InConsumption, call[q].since # -1, now - call[q].since < grace
               PROVE  dir'[call[q].name] = call[q].fd
    BY <1>2 DEF GraceOf
  <2>1. call[q].name \in Names /\ call[q].fd \in 1..last[call[q].name]
    BY <1>1 DEF CallOf
  <2>2. dir[call[q].name] = call[q].fd /\ call[q].fd # 0
    BY <1>1, <2>1, <1>c DEF GraceOf
  <2>3. ~(pc[p] = "unlink" /\ call[q].name = pass[p].name)
    BY <1>1, <1>2, <1>b, <2>2 DEF ScanOf, Made, Time
  <2> QED BY <2>1, <2>2, <2>3 DEF NamesKept
<1> QED BY <1>3, <1>4, <1>6, <1>7, <1>8, <1>9

-----------------------------------------------------------------------------
\* What the actions of a process have to show.
Good(p) == TypeOK' /\ Move(p) /\ InvOf(p)'

\* The state of one process, and the names and inodes there are.
Placed(p) ==
    /\ TypeOK /\ TimesInv /\ InvOf(p)
    /\ pc[p] \in Pcs /\ call[p] \in Call /\ calls \in Nat /\ now \in Time /\ grace \in Nat
    /\ \A n \in Names : dir[n] \in 0..MaxGen /\ last[n] \in 0..MaxGen /\ dir[n] \in {0, last[n]}
    /\ \A n \in Names, g \in Gen : ino[n][g] \in Inode
    /\ \A n \in Names : 1..last[n] \subseteq Gen

\* The invariant, as the step of one process needs it.
LEMMA Actor == EvictInv => \A p \in Procs : Placed(p)
<1> QED BY Constants, EvictAssumption DEF EvictInv, TypeOK, conf, Gen, Placed

\* A step that leaves the file system alone.
LEMMA StillMove ==
    ASSUME EvictInv, NEW p \in Procs, UNCHANGED fsVars, OthersKept(p), CallKept(p)
    PROVE  Move(p)
<1>1. InodesKept(p)
  BY Actor DEF Placed, InodesKept, Inode, Time, fsVars
<1>2. NamesKept(p)
  BY Actor DEF Placed, NamesKept, fsVars
<1>3. TimesInv'
  BY Actor DEF Placed, TimesInv, OthersKept, fsVars
<1> QED BY <1>1, <1>2, <1>3 DEF Move

\* The forms that a system call leaves an inode in.
LEMMA InodeForms ==
    ASSUME NEW i \in Inode, now \in Time
    PROVE  /\ i.atime \in Time /\ i.atime <= i.atime
           /\ \A p \in Procs \cup {None} :
                /\ [i EXCEPT !.lock = p] \in Inode
                /\ [i EXCEPT !.lock = p].lock = p
                /\ [i EXCEPT !.lock = p].atime = i.atime
           /\ Sized(i) \in Inode /\ Sized(i).lock = i.lock /\ Sized(i).atime = i.atime
           /\ [i EXCEPT !.atime = now] \in Inode
           /\ [i EXCEPT !.atime = now].lock = i.lock /\ [i EXCEPT !.atime = now].atime = now
           /\ Written(i) \in Inode /\ Written(i).lock = i.lock /\ Written(i).atime = i.atime
<1>1. i.atime \in Time /\ i.atime <= i.atime
  BY Constants DEF Inode, Time
<1>2. \A p \in Procs \cup {None} :
        /\ [i EXCEPT !.lock = p] \in Inode
        /\ [i EXCEPT !.lock = p].lock = p
        /\ [i EXCEPT !.lock = p].atime = i.atime
  BY DEF Inode
<1>3. Sized(i) \in Inode /\ Sized(i).lock = i.lock /\ Sized(i).atime = i.atime
  BY DEF Inode, Sized
<1>4. Written(i) \in Inode /\ Written(i).lock = i.lock /\ Written(i).atime = i.atime
  BY DEF Inode, Written
<1>5. [i EXCEPT !.atime = now] \in Inode /\ [i EXCEPT !.atime = now].lock = i.lock
      /\ [i EXCEPT !.atime = now].atime = now
  BY DEF Inode
<1> QED BY <1>1, <1>2, <1>3, <1>4, <1>5

\* Only a process in a call of its own has created a file.
LEMMA SinceOf ==
    ASSUME EvictInv, NEW p \in Procs, call[p].since # -1
    PROVE  /\ pc[p] \in InConsumption
           /\ call[p].name \in Names /\ call[p].fd \in Gen
           /\ call[p].since \in Time /\ ino[call[p].name][call[p].fd].atime \in Time
<1>1. pc[p] \in InConsumption
  BY Actor DEF Placed, InvOf, CallOf, Pcs, InConsumption, InRange
<1>2. call[p].name \in Names /\ call[p].fd \in Gen
  BY <1>1, Actor, Constants DEF Placed, InvOf, CallOf
<1> QED BY <1>1, <1>2, Actor DEF Placed, Call, Inode

\* A step that changes one inode.
LEMMA InodeMove ==
    ASSUME EvictInv, NEW p \in Procs, NEW n \in Names, NEW g \in Gen,
           \A m \in Names, h \in Gen : m # n \/ h # g => ino'[m][h] = ino[m][h],
           ino'[n][g].lock = ino[n][g].lock \/ ino[n][g].lock \in {None, p},
           ino[n][g].atime <= ino'[n][g].atime, ino'[n][g].atime <= now,
           UNCHANGED <<dir, last>>, OthersKept(p), CallKept(p)
    PROVE  Move(p)
<1>1. \A m \in Names, h \in Gen : ino[m][h].atime \in Time
  BY DEF EvictInv, TypeOK, Inode
<1>2. InodesKept(p)
  BY <1>1, Actor, Constants DEF Placed, InodesKept, Time
<1>3. NamesKept(p)
  BY Actor DEF Placed, NamesKept
<1>4. TimesInv'
  BY Actor DEF Placed, TimesInv, OthersKept
<1> QED BY <1>2, <1>3, <1>4 DEF Move

\* What open() and close() of a file leave.
LEMMA VisitedMove ==
    ASSUME EvictInv, NEW p \in Procs, NEW n \in Names, NEW t \in Time, t <= now,
           dir[n] # 0 => ino[n][dir[n]].atime <= t,
           ino' = Visited(n, p, t), UNCHANGED <<dir, last>>, OthersKept(p), CallKept(p)
    PROVE  Move(p) /\ ino' \in [Names -> [Gen -> Inode]]
<1>0. Placed(p)
  BY Actor
<1>1. CASE dir[n] = 0
  <2>1. ino' = ino
    BY <1>1 DEF Visited
  <2> QED BY <1>0, <2>1, StillMove DEF fsVars, Placed, TypeOK
<1>2. CASE dir[n] # 0
  <2>1. PICK g : g = dir[n]
    OBVIOUS
  <2>2. g \in Gen /\ ino[n][g] \in Inode /\ ino \in [Names -> [Gen -> Inode]]
    BY <1>0, <1>2, <2>1 DEF Placed, TypeOK, Gen
  <2>3. PICK i : i = Looked(ino[n][g], p, t)
    OBVIOUS
  <2>4. /\ i \in Inode /\ i.atime = t
        /\ i.lock = ino[n][g].lock \/ ino[n][g].lock \in {None, p}
    BY <2>2, <2>3 DEF Inode, Looked
  <2>6. /\ ino' \in [Names -> [Gen -> Inode]]
        /\ ino'[n][g] = i
        /\ \A m \in Names, h \in Gen : m # n \/ h # g => ino'[m][h] = ino[m][h]
    BY <1>2, <2>1, <2>2, <2>3, <2>4 DEF Visited
  <2> QED BY ONLY <1>2, <2>1, <2>2, <2>4, <2>6, InodeMove, EvictInv, p \in Procs, n \in Names, t <= now,
                  dir[n] # 0 => ino[n][dir[n]].atime <= t, UNCHANGED <<dir, last>>,
                  OthersKept(p), CallKept(p)
<1> QED BY <1>1, <1>2

\* An evictor that has nothing in hand.
LEMMA NoPassTyped ==
    NoPass \in Pass
<1> QED BY Constants DEF NoPass, Pass, Time

\* Steps that leave the file system alone and stay in the call.
LEMMA QuietSteps ==
    ASSUME EvictInv, NEW p \in Procs
    PROVE  /\ GetData(p) => Good(p)
           /\ Scan(p) => Good(p)
           /\ EvictFails(p) => Good(p)
           /\ DirLock(p) => Good(p)
           /\ EvictDone(p) => Good(p)
<1>0. Placed(p)
  BY Actor
<1> USE Constants, <1>0 DEF Placed, Good, Goto, fsVars, conf
<1>1. ASSUME GetData(p) PROVE Good(p)
  <2> USE <1>1 DEF GetData
  <2>1. TypeOK'
    BY DEF TypeOK, Pcs
  <2>2. Move(p)
    <3>1. OthersKept(p)
      <4>1. now' = now /\ grace' = grace
        OBVIOUS
      <4>2. dirlock' = dirlock \/ {dirlock, dirlock'} \subseteq {None, p}
        BY DEF InvOf, EvictorOf
      <4>3. \A q \in Procs \ {p} : pc'[q] = pc[q] /\ call'[q] = call[q] /\ pass'[q] = pass[q]
        BY DEF TypeOK
      <4> QED BY <4>1, <4>2, <4>3 DEF OthersKept
    <3>2. CallKept(p)
      BY DEF CallKept, TypeOK
    <3> QED BY <3>1, <3>2, StillMove
  <2>3. InvOf(p)'
    BY DEF TypeOK, InvOf, CallOf, LockOf, EvictorOf, ScanOf, AtimeOf, GraceOf, Made, InConsumption, InRange
  <2> QED BY <2>1, <2>2, <2>3
<1>2. ASSUME Scan(p) PROVE Good(p)
  <2> USE <1>2 DEF Scan
  <2>1. TypeOK'
    BY DEF TypeOK, Pcs
  <2>2. Move(p)
    <3>1. OthersKept(p)
      <4>1. now' = now /\ grace' = grace
        OBVIOUS
      <4>2. dirlock' = dirlock \/ {dirlock, dirlock'} \subseteq {None, p}
        BY DEF InvOf, EvictorOf
      <4>3. \A q \in Procs \ {p} : pc'[q] = pc[q] /\ call'[q] = call[q] /\ pass'[q] = pass[q]
        BY DEF TypeOK
      <4> QED BY <4>1, <4>2, <4>3 DEF OthersKept
    <3>2. CallKept(p)
      BY DEF CallKept, TypeOK
    <3> QED BY <3>1, <3>2, StillMove
  <2>3. InvOf(p)'
    BY DEF TypeOK, InvOf, CallOf, LockOf, EvictorOf, ScanOf, AtimeOf, GraceOf, Made, InConsumption, InRange
  <2> QED BY <2>1, <2>2, <2>3
<1>3. ASSUME EvictFails(p) PROVE Good(p)
  <2> USE <1>3 DEF EvictFails
  <2>1. TypeOK'
    BY DEF TypeOK, Pcs
  <2>2. Move(p)
    <3>1. OthersKept(p)
      <4>1. now' = now /\ grace' = grace
        OBVIOUS
      <4>2. dirlock' = dirlock \/ {dirlock, dirlock'} \subseteq {None, p}
        BY DEF InvOf, EvictorOf
      <4>3. \A q \in Procs \ {p} : pc'[q] = pc[q] /\ call'[q] = call[q] /\ pass'[q] = pass[q]
        BY DEF TypeOK
      <4> QED BY <4>1, <4>2, <4>3 DEF OthersKept
    <3>2. CallKept(p)
      BY DEF CallKept, TypeOK
    <3> QED BY <3>1, <3>2, StillMove
  <2>3. InvOf(p)'
    BY DEF TypeOK, InvOf, CallOf, LockOf, EvictorOf, ScanOf, AtimeOf, GraceOf, Made, InConsumption, InRange
  <2> QED BY <2>1, <2>2, <2>3
<1>4. ASSUME DirLock(p) PROVE Good(p)
  <2> USE <1>4 DEF DirLock
  <2>1. TypeOK'
    BY DEF TypeOK, Pcs
  <2>2. Move(p)
    <3>1. OthersKept(p)
      <4>1. now' = now /\ grace' = grace
        OBVIOUS
      <4>2. dirlock' = dirlock \/ {dirlock, dirlock'} \subseteq {None, p}
        BY DEF InvOf, EvictorOf
      <4>3. \A q \in Procs \ {p} : pc'[q] = pc[q] /\ call'[q] = call[q] /\ pass'[q] = pass[q]
        BY DEF TypeOK
      <4> QED BY <4>1, <4>2, <4>3 DEF OthersKept
    <3>2. CallKept(p)
      BY DEF CallKept, TypeOK
    <3> QED BY <3>1, <3>2, StillMove
  <2>3. InvOf(p)'
    BY DEF TypeOK, InvOf, CallOf, LockOf, EvictorOf, ScanOf, AtimeOf, GraceOf, Made, InConsumption, InRange
  <2> QED BY <2>1, <2>2, <2>3
<1>5. ASSUME EvictDone(p) PROVE Good(p)
  <2> USE <1>5 DEF EvictDone
  <2>1. TypeOK'
    BY DEF TypeOK, Pcs
  <2>2. Move(p)
    <3>1. OthersKept(p)
      <4>1. now' = now /\ grace' = grace
        OBVIOUS
      <4>2. dirlock' = dirlock \/ {dirlock, dirlock'} \subseteq {None, p}
        BY DEF InvOf, EvictorOf
      <4>3. \A q \in Procs \ {p} : pc'[q] = pc[q] /\ call'[q] = call[q] /\ pass'[q] = pass[q]
        BY DEF TypeOK
      <4> QED BY <4>1, <4>2, <4>3 DEF OthersKept
    <3>2. CallKept(p)
      BY DEF CallKept, TypeOK
    <3> QED BY <3>1, <3>2, StillMove
  <2>3. InvOf(p)'
    BY DEF TypeOK, InvOf, CallOf, LockOf, EvictorOf, ScanOf, AtimeOf, GraceOf, Made, InConsumption, InRange
  <2> QED BY <2>1, <2>2, <2>3
<1> QED BY <1>1, <1>2, <1>3, <1>4, <1>5

\* Steps that leave the file system alone and end the call.
LEMMA ErrorSteps ==
    ASSUME EvictInv, NEW p \in Procs
    PROVE  /\ OpenCopyFails(p) => Good(p)
           /\ RangeFetchFails(p) => Good(p)
           /\ RangeReadFails(p) => Good(p)
<1>0. Placed(p)
  BY Actor
<1> USE Constants, <1>0 DEF Placed, Good, Goto, fsVars, conf
<1>1. ASSUME OpenCopyFails(p) PROVE Good(p)
  <2> USE <1>1 DEF OpenCopyFails, Return
  <2>1. TypeOK'
    BY DEF TypeOK, Pcs
  <2>2. Move(p)
    <3>1. OthersKept(p)
      <4>1. now' = now /\ grace' = grace
        OBVIOUS
      <4>2. dirlock' = dirlock \/ {dirlock, dirlock'} \subseteq {None, p}
        BY DEF InvOf, EvictorOf
      <4>3. \A q \in Procs \ {p} : pc'[q] = pc[q] /\ call'[q] = call[q] /\ pass'[q] = pass[q]
        BY DEF TypeOK
      <4> QED BY <4>1, <4>2, <4>3 DEF OthersKept
    <3>2. CallKept(p)
      BY DEF CallKept, TypeOK
    <3> QED BY <3>1, <3>2, StillMove
  <2>3. InvOf(p)'
    BY DEF TypeOK, InvOf, CallOf, LockOf, EvictorOf, ScanOf, AtimeOf, GraceOf, Made, InConsumption, InRange
  <2> QED BY <2>1, <2>2, <2>3
<1>2. ASSUME RangeFetchFails(p) PROVE Good(p)
  <2> USE <1>2 DEF RangeFetchFails, Return
  <2>1. TypeOK'
    BY DEF TypeOK, Pcs
  <2>2. Move(p)
    <3>1. OthersKept(p)
      <4>1. now' = now /\ grace' = grace
        OBVIOUS
      <4>2. dirlock' = dirlock \/ {dirlock, dirlock'} \subseteq {None, p}
        BY DEF InvOf, EvictorOf
      <4>3. \A q \in Procs \ {p} : pc'[q] = pc[q] /\ call'[q] = call[q] /\ pass'[q] = pass[q]
        BY DEF TypeOK
      <4> QED BY <4>1, <4>2, <4>3 DEF OthersKept
    <3>2. CallKept(p)
      BY DEF CallKept, TypeOK
    <3> QED BY <3>1, <3>2, StillMove
  <2>3. InvOf(p)'
    BY DEF TypeOK, InvOf, CallOf, LockOf, EvictorOf, ScanOf, AtimeOf, GraceOf, Made, InConsumption, InRange
  <2> QED BY <2>1, <2>2, <2>3
<1>3. ASSUME RangeReadFails(p) PROVE Good(p)
  <2> USE <1>3 DEF RangeReadFails, Return
  <2>1. TypeOK'
    BY DEF TypeOK, Pcs
  <2>2. Move(p)
    <3>1. OthersKept(p)
      <4>1. now' = now /\ grace' = grace
        OBVIOUS
      <4>2. dirlock' = dirlock \/ {dirlock, dirlock'} \subseteq {None, p}
        BY DEF InvOf, EvictorOf
      <4>3. \A q \in Procs \ {p} : pc'[q] = pc[q] /\ call'[q] = call[q] /\ pass'[q] = pass[q]
        BY DEF TypeOK
      <4> QED BY <4>1, <4>2, <4>3 DEF OthersKept
    <3>2. CallKept(p)
      BY DEF CallKept, TypeOK
    <3> QED BY <3>1, <3>2, StillMove
  <2>3. InvOf(p)'
    BY DEF TypeOK, InvOf, CallOf, LockOf, EvictorOf, ScanOf, AtimeOf, GraceOf, Made, InConsumption, InRange
  <2> QED BY <2>1, <2>2, <2>3
<1> QED BY <1>1, <1>2, <1>3

\* A step that changes the inode g of n to i: a process that has locked a file
\* still has it locked if it goes on as if it had.
HoldsOn(p, n, g, i) ==
    pc'[p] \in {"size", "fetch", "store", "write"} =>
        /\ pc[p] \in {"lock", "size", "fetch", "store", "write"}
        /\ call'[p].name = call[p].name /\ call'[p].fd = call[p].fd
        /\ \/ pc[p] = "lock" /\ n = call[p].name /\ g = call[p].fd /\ i.lock = p
           \/ pc[p] # "lock" /\ i.lock = ino[n][g].lock

\* What such a step keeps, whatever its action.
LEMMA InodeStep ==
    ASSUME EvictInv, NEW p \in Procs, NEW n \in Names, NEW g \in Gen, NEW i \in Inode,
           ino' \in [Names -> [Gen -> Inode]], ino'[n][g] = i,
           \A m \in Names, h \in Gen : m # n \/ h # g => ino'[m][h] = ino[m][h],
           i.lock = ino[n][g].lock \/ ino[n][g].lock \in {None, p},
           ino[n][g].atime <= i.atime, i.atime <= now,
           now' = now, grace' = grace, UNCHANGED <<dir, last>>, OthersKept(p),
           \/ call'[p].since = -1
           \/ /\ call'[p].since = call[p].since
              /\ call'[p].name = call[p].name /\ call'[p].fd = call[p].fd,
           HoldsOn(p, n, g, i),
           pc'[p] \in {"victim", "unlink"} =>
              /\ pc[p] \in {"try", "unlink"}
              /\ pass'[p] = pass[p],
           pc'[p] \in InConsumption => pc[p] \in InConsumption,
           pc'[p] # "try"
    PROVE  Move(p) /\ LockOf(p)' /\ ScanOf(p)' /\ AtimeOf(p)' /\ GraceOf(p)'
<1>0. Placed(p)
  BY Actor
<1> USE Constants, <1>0 DEF Placed
<1>1. CallKept(p)
  BY DEF CallKept
<1>2. Move(p)
  BY ONLY <1>1, InodeMove, EvictInv, p \in Procs, n \in Names, g \in Gen, ino'[n][g] = i,
          \A m \in Names, h \in Gen : m # n \/ h # g => ino'[m][h] = ino[m][h],
          i.lock = ino[n][g].lock \/ ino[n][g].lock \in {None, p},
          ino[n][g].atime <= i.atime, i.atime <= now, UNCHANGED <<dir, last>>, OthersKept(p)
<1>3. LockOf(p)'
  <2> SUFFICES ASSUME pc'[p] \in {"size", "fetch", "store", "write"} PROVE LockOf(p)'
    BY DEF LockOf
  <2>1. call[p].name \in Names /\ call[p].fd \in Gen
    BY DEF HoldsOn, InvOf, CallOf, InConsumption
  <2>2. ino'[call[p].name][call[p].fd].lock = p
    BY <2>1 DEF HoldsOn, InvOf, LockOf
  <2> QED BY <2>2 DEF HoldsOn, LockOf
<1>4. ScanOf(p)'
  <2> SUFFICES ASSUME pc'[p] \in {"victim", "unlink"} PROVE ScanOf(p)'
    BY DEF ScanOf
  <2>1. /\ ScanOf(p) /\ pc[p] \in {"try", "unlink"}
        /\ now' = now /\ grace' = grace /\ dir' = dir /\ pass'[p] = pass[p]
    BY DEF InvOf
  <2>2. \A q \in Procs : \A m : Made(q, m)' => Made(q, m) /\ call'[q].since = call[q].since
    BY DEF Made, OthersKept
  <2> QED BY ONLY <2>1, <2>2, pc'[p] \in {"victim", "unlink"} DEF ScanOf
<1>5. AtimeOf(p)'
  <2> SUFFICES ASSUME call'[p].since # -1 PROVE AtimeOf(p)'
    BY DEF AtimeOf
  <2>1. /\ call[p].name \in Names /\ call[p].fd \in Gen /\ call[p].since \in Time
        /\ ino[call[p].name][call[p].fd].atime \in Time
    BY SinceOf
  <2>2. ino[call[p].name][call[p].fd].atime <= ino'[call[p].name][call[p].fd].atime
    BY <2>1 DEF Time
  <2>3. ino'[call[p].name][call[p].fd].atime \in Time
    BY <2>1 DEF Inode
  <2> QED BY <2>1, <2>2, <2>3 DEF InvOf, AtimeOf, Time
<1>6. GraceOf(p)'
  BY DEF InvOf, GraceOf
<1> QED BY <1>2, <1>3, <1>4, <1>5, <1>6

\* Steps of a call that change one inode.
LEMMA CallSteps ==
    ASSUME EvictInv, NEW p \in Procs
    PROVE  /\ Produce(p) => Good(p)
           /\ Lock(p) => Good(p)
           /\ CheckSize(p) => Good(p)
           /\ GetDataFails(p) => Good(p)
           /\ StoreFails(p) => Good(p)
           /\ OpenCopy(p) => Good(p)
<1>0. Placed(p)
  BY Actor
<1> USE Constants, <1>0 DEF Placed, Good, Goto, fsVars, conf
<1>1. ASSUME Produce(p) PROVE Good(p)
  <2>0. /\ pc[p] = "publish" /\ pc'[p] \in {"scan"} /\ pass'[p] = pass[p] /\ dirlock' = dirlock
        /\ call'[p] = call[p]
        /\ now' = now /\ grace' = grace /\ UNCHANGED <<dir, last>>
    BY <1>1 DEF Produce, TypeOK, Call
  <2>1. PICK n, g : n = call[p].name /\ g = call[p].fd
    OBVIOUS
  <2>2. /\ n \in Names /\ g \in Gen
        /\ ino[n][g] \in Inode /\ ino[n][g].atime <= now
    <3>1. n \in Names /\ g \in Gen
      BY <1>1, <2>1 DEF Produce, InvOf, CallOf, EvictorOf, InConsumption, InRange, Gen
    <3> QED BY <3>1 DEF TimesInv
  <2>3. PICK i : i = Written(ino[n][g])
    OBVIOUS
  <2>4. /\ i \in Inode
        /\ i.lock = ino[n][g].lock \/ ino[n][g].lock \in {None, p}
        /\ i.atime \in Time /\ ino[n][g].atime <= i.atime /\ i.atime <= now
    BY <1>1, <2>1, <2>2, <2>3, InodeForms DEF Produce, Free, InvOf, LockOf, EvictorOf, Inode, Time
  <2>5. /\ ino' \in [Names -> [Gen -> Inode]]
        /\ ino'[n][g] = i
        /\ \A m \in Names, h \in Gen : m # n \/ h # g => ino'[m][h] = ino[m][h]
    BY <1>1, <2>1, <2>2, <2>3, <2>4 DEF Produce, TypeOK
  <2>6. OthersKept(p)
    <3>1. \A q \in Procs \ {p} : pc'[q] = pc[q] /\ call'[q] = call[q] /\ pass'[q] = pass[q]
      BY <1>1 DEF Produce, TypeOK
    <3> QED BY <2>0, <3>1 DEF OthersKept
  <2>7. HoldsOn(p, n, g, i)
    BY <2>0 DEF HoldsOn
  <2>8. TypeOK'
    <3>1. call'[p] \in Call /\ call' \in [Procs -> Call]
      BY <1>1, <2>0, <2>1, <2>2 DEF Produce, TypeOK, Call
    <3>2. pc' \in [Procs -> Pcs]
      <4>1. pc' = [pc EXCEPT ![p] = pc'[p]]
        BY <1>1 DEF Produce, TypeOK
      <4> QED BY <2>0, <4>1 DEF TypeOK, Pcs
    <3> QED BY <1>1, <2>0, <2>5, <3>1, <3>2 DEF Produce, TypeOK
  <2>9. Move(p) /\ LockOf(p)' /\ ScanOf(p)' /\ AtimeOf(p)' /\ GraceOf(p)'
    BY ONLY EvictInv, p \in Procs, <2>0, <2>2, <2>4, <2>5, <2>6, <2>7, InodeStep DEF InConsumption, NoCall
  <2>10. CallOf(p)'
    BY <1>1, <2>0 DEF Produce, InvOf, CallOf, InConsumption, InRange
  <2>11. EvictorOf(p)'
    BY <2>0, <2>1, <2>2, <2>3, <2>5 DEF InvOf, EvictorOf
  <2> QED BY <2>8, <2>9, <2>10, <2>11 DEF InvOf
<1>2. ASSUME Lock(p) PROVE Good(p)
  <2>0. /\ pc[p] = "lock" /\ pc'[p] \in {"size"} /\ pass'[p] = pass[p] /\ dirlock' = dirlock
        /\ call'[p] = call[p]
        /\ now' = now /\ grace' = grace /\ UNCHANGED <<dir, last>>
    BY <1>2 DEF Lock, TypeOK, Call
  <2>1. PICK n, g : n = call[p].name /\ g = call[p].fd
    OBVIOUS
  <2>2. /\ n \in Names /\ g \in Gen
        /\ ino[n][g] \in Inode /\ ino[n][g].atime <= now
    <3>1. n \in Names /\ g \in Gen
      BY <1>2, <2>1 DEF Lock, InvOf, CallOf, EvictorOf, InConsumption, InRange, Gen
    <3> QED BY <3>1 DEF TimesInv
  <2>3. PICK i : i = [ino[n][g] EXCEPT !.lock = p]
    OBVIOUS
  <2>4. /\ i \in Inode
        /\ i.lock = ino[n][g].lock \/ ino[n][g].lock \in {None, p}
        /\ i.atime \in Time /\ ino[n][g].atime <= i.atime /\ i.atime <= now
    BY <1>2, <2>1, <2>2, <2>3, InodeForms DEF Lock, Free, InvOf, LockOf, EvictorOf, Inode, Time
  <2>5. /\ ino' \in [Names -> [Gen -> Inode]]
        /\ ino'[n][g] = i
        /\ \A m \in Names, h \in Gen : m # n \/ h # g => ino'[m][h] = ino[m][h]
    BY <1>2, <2>1, <2>2, <2>3, <2>4 DEF Lock, TypeOK
  <2>6. OthersKept(p)
    <3>1. \A q \in Procs \ {p} : pc'[q] = pc[q] /\ call'[q] = call[q] /\ pass'[q] = pass[q]
      BY <1>2 DEF Lock, TypeOK
    <3> QED BY <2>0, <3>1 DEF OthersKept
  <2>7. HoldsOn(p, n, g, i)
    BY <2>0, <2>1, <2>2, <2>3 DEF HoldsOn, Inode
  <2>8. TypeOK'
    <3>1. call'[p] \in Call /\ call' \in [Procs -> Call]
      BY <1>2, <2>0, <2>1, <2>2 DEF Lock, TypeOK, Call
    <3>2. pc' \in [Procs -> Pcs]
      <4>1. pc' = [pc EXCEPT ![p] = pc'[p]]
        BY <1>2 DEF Lock, TypeOK
      <4> QED BY <2>0, <4>1 DEF TypeOK, Pcs
    <3> QED BY <1>2, <2>0, <2>5, <3>1, <3>2 DEF Lock, TypeOK
  <2>9. Move(p) /\ LockOf(p)' /\ ScanOf(p)' /\ AtimeOf(p)' /\ GraceOf(p)'
    BY ONLY EvictInv, p \in Procs, <2>0, <2>2, <2>4, <2>5, <2>6, <2>7, InodeStep DEF InConsumption, NoCall
  <2>10. CallOf(p)'
    BY <1>2, <2>0 DEF Lock, InvOf, CallOf, InConsumption, InRange
  <2>11. EvictorOf(p)'
    BY <2>0, <2>1, <2>2, <2>3, <2>5 DEF InvOf, EvictorOf
  <2> QED BY <2>8, <2>9, <2>10, <2>11 DEF InvOf
<1>3. ASSUME CheckSize(p) PROVE Good(p)
  <2>0. /\ pc[p] = "size" /\ pc'[p] \in {"fetch", "scan"} /\ pass'[p] = pass[p] /\ dirlock' = dirlock
        /\ call'[p] = call[p]
        /\ now' = now /\ grace' = grace /\ UNCHANGED <<dir, last>>
    BY <1>3 DEF CheckSize, TypeOK, Call
  <2>1. PICK n, g : n = call[p].name /\ g = call[p].fd
    OBVIOUS
  <2>2. /\ n \in Names /\ g \in Gen
        /\ ino[n][g] \in Inode /\ ino[n][g].atime <= now
    <3>1. n \in Names /\ g \in Gen
      BY <1>3, <2>1 DEF CheckSize, InvOf, CallOf, EvictorOf, InConsumption, InRange, Gen
    <3> QED BY <3>1 DEF TimesInv
  <2>3. PICK i : i = IF ino[n][g].data = "empty" THEN ino[n][g] ELSE [ino[n][g] EXCEPT !.lock = None]
    OBVIOUS
  <2>4. /\ i \in Inode
        /\ i.lock = ino[n][g].lock \/ ino[n][g].lock \in {None, p}
        /\ i.atime \in Time /\ ino[n][g].atime <= i.atime /\ i.atime <= now
    BY <1>3, <2>1, <2>2, <2>3, InodeForms DEF CheckSize, Free, InvOf, LockOf, EvictorOf, Inode, Time
  <2>5. /\ ino' \in [Names -> [Gen -> Inode]]
        /\ ino'[n][g] = i
        /\ \A m \in Names, h \in Gen : m # n \/ h # g => ino'[m][h] = ino[m][h]
    <3>1. CASE ino[n][g].data = "empty"
      BY <1>3, <2>1, <2>2, <2>3, <2>4, <3>1 DEF CheckSize, TypeOK
    <3>2. CASE ~(ino[n][g].data = "empty")
      <4>1. i = [ino[n][g] EXCEPT !.lock = None]
        BY <2>3, <3>2
      <4>2. ino' = [ino EXCEPT ![n][g].lock = None]
        BY <1>3, <2>1, <3>2 DEF CheckSize
      <4> QED BY <2>1, <2>2, <2>4, <4>1, <4>2 DEF TypeOK
    <3> QED BY <3>1, <3>2
  <2>6. OthersKept(p)
    <3>1. \A q \in Procs \ {p} : pc'[q] = pc[q] /\ call'[q] = call[q] /\ pass'[q] = pass[q]
      BY <1>3 DEF CheckSize, TypeOK
    <3> QED BY <2>0, <3>1 DEF OthersKept
  <2>7. HoldsOn(p, n, g, i)
    <3>1. pc'[p] = "fetch" => ino[n][g].data = "empty"
      BY <1>3, <2>1, <2>2 DEF CheckSize, TypeOK
    <3> QED BY <2>0, <2>3, <3>1 DEF HoldsOn
  <2>8. TypeOK'
    <3>1. call'[p] \in Call /\ call' \in [Procs -> Call]
      BY <1>3, <2>0, <2>1, <2>2 DEF CheckSize, TypeOK, Call
    <3>2. pc' \in [Procs -> Pcs]
      <4>1. pc' = [pc EXCEPT ![p] = pc'[p]]
        BY <1>3 DEF CheckSize, TypeOK
      <4> QED BY <2>0, <4>1 DEF TypeOK, Pcs
    <3> QED BY <1>3, <2>0, <2>5, <3>1, <3>2 DEF CheckSize, TypeOK
  <2>9. Move(p) /\ LockOf(p)' /\ ScanOf(p)' /\ AtimeOf(p)' /\ GraceOf(p)'
    BY ONLY EvictInv, p \in Procs, <2>0, <2>2, <2>4, <2>5, <2>6, <2>7, InodeStep DEF InConsumption, NoCall
  <2>10. CallOf(p)'
    BY <1>3, <2>0 DEF CheckSize, InvOf, CallOf, InConsumption, InRange
  <2>11. EvictorOf(p)'
    BY <2>0, <2>1, <2>2, <2>3, <2>5 DEF InvOf, EvictorOf
  <2> QED BY <2>8, <2>9, <2>10, <2>11 DEF InvOf
<1>4. ASSUME GetDataFails(p) PROVE Good(p)
  <2>0. /\ pc[p] = "fetch" /\ pc'[p] \in {"idle"} /\ pass'[p] = pass[p] /\ dirlock' = dirlock
        /\ call'[p] = NoCall
        /\ now' = now /\ grace' = grace /\ UNCHANGED <<dir, last>>
    BY <1>4 DEF GetDataFails, TypeOK, Call, Return
  <2>1. PICK n, g : n = call[p].name /\ g = call[p].fd
    OBVIOUS
  <2>2. /\ n \in Names /\ g \in Gen
        /\ ino[n][g] \in Inode /\ ino[n][g].atime <= now
    <3>1. n \in Names /\ g \in Gen
      BY <1>4, <2>1 DEF GetDataFails, InvOf, CallOf, EvictorOf, InConsumption, InRange, Gen
    <3> QED BY <3>1 DEF TimesInv
  <2>3. PICK i : i = [ino[n][g] EXCEPT !.lock = None]
    OBVIOUS
  <2>4. /\ i \in Inode
        /\ i.lock = ino[n][g].lock \/ ino[n][g].lock \in {None, p}
        /\ i.atime \in Time /\ ino[n][g].atime <= i.atime /\ i.atime <= now
    BY <1>4, <2>1, <2>2, <2>3, InodeForms DEF GetDataFails, Free, InvOf, LockOf, EvictorOf, Inode, Time
  <2>5. /\ ino' \in [Names -> [Gen -> Inode]]
        /\ ino'[n][g] = i
        /\ \A m \in Names, h \in Gen : m # n \/ h # g => ino'[m][h] = ino[m][h]
    BY <1>4, <2>1, <2>2, <2>3, <2>4 DEF GetDataFails, TypeOK
  <2>6. OthersKept(p)
    <3>1. \A q \in Procs \ {p} : pc'[q] = pc[q] /\ call'[q] = call[q] /\ pass'[q] = pass[q]
      BY <1>4 DEF GetDataFails, TypeOK, Return
    <3> QED BY <2>0, <3>1 DEF OthersKept
  <2>7. HoldsOn(p, n, g, i)
    BY <2>0 DEF HoldsOn
  <2>8. TypeOK'
    <3>1. call'[p] \in Call /\ call' \in [Procs -> Call]
      BY <1>4, <2>0, <2>1, <2>2 DEF GetDataFails, TypeOK, Call, Return
    <3>2. pc' \in [Procs -> Pcs]
      <4>1. pc' = [pc EXCEPT ![p] = pc'[p]]
        BY <1>4 DEF GetDataFails, TypeOK, Return
      <4> QED BY <2>0, <4>1 DEF TypeOK, Pcs
    <3> QED BY <1>4, <2>0, <2>5, <3>1, <3>2 DEF GetDataFails, TypeOK, Return
  <2>9. Move(p) /\ LockOf(p)' /\ ScanOf(p)' /\ AtimeOf(p)' /\ GraceOf(p)'
    BY ONLY EvictInv, p \in Procs, <2>0, <2>2, <2>4, <2>5, <2>6, <2>7, InodeStep DEF InConsumption, NoCall
  <2>10. CallOf(p)'
    BY <1>4, <2>0 DEF GetDataFails, InvOf, CallOf, InConsumption, InRange
  <2>11. EvictorOf(p)'
    BY <2>0, <2>1, <2>2, <2>3, <2>5 DEF InvOf, EvictorOf
  <2> QED BY <2>8, <2>9, <2>10, <2>11 DEF InvOf
<1>5. ASSUME StoreFails(p) PROVE Good(p)
  <2>0. /\ pc[p] = "write" /\ pc'[p] \in {"idle"} /\ pass'[p] = pass[p] /\ dirlock' = dirlock
        /\ call'[p] = NoCall
        /\ now' = now /\ grace' = grace /\ UNCHANGED <<dir, last>>
    BY <1>5 DEF StoreFails, TypeOK, Call, Return
  <2>1. PICK n, g : n = call[p].name /\ g = call[p].fd
    OBVIOUS
  <2>2. /\ n \in Names /\ g \in Gen
        /\ ino[n][g] \in Inode /\ ino[n][g].atime <= now
    <3>1. n \in Names /\ g \in Gen
      BY <1>5, <2>1 DEF StoreFails, InvOf, CallOf, EvictorOf, InConsumption, InRange, Gen
    <3> QED BY <3>1 DEF TimesInv
  <2>3. PICK i : i = IF call[p].op = "consume" \/ call[p].wfd = call[p].fd THEN [ino[n][g] EXCEPT !.lock = None] ELSE ino[n][g]
    OBVIOUS
  <2>4. /\ i \in Inode
        /\ i.lock = ino[n][g].lock \/ ino[n][g].lock \in {None, p}
        /\ i.atime \in Time /\ ino[n][g].atime <= i.atime /\ i.atime <= now
    BY <1>5, <2>1, <2>2, <2>3, InodeForms DEF StoreFails, Free, InvOf, LockOf, EvictorOf, Inode, Time
  <2>5. /\ ino' \in [Names -> [Gen -> Inode]]
        /\ ino'[n][g] = i
        /\ \A m \in Names, h \in Gen : m # n \/ h # g => ino'[m][h] = ino[m][h]
    <3>1. CASE call[p].op = "consume" \/ call[p].wfd = call[p].fd
      BY <1>5, <2>1, <2>2, <2>3, <2>4, <3>1 DEF StoreFails, TypeOK
    <3>2. CASE ~(call[p].op = "consume" \/ call[p].wfd = call[p].fd)
      <4>1. i = ino[n][g]
        BY <2>3, <3>2
      <4>2. ino' = [ino EXCEPT ![n][g].lock = @]
        BY <1>5, <2>1, <3>2 DEF StoreFails
      <4> QED BY <2>1, <2>2, <2>4, <4>1, <4>2 DEF TypeOK, Inode
    <3> QED BY <3>1, <3>2
  <2>6. OthersKept(p)
    <3>1. \A q \in Procs \ {p} : pc'[q] = pc[q] /\ call'[q] = call[q] /\ pass'[q] = pass[q]
      BY <1>5 DEF StoreFails, TypeOK, Return
    <3> QED BY <2>0, <3>1 DEF OthersKept
  <2>7. HoldsOn(p, n, g, i)
    BY <2>0 DEF HoldsOn
  <2>8. TypeOK'
    <3>1. call'[p] \in Call /\ call' \in [Procs -> Call]
      BY <1>5, <2>0, <2>1, <2>2 DEF StoreFails, TypeOK, Call, Return
    <3>2. pc' \in [Procs -> Pcs]
      <4>1. pc' = [pc EXCEPT ![p] = pc'[p]]
        BY <1>5 DEF StoreFails, TypeOK, Return
      <4> QED BY <2>0, <4>1 DEF TypeOK, Pcs
    <3> QED BY <1>5, <2>0, <2>5, <3>1, <3>2 DEF StoreFails, TypeOK, Return
  <2>9. Move(p) /\ LockOf(p)' /\ ScanOf(p)' /\ AtimeOf(p)' /\ GraceOf(p)'
    BY ONLY EvictInv, p \in Procs, <2>0, <2>2, <2>4, <2>5, <2>6, <2>7, InodeStep DEF InConsumption, NoCall
  <2>10. CallOf(p)'
    BY <1>5, <2>0 DEF StoreFails, InvOf, CallOf, InConsumption, InRange
  <2>11. EvictorOf(p)'
    BY <2>0, <2>1, <2>2, <2>3, <2>5 DEF InvOf, EvictorOf
  <2> QED BY <2>8, <2>9, <2>10, <2>11 DEF InvOf
<1>6. ASSUME OpenCopy(p) PROVE Good(p)
  <2>0. /\ pc[p] = "store" /\ pc'[p] \in {"write"} /\ pass'[p] = pass[p] /\ dirlock' = dirlock
        /\ call'[p].name = call[p].name /\ call'[p].fd = call[p].fd /\ call'[p].since = call[p].since /\ call'[p].wfd = dir[call[p].name]
        /\ now' = now /\ grace' = grace /\ UNCHANGED <<dir, last>>
    BY <1>6 DEF OpenCopy, TypeOK, Call
  <2>1. PICK n, g : n = call[p].name /\ g = dir[call[p].name]
    OBVIOUS
  <2>2. /\ n \in Names /\ g \in Gen
        /\ ino[n][g] \in Inode /\ ino[n][g].atime <= now
    <3>1. n \in Names /\ g \in Gen
      BY <1>6, <2>1 DEF OpenCopy, InvOf, CallOf, EvictorOf, InConsumption, InRange, Gen
    <3> QED BY <3>1 DEF TimesInv
  <2>3. PICK i : i = Sized(ino[n][g])
    OBVIOUS
  <2>4. /\ i \in Inode
        /\ i.lock = ino[n][g].lock \/ ino[n][g].lock \in {None, p}
        /\ i.atime \in Time /\ ino[n][g].atime <= i.atime /\ i.atime <= now
    BY <1>6, <2>1, <2>2, <2>3, InodeForms DEF OpenCopy, Free, InvOf, LockOf, EvictorOf, Inode, Time
  <2>5. /\ ino' \in [Names -> [Gen -> Inode]]
        /\ ino'[n][g] = i
        /\ \A m \in Names, h \in Gen : m # n \/ h # g => ino'[m][h] = ino[m][h]
    BY <1>6, <2>1, <2>2, <2>3, <2>4 DEF OpenCopy, TypeOK
  <2>6. OthersKept(p)
    <3>1. \A q \in Procs \ {p} : pc'[q] = pc[q] /\ call'[q] = call[q] /\ pass'[q] = pass[q]
      BY <1>6 DEF OpenCopy, TypeOK
    <3> QED BY <2>0, <3>1 DEF OthersKept
  <2>7. HoldsOn(p, n, g, i)
    BY <2>0, <2>1, <2>2, <2>3, InodeForms DEF HoldsOn
  <2>8. TypeOK'
    <3>1. call'[p] \in Call /\ call' \in [Procs -> Call]
      BY <1>6, <2>0, <2>1, <2>2 DEF OpenCopy, TypeOK, Call
    <3>2. pc' \in [Procs -> Pcs]
      <4>1. pc' = [pc EXCEPT ![p] = pc'[p]]
        BY <1>6 DEF OpenCopy, TypeOK
      <4> QED BY <2>0, <4>1 DEF TypeOK, Pcs
    <3> QED BY <1>6, <2>0, <2>5, <3>1, <3>2 DEF OpenCopy, TypeOK
  <2>9. Move(p) /\ LockOf(p)' /\ ScanOf(p)' /\ AtimeOf(p)' /\ GraceOf(p)'
    BY ONLY EvictInv, p \in Procs, <2>0, <2>2, <2>4, <2>5, <2>6, <2>7, InodeStep DEF InConsumption, NoCall
  <2>10. CallOf(p)'
    BY <1>6, <2>0 DEF OpenCopy, InvOf, CallOf, InConsumption, InRange
  <2>11. EvictorOf(p)'
    BY <2>0, <2>1, <2>2, <2>3, <2>5 DEF InvOf, EvictorOf
  <2> QED BY <2>8, <2>9, <2>10, <2>11 DEF InvOf
<1> QED BY <1>1, <1>2, <1>3, <1>4, <1>5, <1>6

\* Further steps that change one inode.
LEMMA OtherInodeSteps ==
    ASSUME EvictInv, NEW p \in Procs
    PROVE  /\ RangeFetch(p) => Good(p)
           /\ RangeRecord(p) => Good(p)
           /\ RangeRead(p) => Good(p)
           /\ UnlinkFails(p) => Good(p)
           /\ TryLock(p) => Good(p)
<1>0. Placed(p)
  BY Actor
<1> USE Constants, <1>0 DEF Placed, Good, Goto, fsVars, conf
<1>1. ASSUME RangeFetch(p) PROVE Good(p)
  <2>0. /\ pc[p] = "rfetch" /\ pc'[p] \in {"rrecord"} /\ pass'[p] = pass[p] /\ dirlock' = dirlock
        /\ call'[p] = call[p]
        /\ now' = now /\ grace' = grace /\ UNCHANGED <<dir, last>>
    BY <1>1 DEF RangeFetch, TypeOK, Call
  <2>1. PICK n, g : n = call[p].name /\ g = dir[call[p].name]
    OBVIOUS
  <2>2. /\ n \in Names /\ g \in Gen
        /\ ino[n][g] \in Inode /\ ino[n][g].atime <= now
    <3>1. n \in Names /\ g \in Gen
      BY <1>1, <2>1 DEF RangeFetch, InvOf, CallOf, EvictorOf, InConsumption, InRange, Gen
    <3> QED BY <3>1 DEF TimesInv
  <2>3. PICK i : i = Written(ino[n][g])
    OBVIOUS
  <2>4. /\ i \in Inode
        /\ i.lock = ino[n][g].lock \/ ino[n][g].lock \in {None, p}
        /\ i.atime \in Time /\ ino[n][g].atime <= i.atime /\ i.atime <= now
    BY <1>1, <2>1, <2>2, <2>3, InodeForms DEF RangeFetch, Free, InvOf, LockOf, EvictorOf, Inode, Time
  <2>5. /\ ino' \in [Names -> [Gen -> Inode]]
        /\ ino'[n][g] = i
        /\ \A m \in Names, h \in Gen : m # n \/ h # g => ino'[m][h] = ino[m][h]
    BY <1>1, <2>1, <2>2, <2>3, <2>4 DEF RangeFetch, TypeOK
  <2>6. OthersKept(p)
    <3>1. \A q \in Procs \ {p} : pc'[q] = pc[q] /\ call'[q] = call[q] /\ pass'[q] = pass[q]
      BY <1>1 DEF RangeFetch, TypeOK
    <3> QED BY <2>0, <3>1 DEF OthersKept
  <2>7. HoldsOn(p, n, g, i)
    BY <2>0 DEF HoldsOn
  <2>8. TypeOK'
    <3>1. call'[p] \in Call /\ call' \in [Procs -> Call]
      BY <1>1, <2>0, <2>1, <2>2 DEF RangeFetch, TypeOK, Call
    <3>2. pc' \in [Procs -> Pcs]
      <4>1. pc' = [pc EXCEPT ![p] = pc'[p]]
        BY <1>1 DEF RangeFetch, TypeOK
      <4> QED BY <2>0, <4>1 DEF TypeOK, Pcs
    <3> QED BY <1>1, <2>0, <2>5, <3>1, <3>2 DEF RangeFetch, TypeOK
  <2>9. Move(p) /\ LockOf(p)' /\ ScanOf(p)' /\ AtimeOf(p)' /\ GraceOf(p)'
    BY ONLY EvictInv, p \in Procs, <2>0, <2>2, <2>4, <2>5, <2>6, <2>7, InodeStep DEF InConsumption, NoCall
  <2>10. CallOf(p)'
    BY <1>1, <2>0 DEF RangeFetch, InvOf, CallOf, InConsumption, InRange
  <2>11. EvictorOf(p)'
    BY <2>0, <2>1, <2>2, <2>3, <2>5 DEF InvOf, EvictorOf
  <2> QED BY <2>8, <2>9, <2>10, <2>11 DEF InvOf
<1>2. ASSUME RangeRecord(p) PROVE Good(p)
  <2>0. /\ pc[p] = "rrecord" /\ pc'[p] \in {"rread"} /\ pass'[p] = pass[p] /\ dirlock' = dirlock
        /\ call'[p] = call[p]
        /\ now' = now /\ grace' = grace /\ UNCHANGED <<dir, last>>
    BY <1>2 DEF RangeRecord, TypeOK, Call
  <2>1. PICK n, g : n = Bitmap(call[p].name) /\ g = call[p].fd
    OBVIOUS
  <2>2. /\ n \in Names /\ g \in Gen
        /\ ino[n][g] \in Inode /\ ino[n][g].atime <= now
    <3>1. n \in Names /\ g \in Gen
      BY <1>2, <2>1 DEF RangeRecord, InvOf, CallOf, EvictorOf, InConsumption, InRange, Gen
    <3> QED BY <3>1 DEF TimesInv
  <2>3. PICK i : i = Written(ino[n][g])
    OBVIOUS
  <2>4. /\ i \in Inode
        /\ i.lock = ino[n][g].lock \/ ino[n][g].lock \in {None, p}
        /\ i.atime \in Time /\ ino[n][g].atime <= i.atime /\ i.atime <= now
    BY <1>2, <2>1, <2>2, <2>3, InodeForms DEF RangeRecord, Free, InvOf, LockOf, EvictorOf, Inode, Time
  <2>5. /\ ino' \in [Names -> [Gen -> Inode]]
        /\ ino'[n][g] = i
        /\ \A m \in Names, h \in Gen : m # n \/ h # g => ino'[m][h] = ino[m][h]
    BY <1>2, <2>1, <2>2, <2>3, <2>4 DEF RangeRecord, TypeOK
  <2>6. OthersKept(p)
    <3>1. \A q \in Procs \ {p} : pc'[q] = pc[q] /\ call'[q] = call[q] /\ pass'[q] = pass[q]
      BY <1>2 DEF RangeRecord, TypeOK
    <3> QED BY <2>0, <3>1 DEF OthersKept
  <2>7. HoldsOn(p, n, g, i)
    BY <2>0 DEF HoldsOn
  <2>8. TypeOK'
    <3>1. call'[p] \in Call /\ call' \in [Procs -> Call]
      BY <1>2, <2>0, <2>1, <2>2 DEF RangeRecord, TypeOK, Call
    <3>2. pc' \in [Procs -> Pcs]
      <4>1. pc' = [pc EXCEPT ![p] = pc'[p]]
        BY <1>2 DEF RangeRecord, TypeOK
      <4> QED BY <2>0, <4>1 DEF TypeOK, Pcs
    <3> QED BY <1>2, <2>0, <2>5, <3>1, <3>2 DEF RangeRecord, TypeOK
  <2>9. Move(p) /\ LockOf(p)' /\ ScanOf(p)' /\ AtimeOf(p)' /\ GraceOf(p)'
    BY ONLY EvictInv, p \in Procs, <2>0, <2>2, <2>4, <2>5, <2>6, <2>7, InodeStep DEF InConsumption, NoCall
  <2>10. CallOf(p)'
    BY <1>2, <2>0 DEF RangeRecord, InvOf, CallOf, InConsumption, InRange
  <2>11. EvictorOf(p)'
    BY <2>0, <2>1, <2>2, <2>3, <2>5 DEF InvOf, EvictorOf
  <2> QED BY <2>8, <2>9, <2>10, <2>11 DEF InvOf
<1>3. ASSUME RangeRead(p) PROVE Good(p)
  <2>0. /\ pc[p] = "rread" /\ pc'[p] \in {"idle"} /\ pass'[p] = pass[p] /\ dirlock' = dirlock
        /\ call'[p] = NoCall
        /\ now' = now /\ grace' = grace /\ UNCHANGED <<dir, last>>
    BY <1>3 DEF RangeRead, TypeOK, Call, Return
  <2>1. PICK n, g : n = call[p].name /\ g = dir[call[p].name]
    OBVIOUS
  <2>2. /\ n \in Names /\ g \in Gen
        /\ ino[n][g] \in Inode /\ ino[n][g].atime <= now
    <3>1. n \in Names /\ g \in Gen
      BY <1>3, <2>1 DEF RangeRead, InvOf, CallOf, EvictorOf, InConsumption, InRange, Gen
    <3> QED BY <3>1 DEF TimesInv
  <2>3. PICK i : i = [ino[n][g] EXCEPT !.atime = now]
    OBVIOUS
  <2>4. /\ i \in Inode
        /\ i.lock = ino[n][g].lock \/ ino[n][g].lock \in {None, p}
        /\ i.atime \in Time /\ ino[n][g].atime <= i.atime /\ i.atime <= now
    BY <1>3, <2>1, <2>2, <2>3, InodeForms DEF RangeRead, Free, InvOf, LockOf, EvictorOf, Inode, Time
  <2>5. /\ ino' \in [Names -> [Gen -> Inode]]
        /\ ino'[n][g] = i
        /\ \A m \in Names, h \in Gen : m # n \/ h # g => ino'[m][h] = ino[m][h]
    BY <1>3, <2>1, <2>2, <2>3, <2>4 DEF RangeRead, TypeOK
  <2>6. OthersKept(p)
    <3>1. \A q \in Procs \ {p} : pc'[q] = pc[q] /\ call'[q] = call[q] /\ pass'[q] = pass[q]
      BY <1>3 DEF RangeRead, TypeOK, Return
    <3> QED BY <2>0, <3>1 DEF OthersKept
  <2>7. HoldsOn(p, n, g, i)
    BY <2>0 DEF HoldsOn
  <2>8. TypeOK'
    <3>1. call'[p] \in Call /\ call' \in [Procs -> Call]
      BY <1>3, <2>0, <2>1, <2>2 DEF RangeRead, TypeOK, Call, Return
    <3>2. pc' \in [Procs -> Pcs]
      <4>1. pc' = [pc EXCEPT ![p] = pc'[p]]
        BY <1>3 DEF RangeRead, TypeOK, Return
      <4> QED BY <2>0, <4>1 DEF TypeOK, Pcs
    <3> QED BY <1>3, <2>0, <2>5, <3>1, <3>2 DEF RangeRead, TypeOK, Return
  <2>9. Move(p) /\ LockOf(p)' /\ ScanOf(p)' /\ AtimeOf(p)' /\ GraceOf(p)'
    BY ONLY EvictInv, p \in Procs, <2>0, <2>2, <2>4, <2>5, <2>6, <2>7, InodeStep DEF InConsumption, NoCall
  <2>10. CallOf(p)'
    BY <1>3, <2>0 DEF RangeRead, InvOf, CallOf, InConsumption, InRange
  <2>11. EvictorOf(p)'
    BY <2>0, <2>1, <2>2, <2>3, <2>5 DEF InvOf, EvictorOf
  <2> QED BY <2>8, <2>9, <2>10, <2>11 DEF InvOf
<1>4. ASSUME UnlinkFails(p) PROVE Good(p)
  <2>0. /\ pc[p] = "unlink" /\ pc'[p] \in {"victim"} /\ pass'[p] = pass[p] /\ dirlock' = dirlock
        /\ call'[p] = call[p]
        /\ now' = now /\ grace' = grace /\ UNCHANGED <<dir, last>>
    BY <1>4 DEF UnlinkFails, TypeOK, Call
  <2>1. PICK n, g : n = pass[p].name /\ g = pass[p].gen
    OBVIOUS
  <2>2. /\ n \in Names /\ g \in Gen
        /\ ino[n][g] \in Inode /\ ino[n][g].atime <= now
    <3>1. n \in Names /\ g \in Gen
      BY <1>4, <2>1 DEF UnlinkFails, InvOf, CallOf, EvictorOf, InConsumption, InRange, Gen
    <3> QED BY <3>1 DEF TimesInv
  <2>3. PICK i : i = [ino[n][g] EXCEPT !.lock = None]
    OBVIOUS
  <2>4. /\ i \in Inode
        /\ i.lock = ino[n][g].lock \/ ino[n][g].lock \in {None, p}
        /\ i.atime \in Time /\ ino[n][g].atime <= i.atime /\ i.atime <= now
    BY <1>4, <2>1, <2>2, <2>3, InodeForms DEF UnlinkFails, Free, InvOf, LockOf, EvictorOf, Inode, Time
  <2>5. /\ ino' \in [Names -> [Gen -> Inode]]
        /\ ino'[n][g] = i
        /\ \A m \in Names, h \in Gen : m # n \/ h # g => ino'[m][h] = ino[m][h]
    BY <1>4, <2>1, <2>2, <2>3, <2>4 DEF UnlinkFails, TypeOK
  <2>6. OthersKept(p)
    <3>1. \A q \in Procs \ {p} : pc'[q] = pc[q] /\ call'[q] = call[q] /\ pass'[q] = pass[q]
      BY <1>4 DEF UnlinkFails, TypeOK
    <3> QED BY <2>0, <3>1 DEF OthersKept
  <2>7. HoldsOn(p, n, g, i)
    BY <2>0 DEF HoldsOn
  <2>8. TypeOK'
    <3>1. call'[p] \in Call /\ call' \in [Procs -> Call]
      BY <1>4, <2>0, <2>1, <2>2 DEF UnlinkFails, TypeOK, Call
    <3>2. pc' \in [Procs -> Pcs]
      <4>1. pc' = [pc EXCEPT ![p] = pc'[p]]
        BY <1>4 DEF UnlinkFails, TypeOK
      <4> QED BY <2>0, <4>1 DEF TypeOK, Pcs
    <3> QED BY <1>4, <2>0, <2>5, <3>1, <3>2 DEF UnlinkFails, TypeOK
  <2>9. Move(p) /\ LockOf(p)' /\ ScanOf(p)' /\ AtimeOf(p)' /\ GraceOf(p)'
    BY ONLY EvictInv, p \in Procs, <2>0, <2>2, <2>4, <2>5, <2>6, <2>7, InodeStep DEF InConsumption, NoCall
  <2>10. CallOf(p)'
    BY <1>4, <2>0 DEF UnlinkFails, InvOf, CallOf, InConsumption, InRange
  <2>11. EvictorOf(p)'
    BY <2>0, <2>1, <2>2, <2>3, <2>5 DEF InvOf, EvictorOf
  <2> QED BY <2>8, <2>9, <2>10, <2>11 DEF InvOf
<1>5. ASSUME TryLock(p) PROVE Good(p)
  <2>0. /\ pc[p] = "try" /\ pc'[p] \in {"unlink", "victim"} /\ pass'[p] = pass[p] /\ dirlock' = dirlock
        /\ call'[p] = call[p]
        /\ now' = now /\ grace' = grace /\ UNCHANGED <<dir, last>>
    BY <1>5 DEF TryLock, TypeOK, Call
  <2>1. PICK n, g : n = pass[p].name /\ g = pass[p].gen
    OBVIOUS
  <2>2. /\ n \in Names /\ g \in Gen
        /\ ino[n][g] \in Inode /\ ino[n][g].atime <= now
    <3>1. n \in Names /\ g \in Gen
      BY <1>5, <2>1 DEF TryLock, InvOf, CallOf, EvictorOf, InConsumption, InRange, Gen
    <3> QED BY <3>1 DEF TimesInv
  <2>3. PICK i : i = IF Free(n, g, p) THEN [ino[n][g] EXCEPT !.lock = p] ELSE ino[n][g]
    OBVIOUS
  <2>4. /\ i \in Inode
        /\ i.lock = ino[n][g].lock \/ ino[n][g].lock \in {None, p}
        /\ i.atime \in Time /\ ino[n][g].atime <= i.atime /\ i.atime <= now
    BY <1>5, <2>1, <2>2, <2>3, InodeForms DEF TryLock, Free, InvOf, LockOf, EvictorOf, Inode, Time
  <2>5. /\ ino' \in [Names -> [Gen -> Inode]]
        /\ ino'[n][g] = i
        /\ \A m \in Names, h \in Gen : m # n \/ h # g => ino'[m][h] = ino[m][h]
    <3>1. CASE ~Free(n, g, p)
      BY <1>5, <2>1, <2>2, <2>3, <2>4, <3>1 DEF TryLock, TypeOK
    <3>2. CASE ~(~Free(n, g, p))
      <4>1. i = [ino[n][g] EXCEPT !.lock = p]
        BY <2>3, <3>2
      <4>2. ino' = [ino EXCEPT ![n][g].lock = p]
        BY <1>5, <2>1, <3>2 DEF TryLock
      <4> QED BY <2>1, <2>2, <2>4, <4>1, <4>2 DEF TypeOK
    <3> QED BY <3>1, <3>2
  <2>6. OthersKept(p)
    <3>1. \A q \in Procs \ {p} : pc'[q] = pc[q] /\ call'[q] = call[q] /\ pass'[q] = pass[q]
      BY <1>5 DEF TryLock, TypeOK
    <3> QED BY <2>0, <3>1 DEF OthersKept
  <2>7. HoldsOn(p, n, g, i)
    BY <2>0 DEF HoldsOn
  <2>8. TypeOK'
    <3>1. call'[p] \in Call /\ call' \in [Procs -> Call]
      BY <1>5, <2>0, <2>1, <2>2 DEF TryLock, TypeOK, Call
    <3>2. pc' \in [Procs -> Pcs]
      <4>1. pc' = [pc EXCEPT ![p] = pc'[p]]
        BY <1>5 DEF TryLock, TypeOK
      <4> QED BY <2>0, <4>1 DEF TypeOK, Pcs
    <3> QED BY <1>5, <2>0, <2>5, <3>1, <3>2 DEF TryLock, TypeOK
  <2>9. Move(p) /\ LockOf(p)' /\ ScanOf(p)' /\ AtimeOf(p)' /\ GraceOf(p)'
    BY ONLY EvictInv, p \in Procs, <2>0, <2>2, <2>4, <2>5, <2>6, <2>7, InodeStep DEF InConsumption, NoCall
  <2>10. CallOf(p)'
    BY <1>5, <2>0 DEF TryLock, InvOf, CallOf, InConsumption, InRange
  <2>11. EvictorOf(p)'
    <3>1. pc'[p] = "unlink" => Free(n, g, p)
      BY <1>5, <2>1 DEF TryLock, TypeOK
    <3>2. Free(n, g, p) => i.lock = p
      BY <2>2, <2>3 DEF Inode
    <3> QED BY <2>0, <2>1, <2>2, <2>5, <3>1, <3>2 DEF InvOf, EvictorOf
  <2> QED BY <2>8, <2>9, <2>10, <2>11 DEF InvOf
<1> QED BY <1>1, <1>2, <1>3, <1>4, <1>5

\* A call that begins without a file of its own, and the end of one.
LEMMA VisitSteps ==
    ASSUME EvictInv, NEW p \in Procs
    PROVE  /\ \A f \in Files : GetMetadata(p, f) => Good(p)
           /\ Read(p) => Good(p)
<1>0. Placed(p)
  BY Actor
<1> USE Constants, <1>0 DEF Placed, Good, Goto, fsVars, conf
<1>1. ASSUME NEW f \in Files, GetMetadata(p, f) PROVE Good(p)
  <2>0. /\ pc'[p] = "meta" /\ call'[p].since = -1 /\ call'[p].name \in Files
        /\ dirlock' = dirlock /\ now' = now /\ grace' = grace /\ UNCHANGED <<dir, last>>
    BY <1>1 DEF GetMetadata, TypeOK, Call, NoCall
  <2>1. \A q \in Procs \ {p} : pc'[q] = pc[q] /\ call'[q] = call[q] /\ pass'[q] = pass[q]
    BY <1>1 DEF GetMetadata, TypeOK
  <2>2. OthersKept(p) /\ CallKept(p)
    BY <2>0, <2>1 DEF OthersKept, CallKept
  <2>3. PICK t : t = IF dir[f] = 0 THEN now ELSE ino[f][dir[f]].atime
    OBVIOUS
  <2>4. /\ t \in Time /\ t <= now /\ (dir[f] # 0 => ino[f][dir[f]].atime <= t)
        /\ ino' = Visited(f, p, t)
    BY <1>1, <2>3 DEF GetMetadata, Inode, TimesInv, Gen, Time
  <2>5. Move(p) /\ ino' \in [Names -> [Gen -> Inode]]
    BY ONLY EvictInv, p \in Procs, f \in Files, Constants, <2>0, <2>2, <2>4, VisitedMove
  <2>6. TypeOK'
    <3>1. call' \in [Procs -> Call]
      BY <1>1 DEF GetMetadata, TypeOK, Call, NoCall
    <3> QED BY <1>1, <2>5, <3>1 DEF GetMetadata, TypeOK, Pcs
  <2>7. InvOf(p)'
    BY <2>0 DEF InvOf, CallOf, LockOf, EvictorOf, ScanOf, AtimeOf, GraceOf, InConsumption, InRange
  <2> QED BY <2>5, <2>6, <2>7
<1>2. ASSUME Read(p) PROVE Good(p)
  <2>0. /\ pc[p] = "read" /\ pc'[p] = "idle" /\ call'[p].since = -1
        /\ dirlock' = dirlock /\ now' = now /\ grace' = grace /\ UNCHANGED <<dir, last>>
    BY <1>2 DEF Read, Return, TypeOK
  <2>1. \A q \in Procs \ {p} : pc'[q] = pc[q] /\ call'[q] = call[q] /\ pass'[q] = pass[q]
    BY <1>2 DEF Read, Return, TypeOK
  <2>2. OthersKept(p) /\ CallKept(p)
    BY <2>0, <2>1 DEF OthersKept, CallKept
  <2>3. PICK n : n = call[p].name
    OBVIOUS
  <2>4. n \in Names /\ now \in Time /\ now <= now /\ ino' = Visited(n, p, now)
    BY <1>2, <2>0, <2>3 DEF Read, InvOf, CallOf, InConsumption, Time
  <2>5. dir[n] # 0 => ino[n][dir[n]].atime <= now
    BY <2>4 DEF TimesInv, Gen
  <2>6. Move(p) /\ ino' \in [Names -> [Gen -> Inode]]
    BY ONLY EvictInv, p \in Procs, <2>0, <2>2, <2>4, <2>5, VisitedMove
  <2>7. TypeOK'
    BY <1>2, <2>6, NoPassTyped DEF Read, Return, TypeOK, Pcs
  <2>8. InvOf(p)'
    BY <2>0 DEF InvOf, CallOf, LockOf, EvictorOf, ScanOf, AtimeOf, GraceOf, InConsumption, InRange
  <2> QED BY <2>6, <2>7, <2>8
<1> QED BY <1>1, <1>2

\* What open() with O_CREAT leaves.
LEMMA CreatedMove ==
    ASSUME EvictInv, NEW p \in Procs, NEW n \in Names, NEW d \in {"empty", "part"},
           Created(n, d), OthersKept(p), CallKept(p)
    PROVE  /\ Move(p)
           /\ ino' \in [Names -> [Gen -> Inode]]
           /\ dir' \in [Names -> 0..MaxGen] /\ last' \in [Names -> 0..MaxGen]
           /\ \A m \in Names : dir'[m] \in {0, last'[m]}
           /\ dir'[n] = Opened(n) /\ Opened(n) \in 1..last'[n]
           /\ dir[n] = 0 => ino'[n][Opened(n)].atime = now
<1>0. Placed(p)
  BY Actor
<1>1. CASE dir[n] # 0
  <2>1. PICK g : g = dir[n]
    OBVIOUS
  <2>2. /\ g \in Gen /\ ino[n][g] \in Inode /\ ino \in [Names -> [Gen -> Inode]]
        /\ g = last[n] /\ Opened(n) = g /\ ino[n][g].atime <= now /\ now \in Time
    BY <1>0, <1>1, <2>1 DEF Placed, TypeOK, Gen, Opened, TimesInv
  <2>3. PICK i : i = OpenedAs(ino[n][g], d)
    OBVIOUS
  <2>4. i \in Inode /\ i.lock = ino[n][g].lock /\ i.atime = ino[n][g].atime
    BY <2>2, <2>3, InodeForms DEF OpenedAs
  <2>5. ino' = [ino EXCEPT ![n][g] = i] /\ UNCHANGED <<dir, last>>
    BY <1>1, <2>1, <2>3 DEF Created
  <2>6. /\ ino' \in [Names -> [Gen -> Inode]]
        /\ ino'[n][g] = i
        /\ \A m \in Names, h \in Gen : m # n \/ h # g => ino'[m][h] = ino[m][h]
    BY <2>2, <2>4, <2>5
  <2>7. ino[n][g].atime <= i.atime
    BY <2>2, <2>4 DEF Inode, Time
  <2>8. Move(p)
    BY ONLY EvictInv, p \in Procs, n \in Names, <2>2, <2>4, <2>5, <2>6, <2>7, InodeMove,
            OthersKept(p), CallKept(p)
  <2>9. Opened(n) \in 1..last'[n] /\ dir'[n] = Opened(n)
    <3>1. last'[n] = g /\ dir'[n] = g
      BY <2>1, <2>2, <2>5
    <3>2. g \in 1..g
      BY <2>2, Constants DEF Gen
    <3> QED BY <2>2, <3>1, <3>2
  <2>10. /\ dir' \in [Names -> 0..MaxGen] /\ last' \in [Names -> 0..MaxGen]
         /\ \A m \in Names : dir'[m] \in {0, last'[m]}
    BY <1>0, <2>5 DEF Placed, TypeOK
  <2> QED BY <1>1, <2>6, <2>8, <2>9, <2>10
<1>2. CASE dir[n] = 0
  <2>1. PICK g : g = last[n] + 1
    OBVIOUS
  <2>2. PICK i : i = [data |-> d, lock |-> None, atime |-> now, mtime |-> now]
    OBVIOUS
  <2>3. /\ g \in Gen /\ Opened(n) = g /\ last[n] \in 0..MaxGen
        /\ ino' = [ino EXCEPT ![n][g] = i]
        /\ dir' = [dir EXCEPT ![n] = g] /\ last' = [last EXCEPT ![n] = g]
    BY <1>0, <1>2, <2>1, <2>2, Constants DEF Placed, Gen, Opened, Created
  <2>4. i \in Inode /\ i.atime = now /\ now \in Time
    BY <1>0, <2>2 DEF Placed, Inode
  <2>5. /\ ino \in [Names -> [Gen -> Inode]] /\ dir \in [Names -> 0..MaxGen]
        /\ last \in [Names -> 0..MaxGen]
    BY <1>0 DEF Placed, TypeOK
  <2>6. /\ ino' \in [Names -> [Gen -> Inode]]
        /\ ino'[n][g] = i
        /\ \A m \in Names, h \in Gen : m # n \/ h # g => ino'[m][h] = ino[m][h]
    BY <2>3, <2>4, <2>5
  <2>7. /\ dir' \in [Names -> 0..MaxGen] /\ last' \in [Names -> 0..MaxGen]
        /\ \A m \in Names : dir'[m] \in {0, last'[m]}
        /\ dir'[n] = g /\ g \in 1..last'[n]
    BY <1>0, <2>3, <2>5 DEF Placed, Gen
  <2>8. InodesKept(p)
    <3>1. \A m \in Names, h \in Gen : ino[m][h].atime \in Time
      BY <2>5 DEF Inode
    <3>2. \A m \in Names : \A h \in 1..last[m] : h \in Gen /\ (m # n \/ h # g)
      BY <1>0, <2>1, <2>3 DEF Placed, Gen
    <3> QED BY <2>6, <3>1, <3>2 DEF InodesKept, Time
  <2>9. NamesKept(p)
    BY <1>2, <2>1, <2>3, <2>5 DEF NamesKept
  <2>10. TimesInv'
    BY <1>0, <2>4, <2>6 DEF Placed, TimesInv, OthersKept, Time
  <2> QED BY <2>3, <2>4, <2>6, <2>7, <2>8, <2>9, <2>10 DEF Move
<1> QED BY <1>1, <1>2

\* The calls that create a file, or the bitmap of one.
LEMMA OpenSteps ==
    ASSUME EvictInv, NEW p \in Procs
    PROVE  /\ \A f \in LocalFiles : ProduceOpen(p, f) => Good(p)
           /\ \A f \in Files : Consume(p, f) => Good(p)
           /\ ConsumeWMetadata(p) => Good(p)
           /\ \A r \in RangeFiles : RangeOpen(p, r) => Good(p)
<1>0. Placed(p)
  BY Actor
<1> USE Constants, <1>0 DEF Placed, Good, Goto, fsVars, conf
<1>1. ASSUME NEW f \in LocalFiles, ProduceOpen(p, f) PROVE Good(p)
  <2>1. PICK n : n = f
    OBVIOUS
  <2>2. n \in Names /\ pc[p] = "idle"
    BY <1>1, <2>1 DEF ProduceOpen, InvOf, CallOf, Begin
  <2>3. /\ pc'[p] = "publish" /\ call'[p].fd = Opened(n) /\ call'[p].name = f
        /\ call'[p].since = now
        /\ now' = now /\ grace' = grace /\ dirlock' = dirlock /\ pass' = pass
    BY <1>1, <2>1 DEF ProduceOpen, TypeOK, Call, NoCall, Opened, Begin
  <2>4. \A q \in Procs \ {p} : pc'[q] = pc[q] /\ call'[q] = call[q] /\ pass'[q] = pass[q]
    BY <1>1 DEF ProduceOpen, TypeOK, Begin
  <2>5. OthersKept(p) /\ CallKept(p)
    BY <1>1, <2>1, <2>3, <2>4 DEF OthersKept, CallKept, ProduceOpen
  <2>6. Created(n, "part")
    BY <1>1, <2>1 DEF ProduceOpen
  <2>7. /\ Move(p)
        /\ ino' \in [Names -> [Gen -> Inode]]
        /\ dir' \in [Names -> 0..MaxGen] /\ last' \in [Names -> 0..MaxGen]
        /\ \A m \in Names : dir'[m] \in {0, last'[m]}
        /\ dir'[n] = Opened(n) /\ Opened(n) \in 1..last'[n]
        /\ dir[n] = 0 => ino'[n][Opened(n)].atime = now
    BY ONLY EvictInv, p \in Procs, <2>2, <2>5, <2>6, CreatedMove
  <2>8. TypeOK'
    <3>1. pc' \in [Procs -> Pcs]
      BY <1>1 DEF ProduceOpen, TypeOK, Pcs
    <3>2. Opened(n) \in 0..MaxGen
      BY <2>2, <2>7
    <3>3. call' \in [Procs -> Call]
      BY <1>1, <2>1, <2>2, <3>2 DEF ProduceOpen, TypeOK, Call, NoCall, Opened, Begin
    <3>4. rc' \in [Procs -> {"none", "OK", "error"}] /\ calls' \in 0..MaxCalls
      BY <1>1 DEF ProduceOpen, TypeOK, Begin
    <3> QED BY <1>1, <2>3, <2>7, <3>1, <3>3, <3>4 DEF ProduceOpen, TypeOK
  <2>9. InvOf(p)'
    <3>1. CallOf(p)'
      BY <1>1, <2>1, <2>2, <2>3, <2>7 DEF InvOf, CallOf, InConsumption, InRange
    <3>2. LockOf(p)' /\ EvictorOf(p)' /\ ScanOf(p)'
      BY <2>3 DEF LockOf, EvictorOf, ScanOf
    <3>3. call'[p].since # -1 => call'[p].since = now /\ ino'[n][Opened(n)].atime = now
      BY <1>1, <2>1, <2>3, <2>7 DEF ProduceOpen
    <3>4. AtimeOf(p)' /\ GraceOf(p)'
      BY <2>1, <2>3, <2>7, <3>3 DEF AtimeOf, GraceOf, InConsumption, Time
    <3> QED BY <3>1, <3>2, <3>4 DEF InvOf
  <2> QED BY <2>7, <2>8, <2>9
<1>2. ASSUME NEW f \in Files, Consume(p, f) PROVE Good(p)
  <2>1. PICK n : n = f
    OBVIOUS
  <2>2. n \in Names /\ pc[p] = "idle"
    BY <1>2, <2>1 DEF Consume, InvOf, CallOf, Begin
  <2>3. /\ pc'[p] = "lock" /\ call'[p].fd = Opened(n) /\ call'[p].name = f
        /\ call'[p].since = IF dir[n] = 0 THEN now ELSE -1
        /\ now' = now /\ grace' = grace /\ dirlock' = dirlock /\ pass' = pass
    BY <1>2, <2>1 DEF Consume, TypeOK, Call, NoCall, Opened, Begin
  <2>4. \A q \in Procs \ {p} : pc'[q] = pc[q] /\ call'[q] = call[q] /\ pass'[q] = pass[q]
    BY <1>2 DEF Consume, TypeOK, Begin
  <2>5. OthersKept(p) /\ CallKept(p)
    BY <1>2, <2>1, <2>3, <2>4 DEF OthersKept, CallKept, Consume
  <2>6. Created(n, "empty")
    BY <1>2, <2>1 DEF Consume
  <2>7. /\ Move(p)
        /\ ino' \in [Names -> [Gen -> Inode]]
        /\ dir' \in [Names -> 0..MaxGen] /\ last' \in [Names -> 0..MaxGen]
        /\ \A m \in Names : dir'[m] \in {0, last'[m]}
        /\ dir'[n] = Opened(n) /\ Opened(n) \in 1..last'[n]
        /\ dir[n] = 0 => ino'[n][Opened(n)].atime = now
    BY ONLY EvictInv, p \in Procs, <2>2, <2>5, <2>6, CreatedMove
  <2>8. TypeOK'
    <3>1. pc' \in [Procs -> Pcs]
      BY <1>2 DEF Consume, TypeOK, Pcs
    <3>2. Opened(n) \in 0..MaxGen
      BY <2>2, <2>7
    <3>3. call' \in [Procs -> Call]
      BY <1>2, <2>1, <2>2, <3>2 DEF Consume, TypeOK, Call, NoCall, Opened, Begin
    <3>4. rc' \in [Procs -> {"none", "OK", "error"}] /\ calls' \in 0..MaxCalls
      BY <1>2 DEF Consume, TypeOK, Begin
    <3> QED BY <1>2, <2>3, <2>7, <3>1, <3>3, <3>4 DEF Consume, TypeOK
  <2>9. InvOf(p)'
    <3>1. CallOf(p)'
      BY <1>2, <2>1, <2>2, <2>3, <2>7 DEF InvOf, CallOf, InConsumption, InRange
    <3>2. LockOf(p)' /\ EvictorOf(p)' /\ ScanOf(p)'
      BY <2>3 DEF LockOf, EvictorOf, ScanOf
    <3>3. call'[p].since # -1 => call'[p].since = now /\ ino'[n][Opened(n)].atime = now
      BY <1>2, <2>1, <2>3, <2>7 DEF Consume
    <3>4. AtimeOf(p)' /\ GraceOf(p)'
      BY <2>1, <2>3, <2>7, <3>3 DEF AtimeOf, GraceOf, InConsumption, Time
    <3> QED BY <3>1, <3>2, <3>4 DEF InvOf
  <2> QED BY <2>7, <2>8, <2>9
<1>3. ASSUME ConsumeWMetadata(p) PROVE Good(p)
  <2>1. PICK n : n = call[p].name
    OBVIOUS
  <2>2. n \in Names /\ pc[p] = "meta"
    BY <1>3, <2>1 DEF ConsumeWMetadata, InvOf, CallOf
  <2>3. /\ pc'[p] = "lock" /\ call'[p].fd = Opened(n) /\ call'[p].name = call[p].name
        /\ call'[p].since = IF dir[n] = 0 THEN now ELSE -1
        /\ now' = now /\ grace' = grace /\ dirlock' = dirlock /\ pass' = pass
    BY <1>3, <2>1 DEF ConsumeWMetadata, TypeOK, Call, NoCall, Opened
  <2>4. \A q \in Procs \ {p} : pc'[q] = pc[q] /\ call'[q] = call[q] /\ pass'[q] = pass[q]
    BY <1>3 DEF ConsumeWMetadata, TypeOK
  <2>5. OthersKept(p) /\ CallKept(p)
    BY <1>3, <2>1, <2>3, <2>4 DEF OthersKept, CallKept, ConsumeWMetadata
  <2>6. Created(n, "empty")
    BY <1>3, <2>1 DEF ConsumeWMetadata
  <2>7. /\ Move(p)
        /\ ino' \in [Names -> [Gen -> Inode]]
        /\ dir' \in [Names -> 0..MaxGen] /\ last' \in [Names -> 0..MaxGen]
        /\ \A m \in Names : dir'[m] \in {0, last'[m]}
        /\ dir'[n] = Opened(n) /\ Opened(n) \in 1..last'[n]
        /\ dir[n] = 0 => ino'[n][Opened(n)].atime = now
    BY ONLY EvictInv, p \in Procs, <2>2, <2>5, <2>6, CreatedMove
  <2>8. TypeOK'
    <3>1. pc' \in [Procs -> Pcs]
      BY <1>3 DEF ConsumeWMetadata, TypeOK, Pcs
    <3>2. Opened(n) \in 0..MaxGen
      BY <2>2, <2>7
    <3>3. call' \in [Procs -> Call]
      BY <1>3, <2>1, <2>2, <3>2 DEF ConsumeWMetadata, TypeOK, Call, NoCall, Opened
    <3>4. rc' \in [Procs -> {"none", "OK", "error"}] /\ calls' \in 0..MaxCalls
      BY <1>3 DEF ConsumeWMetadata, TypeOK
    <3> QED BY <1>3, <2>3, <2>7, <3>1, <3>3, <3>4 DEF ConsumeWMetadata, TypeOK
  <2>9. InvOf(p)'
    <3>1. CallOf(p)'
      BY <1>3, <2>1, <2>2, <2>3, <2>7 DEF InvOf, CallOf, InConsumption, InRange
    <3>2. LockOf(p)' /\ EvictorOf(p)' /\ ScanOf(p)'
      BY <2>3 DEF LockOf, EvictorOf, ScanOf
    <3>3. call'[p].since # -1 => call'[p].since = now /\ ino'[n][Opened(n)].atime = now
      BY <1>3, <2>1, <2>3, <2>7 DEF ConsumeWMetadata
    <3>4. AtimeOf(p)' /\ GraceOf(p)'
      BY <2>1, <2>3, <2>7, <3>3 DEF AtimeOf, GraceOf, InConsumption, Time
    <3> QED BY <3>1, <3>2, <3>4 DEF InvOf
  <2> QED BY <2>7, <2>8, <2>9
<1>4. ASSUME NEW r \in RangeFiles, RangeOpen(p, r) PROVE Good(p)
  <2>1. PICK n : n = Bitmap(r)
    OBVIOUS
  <2>2. n \in Names /\ pc[p] = "idle"
    BY <1>4, <2>1 DEF RangeOpen, InvOf, CallOf, Begin
  <2>3. /\ pc'[p] = "rlook" /\ call'[p].fd = Opened(n) /\ call'[p].name = r
        /\ call'[p].since = -1
        /\ now' = now /\ grace' = grace /\ dirlock' = dirlock /\ pass' = pass
    BY <1>4, <2>1 DEF RangeOpen, TypeOK, Call, NoCall, Opened, Begin
  <2>4. \A q \in Procs \ {p} : pc'[q] = pc[q] /\ call'[q] = call[q] /\ pass'[q] = pass[q]
    BY <1>4 DEF RangeOpen, TypeOK, Begin
  <2>5. OthersKept(p) /\ CallKept(p)
    BY <1>4, <2>1, <2>3, <2>4 DEF OthersKept, CallKept, RangeOpen
  <2>6. Created(n, "empty")
    BY <1>4, <2>1 DEF RangeOpen
  <2>7. /\ Move(p)
        /\ ino' \in [Names -> [Gen -> Inode]]
        /\ dir' \in [Names -> 0..MaxGen] /\ last' \in [Names -> 0..MaxGen]
        /\ \A m \in Names : dir'[m] \in {0, last'[m]}
        /\ dir'[n] = Opened(n) /\ Opened(n) \in 1..last'[n]
        /\ dir[n] = 0 => ino'[n][Opened(n)].atime = now
    BY ONLY EvictInv, p \in Procs, <2>2, <2>5, <2>6, CreatedMove
  <2>8. TypeOK'
    <3>1. pc' \in [Procs -> Pcs]
      BY <1>4 DEF RangeOpen, TypeOK, Pcs
    <3>2. Opened(n) \in 0..MaxGen
      BY <2>2, <2>7
    <3>3. call' \in [Procs -> Call]
      BY <1>4, <2>1, <2>2, <3>2 DEF RangeOpen, TypeOK, Call, NoCall, Opened, Begin
    <3>4. rc' \in [Procs -> {"none", "OK", "error"}] /\ calls' \in 0..MaxCalls
      BY <1>4 DEF RangeOpen, TypeOK, Begin
    <3> QED BY <1>4, <2>3, <2>7, <3>1, <3>3, <3>4 DEF RangeOpen, TypeOK
  <2>9. InvOf(p)'
    <3>1. CallOf(p)'
      BY <1>4, <2>1, <2>2, <2>3, <2>7 DEF InvOf, CallOf, InConsumption, InRange
    <3>2. LockOf(p)' /\ EvictorOf(p)' /\ ScanOf(p)'
      BY <2>3 DEF LockOf, EvictorOf, ScanOf
    <3>3. call'[p].since # -1 => call'[p].since = now /\ ino'[n][Opened(n)].atime = now
      BY <1>4, <2>1, <2>3, <2>7 DEF RangeOpen
    <3>4. AtimeOf(p)' /\ GraceOf(p)'
      BY <2>1, <2>3, <2>7, <3>3 DEF AtimeOf, GraceOf, InConsumption, Time
    <3> QED BY <3>1, <3>2, <3>4 DEF InvOf
  <2> QED BY <2>7, <2>8, <2>9
<1> QED BY <1>1, <1>2, <1>3, <1>4

\* A look at the bitmap.
LEMMA RangeLookStep ==
    ASSUME EvictInv, NEW p \in Procs
    PROVE  /\ RangeLook(p) => Good(p)
<1>0. Placed(p)
  BY Actor
<1> USE Constants, <1>0 DEF Placed, Good, Goto, fsVars, conf
<1>1. ASSUME RangeLook(p) PROVE Good(p)
  <2> USE <1>1 DEF RangeLook
  <2>1. TypeOK'
    BY DEF TypeOK, Pcs
  <2>2. Move(p)
    <3>1. OthersKept(p)
      <4>1. now' = now /\ grace' = grace
        OBVIOUS
      <4>2. dirlock' = dirlock \/ {dirlock, dirlock'} \subseteq {None, p}
        BY DEF InvOf, EvictorOf
      <4>3. \A q \in Procs \ {p} : pc'[q] = pc[q] /\ call'[q] = call[q] /\ pass'[q] = pass[q]
        BY DEF TypeOK
      <4> QED BY <4>1, <4>2, <4>3 DEF OthersKept
    <3>2. CallKept(p)
      BY DEF CallKept, TypeOK
    <3> QED BY <3>1, <3>2, StillMove
  <2>3. InvOf(p)'
    BY DEF TypeOK, InvOf, CallOf, LockOf, EvictorOf, ScanOf, AtimeOf, GraceOf, Made, InConsumption, InRange
  <2> QED BY <2>1, <2>2, <2>3
<1> QED BY <1>1

\* dyad_cons_store() and the release of the lock.
LEMMA StoreStep ==
    ASSUME EvictInv, NEW p \in Procs, StoreDone(p)
    PROVE  Good(p)
<1>0. Placed(p)
  BY Actor
<1> USE Constants, <1>0 DEF Placed, Good, Goto, fsVars, conf
<1>1. PICK n, w, g : n = call[p].name /\ w = call[p].wfd /\ g = call[p].fd
  OBVIOUS
<1>2. /\ pc[p] = "write" /\ pc'[p] = "scan" /\ call' = call /\ pass' = pass /\ dirlock' = dirlock
      /\ now' = now /\ grace' = grace /\ UNCHANGED <<dir, last>>
  BY StoreDone(p) DEF StoreDone, TypeOK
<1>3. n \in Names /\ w \in Gen /\ g \in Gen /\ ino[n][g].lock = p
  BY <1>1, <1>2 DEF InvOf, CallOf, LockOf, InConsumption
<1>4. PICK i : i = Written(ino[n][w])
  OBVIOUS
<1>5. PICK J : J = [ino EXCEPT ![n][w] = i]
  OBVIOUS
<1>6. /\ ino \in [Names -> [Gen -> Inode]]
      /\ i \in Inode /\ i.lock = ino[n][w].lock /\ i.atime = ino[n][w].atime
  BY <1>3, <1>4, InodeForms DEF TypeOK
<1>7. /\ J \in [Names -> [Gen -> Inode]]
      /\ J[n][w] = i
      /\ \A m \in Names, h \in Gen : m # n \/ h # w => J[m][h] = ino[m][h]
  BY <1>3, <1>5, <1>6
<1>8. \A m \in Names, h \in Gen : J[m][h].lock = ino[m][h].lock /\ J[m][h].atime = ino[m][h].atime
  BY <1>6, <1>7
<1>9. PICK j : j = [J[n][g] EXCEPT !.lock = None]
  OBVIOUS
<1>10. j \in Inode /\ j.atime = J[n][g].atime
  <2>1. J[n][g] \in Inode
    BY <1>3, <1>7
  <2> QED BY ONLY <1>9, <2>1, None \notin Procs DEF Inode
<1>11. ino' = [J EXCEPT ![n][g] = j]
  BY StoreDone(p), <1>1, <1>4, <1>5, <1>9 DEF StoreDone
<1>12. /\ ino' \in [Names -> [Gen -> Inode]]
       /\ ino'[n][g] = j
       /\ \A m \in Names, h \in Gen : m # n \/ h # g => ino'[m][h] = J[m][h]
  BY <1>3, <1>7, <1>10, <1>11
<1>13. \A m \in Names, h \in Gen :
         /\ ino'[m][h].atime = ino[m][h].atime /\ ino[m][h].atime \in Time
         /\ ino[m][h].lock # p => ino'[m][h].lock = ino[m][h].lock
  <2>1. \A m \in Names, h \in Gen : ino[m][h].atime \in Time
    BY <1>6 DEF Inode
  <2>2. \A m \in Names, h \in Gen : ino'[m][h].atime = ino[m][h].atime
    BY <1>3, <1>8, <1>10, <1>12
  <2>3. \A m \in Names, h \in Gen : ino[m][h].lock # p => ino'[m][h].lock = ino[m][h].lock
    BY <1>3, <1>8, <1>12
  <2> QED BY <2>1, <2>2, <2>3
<1>14. OthersKept(p) /\ CallKept(p)
  <2>1. \A q \in Procs \ {p} : pc'[q] = pc[q]
    BY StoreDone(p) DEF StoreDone, TypeOK
  <2> QED BY <1>2, <2>1 DEF OthersKept, CallKept
<1>15. Move(p)
  <2>1. InodesKept(p)
    BY <1>13 DEF InodesKept, Time
  <2>2. NamesKept(p)
    BY <1>2 DEF NamesKept
  <2>3. TimesInv'
    BY <1>2, <1>13 DEF TimesInv
  <2> QED BY <1>14, <2>1, <2>2, <2>3 DEF Move
<1>16. TypeOK'
  <2>1. pc' \in [Procs -> Pcs]
    BY StoreDone(p) DEF StoreDone, TypeOK, Pcs
  <2> QED BY StoreDone(p), <1>12, <2>1 DEF StoreDone, TypeOK
<1>17. InvOf(p)'
  <2>1. CallOf(p)' /\ LockOf(p)' /\ EvictorOf(p)' /\ ScanOf(p)' /\ GraceOf(p)'
    BY <1>2 DEF InvOf, CallOf, LockOf, EvictorOf, ScanOf, GraceOf, InConsumption, InRange
  <2>2. AtimeOf(p)'
    BY <1>2, <1>13, SinceOf DEF InvOf, AtimeOf
  <2> QED BY <2>1, <2>2 DEF InvOf
<1> QED BY <1>15, <1>16, <1>17

\* The files of the directory, as the scan of it counts them.
LEMMA ScanTypes ==
    ASSUME EvictInv
    PROVE  /\ TotalSize \in 0..Cardinality(Names)
           /\ Candidates \in SUBSET Entry
           /\ \A e \in Candidates :
                /\ e.name \in Names /\ dir[e.name] # 0
                /\ e.atime = ino[e.name][dir[e.name]].atime
           /\ \A e, x \in Candidates : x.name = e.name => x = e
<1>1. TotalSize \in 0..Cardinality(Names)
  <2>1. PICK S : S = {n \in Names : Size(n) = 1}
    OBVIOUS
  <2>2. S \in SUBSET Names /\ IsFiniteSet(Names)
    BY <2>1, EvictAssumption
  <2>3. Cardinality(S) <= Cardinality(Names) /\ Cardinality(S) \in Nat
    BY <2>2, FS_Subset, FS_CardinalityType
  <2> QED BY <2>1, <2>3, Constants DEF TotalSize
<1>2. \A n \in Names : dir[n] # 0 =>
        ino[n][dir[n]].atime \in Time /\ ino[n][dir[n]].mtime \in Time
  <2>1. \A n \in Names : dir[n] \in 0..MaxGen
    BY DEF EvictInv, TypeOK
  <2>2. \A n \in Names, g \in Gen : ino[n][g].atime \in Time /\ ino[n][g].mtime \in Time
    BY DEF EvictInv, TypeOK, Inode
  <2> QED BY <2>1, <2>2, Constants DEF Gen
<1>3. Candidates \in SUBSET Entry
  BY <1>2 DEF Candidates, Entry, RecencyKey, Size
<1> QED BY <1>1, <1>3 DEF Candidates

\* The second scan of an evictor: what processes have just made is in the
\* directory with an access time that is not before its creation.
LEMMA RescanStep ==
    ASSUME EvictInv, NEW p \in Procs, Rescan(p)
    PROVE  Good(p)
<1>0. Placed(p)
  BY Actor
<1> USE Constants, <1>0 DEF Placed, Good, Goto, fsVars, conf
<1>1. /\ pc[p] = "rescan" /\ call' = call /\ now' = now /\ grace' = grace
      /\ UNCHANGED <<dir, last, ino, calls, rc, policy, faults>>
  BY Rescan(p) DEF Rescan
<1>2. dirlock = p
  BY <1>1 DEF InvOf, EvictorOf
<1>3. CASE TotalSize <= Capacity
  <2>1. pc' = [pc EXCEPT ![p] = "read"] /\ dirlock' = None /\ pass' = pass
    BY <1>3, Rescan(p) DEF Rescan
  <2>2. OthersKept(p) /\ CallKept(p)
    BY <1>1, <1>2, <2>1 DEF OthersKept, CallKept, TypeOK
  <2>3. TypeOK'
    BY <1>1, <2>1 DEF TypeOK, Pcs
  <2>4. InvOf(p)'
    BY <1>1, <2>1 DEF TypeOK, InvOf, CallOf, LockOf, EvictorOf, ScanOf, AtimeOf, GraceOf, InConsumption, InRange
  <2> QED BY <1>1, <2>2, <2>3, <2>4, StillMove
<1>4. CASE ~(TotalSize <= Capacity)
  <2>1. /\ pc' = [pc EXCEPT ![p] = "victim"] /\ dirlock' = dirlock
        /\ pass' = [pass EXCEPT ![p] = [pass[p] EXCEPT !.entries = Candidates, !.total = TotalSize,
                                                  !.started = now]]
    BY <1>4, Rescan(p) DEF Rescan
  <2>2. OthersKept(p) /\ CallKept(p)
    BY <1>1, <2>1 DEF OthersKept, CallKept, TypeOK
  <2>3. TypeOK'
    <3>1. pass' \in [Procs -> Pass]
      <4>1. PICK r : r = [pass[p] EXCEPT !.entries = Candidates, !.total = TotalSize, !.started = now]
        OBVIOUS
      <4>2. pass[p] \in Pass
        BY DEF TypeOK
      <4>3. r \in Pass
        BY ONLY <4>1, <4>2, EvictInv, ScanTypes, now \in Time DEF Pass
      <4> QED BY <2>1, <4>1, <4>3 DEF TypeOK
    <3> QED BY <1>1, <2>1, <3>1 DEF TypeOK, Pcs
  <2>4. pc'[p] = "victim" /\ pass'[p].entries = Candidates /\ pass'[p].started = now
    BY <2>1 DEF TypeOK, Pass
  <2>5. ScanOf(p)'
    <3>1. \A q \in Procs, n \in Names : Made(q, n) => call[q].since <= ino[n][dir[n]].atime
      BY DEF EvictInv, InvOf, AtimeOf, Made
    <3>2. \A e \in Candidates, q \in Procs : Made(q, e.name) => call[q].since <= e.atime
      BY <3>1, ScanTypes
    <3>3. now <= now
      BY DEF Time
    <3> QED BY <1>1, <2>4, <3>2, <3>3, ScanTypes DEF ScanOf, Made
  <2>6. CallOf(p)' /\ LockOf(p)' /\ EvictorOf(p)' /\ AtimeOf(p)' /\ GraceOf(p)'
    BY <1>1, <1>2, <2>1, <2>4 DEF InvOf, CallOf, LockOf, EvictorOf, AtimeOf, GraceOf, InConsumption, InRange
  <2> QED BY <1>1, <2>2, <2>3, <2>5, <2>6, StillMove DEF InvOf
<1> QED BY <1>3, <1>4

\* A candidate that the scan has seen within the grace period is passed over.
LEMMA NextVictimStep ==
    ASSUME EvictInv, NEW p \in Procs, NextVictim(p)
    PROVE  Good(p)
<1>0. Placed(p)
  BY Actor
<1> USE Constants, <1>0 DEF Placed, Good, Goto, fsVars, conf
<1>1. /\ pc[p] = "victim" /\ call' = call /\ now' = now /\ grace' = grace /\ dirlock' = dirlock
      /\ UNCHANGED <<dir, last, ino, calls, rc, policy, faults>>
      /\ pass[p].total > Low
  BY NextVictim(p) DEF NextVictim
<1>2. /\ pass[p].started <= now /\ pass[p].started \in Time
      /\ pass[p].total \in Nat /\ pass[p].entries \in SUBSET Entry
      /\ \A e \in pass[p].entries :
          /\ dir[e.name] # 0
          /\ \A x \in pass[p].entries : x.name = e.name => x = e
          /\ \A q \in Procs : Made(q, e.name) => call[q].since <= e.atime
  BY <1>1 DEF InvOf, ScanOf, TypeOK, Pass
<1>3. PICK e \in pass[p].entries :
        IF pass[p].started - e.atime < grace \/ dir[e.name] = 0
        THEN pass' = [pass EXCEPT ![p].entries = @ \ {e}] /\ UNCHANGED pc
        ELSE /\ pass' = [pass EXCEPT ![p] = [pass[p] EXCEPT !.entries = @ \ {e}, !.name = e.name,
                                                   !.gen = dir[e.name], !.size = e.size]]
             /\ pc' = [pc EXCEPT ![p] = "try"]
  BY NextVictim(p) DEF NextVictim, Oldest
<1>4. /\ e \in Entry /\ e.name \in Names /\ e.atime \in Time /\ e.size \in {0, 1}
      /\ dir[e.name] # 0 /\ dir[e.name] \in 0..MaxGen
  BY <1>2 DEF Entry
<1>5. OthersKept(p) /\ CallKept(p)
  BY <1>1, <1>3 DEF OthersKept, CallKept, TypeOK
<1>6. CallOf(p)' /\ LockOf(p)' /\ AtimeOf(p)' /\ GraceOf(p)'
  BY <1>1, <1>3 DEF TypeOK, InvOf, CallOf, LockOf, AtimeOf, GraceOf, InConsumption, InRange
<1>7. CASE pass[p].started - e.atime < grace
  <2>1. pass' = [pass EXCEPT ![p].entries = @ \ {e}] /\ UNCHANGED pc
    BY <1>3, <1>7
  <2>2. pass' \in [Procs -> Pass]
    <3>1. PICK r : r = [pass[p] EXCEPT !.entries = @ \ {e}]
      OBVIOUS
    <3>0. pass[p] \in Pass
      BY DEF TypeOK
    <3>2. r \in Pass
      BY ONLY <3>0, <3>1 DEF Pass
    <3> QED BY <2>1, <3>1, <3>2 DEF TypeOK
  <2>3. TypeOK'
    BY <1>1, <2>1, <2>2 DEF TypeOK
  <2>4. /\ pass'[p].entries = pass[p].entries \ {e} /\ pass'[p].started = pass[p].started
    BY <2>1 DEF TypeOK, Pass
  <2>5. EvictorOf(p)' /\ ScanOf(p)'
    BY <1>1, <1>2, <2>1, <2>4 DEF InvOf, EvictorOf, ScanOf, Made
  <2> QED BY <1>1, <1>5, <1>6, <2>3, <2>5, StillMove DEF InvOf
<1>8. CASE ~(pass[p].started - e.atime < grace)
  <2>1. /\ pass' = [pass EXCEPT ![p] = [pass[p] EXCEPT !.entries = @ \ {e}, !.name = e.name,
                                               !.gen = dir[e.name], !.size = e.size]]
        /\ pc' = [pc EXCEPT ![p] = "try"]
    BY <1>3, <1>4, <1>8
  <2>2. pass' \in [Procs -> Pass]
    <3>1. PICK r : r = [pass[p] EXCEPT !.entries = @ \ {e}, !.name = e.name,
                                      !.gen = dir[e.name], !.size = e.size]
      OBVIOUS
    <3>0. pass[p] \in Pass
      BY DEF TypeOK
    <3>2. r \in Pass
      BY ONLY <3>0, <1>4, <3>1 DEF Pass
    <3> QED BY <2>1, <3>1, <3>2 DEF TypeOK
  <2>3. TypeOK'
    BY <1>1, <2>1, <2>2 DEF TypeOK, Pcs
  <2>4. /\ pass'[p].entries = pass[p].entries \ {e} /\ pass'[p].started = pass[p].started
        /\ pass'[p].name = e.name /\ pass'[p].gen = dir[e.name] /\ pass'[p].total = pass[p].total
        /\ pc'[p] = "try"
    <3>1. PICK r : r = [pass[p] EXCEPT !.entries = @ \ {e}, !.name = e.name,
                                      !.gen = dir[e.name], !.size = e.size]
      OBVIOUS
    <3>2. pass[p] \in Pass /\ pass \in [Procs -> Pass]
      BY DEF TypeOK
    <3>3. /\ r.entries = pass[p].entries \ {e} /\ r.started = pass[p].started
          /\ r.name = e.name /\ r.gen = dir[e.name] /\ r.total = pass[p].total
      BY ONLY <3>1, <3>2 DEF Pass
    <3>4. pass'[p] = r /\ pc'[p] = "try"
      BY <2>1, <3>1, <3>2 DEF TypeOK
    <3> QED BY <3>3, <3>4
  <2>5. \A q \in Procs : Made(q, e.name) => now - call[q].since >= grace
    <3>1. \A q \in Procs : call[q].since \in Int
      BY DEF TypeOK, Call, Time
    <3> QED BY <1>2, <1>4, <1>8, <3>1 DEF Time
  <2>6. EvictorOf(p)'
    BY <1>1, <1>2, <1>4, <2>4 DEF InvOf, EvictorOf
  <2>7. ScanOf(p)'
    BY <1>1, <1>2, <2>4, <2>5 DEF ScanOf, Made
  <2> QED BY <1>1, <1>5, <1>6, <2>3, <2>6, <2>7, StillMove DEF InvOf
<1> QED BY <1>7, <1>8

\* The unlink(), of the inode that the evictor has opened and locked.
LEMMA UnlinkStep ==
    ASSUME EvictInv, NEW p \in Procs, Unlink(p)
    PROVE  Good(p)
<1>0. Placed(p)
  BY Actor
<1> USE Constants, <1>0 DEF Placed, Good, Goto, fsVars, conf
<1>1. PICK n, g : n = pass[p].name /\ g = pass[p].gen
  OBVIOUS
<1>2. /\ pc[p] = "unlink" /\ call' = call /\ now' = now /\ grace' = grace /\ dirlock' = dirlock
      /\ UNCHANGED <<last, calls, rc, policy, faults>>
      /\ dir' = [dir EXCEPT ![n] = 0]
      /\ ino' = [ino EXCEPT ![n][g].lock = None]
      /\ pass' = [pass EXCEPT ![p].total = @ - pass[p].size]
      /\ pc' = [pc EXCEPT ![p] = "victim"]
  BY <1>1, Unlink(p) DEF Unlink
<1>3. /\ n \in Names /\ g \in Gen /\ dir[n] = g /\ ino[n][g].lock = p
      /\ dirlock = p
      /\ pass[p].total > 0 /\ pass[p].total \in 0..Cardinality(Names) /\ pass[p].size \in {0, 1}
  BY <1>1, <1>2 DEF InvOf, EvictorOf, TypeOK, Pass, Gen
<1>4. PICK i : i = [ino[n][g] EXCEPT !.lock = None]
  OBVIOUS
<1>5. i \in Inode /\ i.atime = ino[n][g].atime
  BY <1>3, <1>4 DEF Inode
<1>6. /\ ino' \in [Names -> [Gen -> Inode]]
      /\ ino'[n][g] = i
      /\ \A m \in Names, h \in Gen : m # n \/ h # g => ino'[m][h] = ino[m][h]
  BY <1>2, <1>3, <1>4, <1>5 DEF TypeOK
<1>7. OthersKept(p) /\ CallKept(p)
  BY <1>2 DEF OthersKept, CallKept, TypeOK
<1>8. \A m \in Names, h \in Gen :
        ino'[m][h].atime = ino[m][h].atime /\ ino[m][h].atime \in Time
  <2>1. \A m \in Names, h \in Gen : ino[m][h].atime \in Time
    BY DEF TypeOK, Inode
  <2> QED BY <1>5, <1>6, <2>1
<1>9. Move(p)
  <2>1. InodesKept(p)
    BY <1>3, <1>6, <1>8 DEF InodesKept, Time
  <2>2. NamesKept(p)
    BY <1>1, <1>2 DEF NamesKept, TypeOK
  <2>3. TimesInv'
    BY <1>2, <1>8 DEF TimesInv
  <2> QED BY <1>7, <2>1, <2>2, <2>3 DEF Move
<1>10. TypeOK'
  <2>1. pass[p].total - pass[p].size \in 0..Cardinality(Names)
    BY <1>3
  <2>2. pass' \in [Procs -> Pass]
    <3>1. PICK r : r = [pass[p] EXCEPT !.total = pass[p].total - pass[p].size]
      OBVIOUS
    <3>0. pass[p] \in Pass
      BY DEF TypeOK
    <3>2. r \in Pass
      BY ONLY <3>0, <2>1, <3>1 DEF Pass
    <3> QED BY <1>2, <3>1, <3>2 DEF TypeOK
  <2>3. dir' \in [Names -> 0..MaxGen] /\ \A m \in Names : dir'[m] \in {0, last'[m]}
    <3>0. dir \in [Names -> 0..MaxGen]
      BY DEF TypeOK
    <3>1. dir' \in [Names -> 0..MaxGen]
      <4>1. 0 \in 0..MaxGen
        BY Constants
      <4>2. dir' = [dir EXCEPT ![n] = 0]
        BY <1>2
      <4> QED BY ONLY <3>0, <4>1, <4>2
    <3>2. \A m \in Names : dir'[m] \in {0, dir[m]}
      BY <1>2 DEF TypeOK
    <3>3. \A m \in Names : dir[m] \in {0, last[m]} /\ last'[m] = last[m]
      BY <1>2 DEF TypeOK
    <3> QED BY <3>1, <3>2, <3>3
  <2> QED BY <1>2, <1>6, <2>2, <2>3 DEF TypeOK, Pcs
<1>11. InvOf(p)'
  <2>1. /\ pc'[p] = "victim" /\ pass'[p].entries = pass[p].entries
        /\ pass'[p].started = pass[p].started
    BY <1>2 DEF TypeOK
  <2>2. CallOf(p)' /\ LockOf(p)' /\ EvictorOf(p)'
    BY <1>2, <1>3, <2>1 DEF InvOf, CallOf, LockOf, EvictorOf, InConsumption, InRange
  <2>3. AtimeOf(p)'
    BY <1>2, <1>8, SinceOf DEF InvOf, AtimeOf
  <2>4. ScanOf(p)'
    <3>1. \A e \in pass[p].entries : e.name \in Names /\ e.name # n /\ dir'[e.name] = dir[e.name]
      BY <1>1, <1>2 DEF InvOf, ScanOf, TypeOK, Pass, Entry
    <3> QED BY <1>2, <2>1, <3>1 DEF InvOf, ScanOf, Made
  <2>5. GraceOf(p)'
    <3> SUFFICES ASSUME call[p].since # -1, now - call[p].since < grace
                 PROVE  dir'[call[p].name] = call[p].fd
      BY <1>2 DEF GraceOf
    <3>1. dir[call[p].name] = call[p].fd /\ call[p].name \in Names
      BY <1>2 DEF InvOf, GraceOf, CallOf, InConsumption
    <3>2. call[p].name # n
      BY <1>1, <1>2, <3>1 DEF InvOf, ScanOf, Made, Call, Time
    <3> QED BY <1>2, <3>1, <3>2 DEF TypeOK
  <2> QED BY <2>2, <2>3, <2>4, <2>5 DEF InvOf
<1> QED BY <1>9, <1>10, <1>11

\* The slow path of dyad_range_cache_ensure() under its lock: the bitmap is
\* sized, and so is the file, which is made if it is not there.
LEMMA RangeRecheckStep ==
    ASSUME EvictInv, NEW p \in Procs, RangeRecheck(p)
    PROVE  Good(p)
<1>0. Placed(p)
  BY Actor
<1> USE Constants, <1>0 DEF Placed, Good, Goto, fsVars, conf
<1>1. /\ pc[p] = "rexcl" /\ call' = call /\ now' = now /\ grace' = grace /\ dirlock' = dirlock
      /\ UNCHANGED <<pass, calls, rc, policy, faults>>
  BY RangeRecheck(p) DEF RangeRecheck
<1>2. pc' \in [Procs -> Pcs] /\ pc'[p] \in {"rread", "rfetch"} /\ \A q \in Procs \ {p} : pc'[q] = pc[q]
  <2>1. PICK to \in {"rread", "rfetch"} : pc' = [pc EXCEPT ![p] = to]
    BY RangeRecheck(p) DEF RangeRecheck
  <2> QED BY <2>1 DEF TypeOK, Pcs
<1>3. OthersKept(p) /\ CallKept(p)
  BY <1>1, <1>2 DEF OthersKept, CallKept
<1>4. PICK n, b, h : n = call[p].name /\ b = Bitmap(call[p].name) /\ h = call[p].fd
  OBVIOUS
<1>5. /\ n \in RangeFiles /\ n \in Names /\ b \in Names /\ h \in 1..last[b] /\ h \in Gen
      /\ call[p].since = -1
  BY <1>1, <1>4 DEF InvOf, CallOf, InRange
<1>6. TypeOK
  OBVIOUS
<1>7. ASSUME Move(p), ino' \in [Names -> [Gen -> Inode]], dir' \in [Names -> 0..MaxGen],
             last' \in [Names -> 0..MaxGen], \A m \in Names : dir'[m] \in {0, last'[m]}
      PROVE  Good(p)
  <2>1. TypeOK'
    BY <1>1, <1>2, <1>7 DEF TypeOK
  <2>2. InvOf(p)'
    <3>1. CallOf(p)'
      BY <1>1, <1>2, <1>4, <1>5, <1>7 DEF CallOf, InConsumption, InRange, Move, NamesKept
    <3> QED BY <1>1, <1>2, <1>4, <1>5, <3>1
            DEF InvOf, LockOf, EvictorOf, ScanOf, AtimeOf, GraceOf, InConsumption
  <2> QED BY <1>7, <2>1, <2>2
<1>8. CASE ino[b][h].data # "empty"
  <2>1. UNCHANGED <<dir, last, ino>>
    BY <1>4, <1>8, RangeRecheck(p) DEF RangeRecheck
  <2>2. Move(p)
    BY ONLY EvictInv, p \in Procs, <1>3, <2>1, StillMove DEF fsVars
  <2> QED BY <1>7, <2>1, <2>2 DEF TypeOK
<1>9. CASE ino[b][h].data = "empty"
  <2>1. PICK g : g = Opened(n)
    OBVIOUS
  <2>2. PICK i : i = Sized(ino[b][h])
    OBVIOUS
  <2>3. PICK J : J = [ino EXCEPT ![b][h] = i]
    OBVIOUS
  <2>4. PICK j : j = Prepared(n, J[n][g])
    OBVIOUS
  <2>5. /\ dir[n] = 0 => last[n] < MaxGen
        /\ dir' = [dir EXCEPT ![n] = g]
        /\ last' = [last EXCEPT ![n] = IF dir[n] = 0 THEN g ELSE @]
        /\ ino' = [J EXCEPT ![n][g] = j]
    <3>1. /\ dir[n] = 0 => last[n] < MaxGen
          /\ dir' = [dir EXCEPT ![n] = g]
          /\ last' = [last EXCEPT ![n] = IF dir[n] = 0 THEN g ELSE @]
      BY <1>4, <1>9, <2>1, RangeRecheck(p) DEF RangeRecheck
    <3>2. J = [ino EXCEPT ![b][h] = Sized(@)]
      BY ONLY <2>2, <2>3
    <3>3. ino' = [J EXCEPT ![n][g] = Prepared(n, @)]
      BY <1>4, <1>9, <2>1, <3>2, RangeRecheck(p) DEF RangeRecheck
    <3>4. ino' = [J EXCEPT ![n][g] = j]
      BY ONLY <2>4, <3>3
    <3> QED BY <3>1, <3>4
  <2>6. g \in Gen /\ g = (IF dir[n] = 0 THEN last[n] + 1 ELSE dir[n]) /\ last[n] \in 0..MaxGen
    BY <1>5, <2>1, <2>5 DEF Opened, Gen
  <2>7. i \in Inode /\ i.lock = ino[b][h].lock /\ i.atime = ino[b][h].atime
    BY <1>5, <2>2, InodeForms
  <2>8. /\ J \in [Names -> [Gen -> Inode]] /\ J[b][h] = i
        /\ \A m \in Names, k \in Gen : m # b \/ k # h => J[m][k] = ino[m][k]
    <3>1. ino \in [Names -> [Gen -> Inode]]
      BY DEF TypeOK
    <3> QED BY ONLY <1>5, <2>3, <2>7, <3>1
  <2>9. \A m \in Names, k \in Gen : J[m][k].lock = ino[m][k].lock /\ J[m][k].atime = ino[m][k].atime
    BY <2>7, <2>8
  <2>10. /\ j \in Inode
         /\ dir[n] = 0 => j.atime = now
         /\ dir[n] # 0 => j.lock = J[n][g].lock /\ j.atime = J[n][g].atime
    <3>1. J[n][g] \in Inode
      BY <1>5, <2>6, <2>8
    <3>2. CASE dir[n] = 0
      BY <2>4, <3>2 DEF Prepared, Inode
    <3>3. CASE dir[n] # 0
      BY <2>4, <3>1, <3>3, InodeForms DEF Prepared
    <3> QED BY <3>2, <3>3
  <2>11. /\ ino' \in [Names -> [Gen -> Inode]] /\ ino'[n][g] = j
         /\ \A m \in Names, k \in Gen : m # n \/ k # g => ino'[m][k] = J[m][k]
    BY ONLY <1>5, <2>5, <2>6, <2>8, <2>10
  <2>12. \A m \in Names, k \in Gen : ino[m][k].atime \in Time /\ ino[m][k].atime <= now
    BY DEF TypeOK, Inode, TimesInv
  <2>13. InodesKept(p)
    <3>1. \A m \in Names : \A k \in 1..last[m] : k \in Gen /\ (dir[n] = 0 => m # n \/ k # g)
      BY <1>5, <2>6
    <3>2. ASSUME NEW m \in Names, NEW k \in 1..last[m]
          PROVE  ino'[m][k].lock = ino[m][k].lock /\ ino'[m][k].atime = ino[m][k].atime
      BY <2>9, <2>10, <2>11, <3>1
    <3> QED BY <2>12, <3>1, <3>2 DEF InodesKept, Time
  <2>14. NamesKept(p)
    BY <1>1, <1>5, <2>5, <2>6 DEF NamesKept, TypeOK
  <2>15. TimesInv'
    BY <1>1, <2>9, <2>10, <2>11, <2>12 DEF TimesInv, Time
  <2>16. /\ dir' \in [Names -> 0..MaxGen] /\ last' \in [Names -> 0..MaxGen]
         /\ \A m \in Names : dir'[m] \in {0, last'[m]}
    <3>1. dir \in [Names -> 0..MaxGen] /\ last \in [Names -> 0..MaxGen] /\ g \in 0..MaxGen
      BY <2>6 DEF TypeOK, Gen
    <3>2. last' \in [Names -> 0..MaxGen] /\ dir' \in [Names -> 0..MaxGen]
      BY ONLY <1>5, <2>5, <3>1
    <3>3. \A m \in Names : dir[m] \in {0, last[m]}
      BY DEF TypeOK
    <3> QED BY ONLY <1>5, <2>5, <2>6, <3>1, <3>2, <3>3
  <2> QED BY <1>3, <1>7, <2>11, <2>13, <2>14, <2>15, <2>16 DEF Move
<1> QED BY <1>8, <1>9

-----------------------------------------------------------------------------
\* Every step of a process is one that the lemmas of its action speak of.
LEMMA StepIsGood ==
    ASSUME EvictInv, NEW p \in Procs, Step(p)
    PROVE  Good(p)
<1>1. CASE Consumption(p)
  <2>1. CASE StoreDone(p)
    BY <2>1, StoreStep
  <2>2. CASE OpenCopyFails(p)
    BY <2>2, ErrorSteps
  <2>3. CASE GetData(p)
    BY <2>3, QuietSteps
  <2>4. CASE ConsumeWMetadata(p)
    BY <2>4, OpenSteps
  <2>5. CASE Read(p)
    BY <2>5, VisitSteps
  <2> QED BY <1>1, <2>1, <2>2, <2>3, <2>4, <2>5, CallSteps DEF Consumption
<1>2. CASE Eviction(p)
  <2>1. CASE Rescan(p)
    BY <2>1, RescanStep
  <2>2. CASE NextVictim(p)
    BY <2>2, NextVictimStep
  <2>3. CASE Unlink(p)
    BY <2>3, UnlinkStep
  <2>4. CASE TryLock(p) \/ UnlinkFails(p)
    BY <2>4, OtherInodeSteps
  <2> QED BY <1>2, <2>1, <2>2, <2>3, <2>4, QuietSteps DEF Eviction
<1>3. CASE RangeConsumption(p)
  <2>1. CASE RangeLook(p)
    BY <2>1, RangeLookStep
  <2>2. CASE RangeRecheck(p)
    BY <2>2, RangeRecheckStep
  <2>3. CASE RangeFetchFails(p) \/ RangeReadFails(p)
    BY <2>3, ErrorSteps
  <2> QED BY <1>3, <2>1, <2>2, <2>3, OtherInodeSteps DEF RangeConsumption
<1> QED BY <1>1, <1>2, <1>3 DEF Step

\* So does the begin of every call.
LEMMA BeginIsGood ==
    ASSUME EvictInv, NEW p \in Procs,
           \/ \E f \in LocalFiles : ProduceOpen(p, f)
           \/ \E f \in Files : GetMetadata(p, f) \/ Consume(p, f)
           \/ \E r \in RangeFiles : RangeOpen(p, r)
    PROVE  Good(p)
<1>1. ASSUME NEW f \in LocalFiles, ProduceOpen(p, f) PROVE Good(p)
  BY <1>1, OpenSteps
<1>2. ASSUME NEW f \in Files, GetMetadata(p, f) PROVE Good(p)
  BY <1>2, VisitSteps
<1>3. ASSUME NEW f \in Files, Consume(p, f) PROVE Good(p)
  BY <1>3, OpenSteps
<1>4. ASSUME NEW r \in RangeFiles, RangeOpen(p, r) PROVE Good(p)
  BY <1>4, OpenSteps
<1> QED BY <1>1, <1>2, <1>3, <1>4

\* Every step preserves the invariant: that of the process that takes it by the
\* lemma of its action, that of the others by what a step leaves alone.
LEMMA EvictStep == EvictInv /\ [Next]_vars => EvictInv'
<1> SUFFICES ASSUME EvictInv, [Next]_vars PROVE EvictInv'
  OBVIOUS
<1>1. ASSUME NEW p \in Procs, Good(p) PROVE EvictInv'
  <2>1. TypeOK' /\ InvOf(p)' /\ TimesInv' /\ Move(p)
    BY <1>1 DEF Good, Move
  <2>2. \A q \in Procs \ {p} : InvOf(q)'
    BY <2>1, OthersHold
  <2> QED BY <2>1, <2>2 DEF EvictInv
<1>2. CASE Tick
  <2> USE <1>2, Constants DEF Tick, conf, fsVars
  <2>1. TypeOK'
    BY DEF EvictInv, TypeOK, Time
  <2>2. TimesInv'
    <3>1. \A n \in Names, g \in Gen : ino[n][g].atime \in Time
      BY DEF EvictInv, TypeOK, Inode
    <3> QED BY <3>1 DEF EvictInv, TypeOK, TimesInv, Time
  <2>3. ASSUME NEW p \in Procs PROVE InvOf(p)'
    <3>0. Placed(p)
      BY Actor
    <3>1. CallOf(p)' /\ LockOf(p)' /\ EvictorOf(p)'
      BY <3>0 DEF Placed, InvOf, CallOf, LockOf, EvictorOf
    <3>2. \A q \in Procs : call[q].since \in Int
      BY DEF EvictInv, TypeOK, Call, Time
    <3>3. pass[p].started \in Int /\ now \in Int /\ now' = now + 1 /\ grace' = grace /\ grace \in Nat
      BY <3>0 DEF Placed, TypeOK, Pass, Time
    <3>4. ScanOf(p)'
      BY <3>0, <3>2, <3>3 DEF Placed, InvOf, ScanOf, Made
    <3>5. AtimeOf(p)' /\ GraceOf(p)'
      BY <3>0, <3>2, <3>3 DEF Placed, InvOf, AtimeOf, GraceOf
    <3> QED BY <3>1, <3>4, <3>5 DEF InvOf
  <2> QED BY <2>1, <2>2, <2>3 DEF EvictInv
<1>3. CASE UNCHANGED vars
  BY <1>3 DEF vars, conf, fsVars, EvictInv, TypeOK, TimesInv, InvOf, CallOf, LockOf, EvictorOf, ScanOf,
              Made, AtimeOf, GraceOf
<1> QED
  BY <1>1, <1>2, <1>3, StepIsGood, BeginIsGood DEF Next

\* Initially nothing is in the directory and nobody in a call.
LEMMA EvictInit == Init => EvictInv
<1> SUFFICES ASSUME Init PROVE EvictInv
  OBVIOUS
<1> USE Constants DEF Init
<1>1. TypeOK
  <2>1. conf \in Confs
    <3>1. PICK c \in Confs : policy = c[1] /\ grace = c[2] /\ faults = c[3]
      OBVIOUS
    <3>2. c = <<c[1], c[2], c[3]>>
      BY EvictAssumption
    <3> QED BY <3>1, <3>2 DEF conf
  <2>2. now \in Time /\ calls \in 0..MaxCalls /\ dirlock \in Procs \cup {None}
    BY DEF Time
  <2>3. /\ dir \in [Names -> 0..MaxGen] /\ last \in [Names -> 0..MaxGen]
        /\ \A n \in Names : dir[n] \in {0, last[n]}
    OBVIOUS
  <2>4. ino \in [Names -> [Gen -> Inode]]
    BY DEF Inode, Time
  <2>5. /\ pc \in [Procs -> Pcs] /\ call \in [Procs -> Call] /\ pass \in [Procs -> Pass]
        /\ rc \in [Procs -> {"none", "OK", "error"}]
    BY NoPassTyped DEF Pcs
  <2> QED BY <2>1, <2>2, <2>3, <2>4, <2>5 DEF TypeOK
<1>2. TimesInv
  BY DEF TimesInv
<1>3. ASSUME NEW p \in Procs PROVE InvOf(p)
  <2>1. pc[p] = "idle" /\ call[p].since = -1
    OBVIOUS
  <2> QED BY <2>1 DEF InvOf, CallOf, LockOf, EvictorOf, ScanOf, AtimeOf, GraceOf, InConsumption, InRange
<1> QED BY <1>1, <1>2, <1>3 DEF EvictInv

\* The invariant that both theorems rest on.
LEMMA EvictInvariant == Spec => []EvictInv
<1> QED BY EvictInit, EvictStep, PTL DEF Spec

\* An evictor removes the very inode that it has opened and locked, and none that
\* a process has made within the grace period.
THEOREM VictimsAreSound == Spec => []VictimsSound
<1>1. EvictInv => VictimsSound
  <2> SUFFICES ASSUME EvictInv PROVE VictimsSound
    OBVIOUS
  <2>1. UnlinksWhatItLocked
    BY DEF EvictInv, InvOf, EvictorOf, UnlinksWhatItLocked
  <2>2. GraceKeepsNewFile
    BY DEF EvictInv, InvOf, GraceOf, GraceKeepsNewFile, InConsumption
  <2> QED BY <2>1, <2>2 DEF VictimsSound, EvictInv
<1> QED BY <1>1, EvictInvariant, PTL

\* What a consumer with the lock does itself.
LEMMA FetchSteps ==
    ASSUME EvictInv, NEW p \in Procs, Step(p), pc[p] \in {"size", "fetch", "store", "write"}
    PROVE  \/ pc'[p] \in {"idle", "scan", "read"}
           \/ /\ pc'[p] \in {"size", "fetch", "store", "write"}
              /\ call'[p].name = call[p].name /\ call'[p].fd = call[p].fd
<1>0. pc \in [Procs -> Pcs] /\ call \in [Procs -> Call]
  BY DEF EvictInv, TypeOK
<1>1. \/ CheckSize(p) \/ GetData(p) \/ GetDataFails(p) \/ OpenCopy(p) \/ OpenCopyFails(p)
      \/ StoreDone(p) \/ StoreFails(p)
  BY DEF Step, Consumption, Produce, ConsumeWMetadata, Lock, Read, Eviction, Scan, EvictFails, DirLock, Rescan,
         NextVictim, TryLock, Unlink, UnlinkFails, EvictDone, RangeConsumption, RangeLook,
         RangeRecheck, RangeFetch, RangeFetchFails, RangeRecord, RangeRead, RangeReadFails
<1>2. CASE CheckSize(p)
  BY <1>0, <1>2 DEF CheckSize, Goto
<1>3. CASE GetData(p)
  BY <1>0, <1>3 DEF GetData, Goto
<1>4. CASE GetDataFails(p)
  BY <1>0, <1>4 DEF GetDataFails, Return, Goto
<1>5. CASE OpenCopy(p)
  BY <1>0, <1>5 DEF OpenCopy, Goto, Call
<1>6. CASE OpenCopyFails(p)
  BY <1>0, <1>6 DEF OpenCopyFails, Return, Goto
<1>7. CASE StoreDone(p)
  BY <1>0, <1>7 DEF StoreDone, Goto
<1>8. CASE StoreFails(p)
  BY <1>0, <1>8 DEF StoreFails, Return, Goto
<1> QED BY <1>1, <1>2, <1>3, <1>4, <1>5, <1>6, <1>7, <1>8

\* What a consumer has under lock stays in the directory until it lets it go,
\* whoever evicts: the evictor unlinks only what it has locked itself.
THEOREM FetchedIsNotEvicted == Spec => NoEvictionUnderFetch
<1>1. ASSUME EvictInv, [Next]_vars, NEW p \in Procs, Fetching(p)
      PROVE  Fetching(p)' \/ pc'[p] \in {"idle", "scan", "read"}
  <2>1. /\ pc[p] \in {"size", "fetch", "store", "write"}
        /\ dir[call[p].name] = call[p].fd
    BY <1>1 DEF Fetching
  <2>2. /\ call[p].name \in Names /\ call[p].fd # 0
        /\ ino[call[p].name][call[p].fd].lock = p
    BY <1>1, <2>1, Constants DEF EvictInv, InvOf, CallOf, LockOf, InConsumption
  <2>3. ASSUME NEW q \in Procs, Move(q)
        PROVE  dir'[call[p].name] = call[p].fd
    <3>1. ~(pc[q] = "unlink" /\ call[p].name = pass[q].name)
      <4> SUFFICES ASSUME pc[q] = "unlink", call[p].name = pass[q].name PROVE FALSE
        OBVIOUS
      <4>1. ino[pass[q].name][pass[q].gen].lock = q /\ dir[pass[q].name] = pass[q].gen
        BY <1>1 DEF EvictInv, InvOf, EvictorOf
      <4> QED BY <2>1, <2>2, <4>1
    <3> QED BY <2>1, <2>2, <2>3, <3>1 DEF Move, NamesKept
  <2>4. ASSUME NEW q \in Procs, Move(q), q # p
        PROVE  Fetching(p)'
    BY <2>1, <2>3, <2>4 DEF Move, OthersKept, Fetching
  <2>5. CASE Step(p)
    <3>1. Move(p)
      BY <1>1, <2>5, StepIsGood DEF Good
    <3> QED BY <1>1, <2>1, <2>3, <2>5, <3>1, FetchSteps DEF Fetching
  <2>6. ASSUME NEW q \in Procs, q # p, Step(q)
        PROVE  Fetching(p)'
    BY <1>1, <2>4, <2>6, StepIsGood DEF Good
  <2>7. ASSUME NEW q \in Procs,
               \/ \E f \in LocalFiles : ProduceOpen(q, f)
               \/ \E f \in Files : GetMetadata(q, f) \/ Consume(q, f)
               \/ \E r \in RangeFiles : RangeOpen(q, r)
        PROVE  Fetching(p)'
    <3>1. q # p
      BY <2>1, <2>7 DEF ProduceOpen, GetMetadata, Consume, RangeOpen, Begin
    <3>2. Move(q)
      BY <1>1, <2>7, BeginIsGood DEF Good
    <3> QED BY <2>4, <3>1, <3>2
  <2>8. CASE Tick
    BY <1>1, <2>8 DEF Tick, fsVars, Fetching
  <2>9. CASE UNCHANGED vars
    BY <1>1, <2>9 DEF vars, fsVars, Fetching
  <2> QED BY <1>1, <2>5, <2>6, <2>7, <2>8, <2>9 DEF Next
<1>2. EvictInv /\ [Next]_vars =>
        [\A p \in Procs : Fetching(p) => Fetching(p)' \/ pc'[p] \in {"idle", "scan", "read"}]_vars
  BY <1>1
<1> QED BY <1>2, EvictInvariant, PTL DEF Spec, NoEvictionUnderFetch

-----------------------------------------------------------------------------
(* What is in the directory once everybody has returned, where nothing     *)
(* fails, there is no grace period and no range has been made.             *)

Plain == grace = 0 /\ ~faults /\ \A r \in RangeFiles : last[r] = 0

\* The files that count.
Bulk == {n \in Names : Size(n) = 1}

\* Process p has a reason to have what n leads to under lock.
Uses(p, n) ==
    \/ pc[p] \in {"size", "fetch", "store", "write"} /\ call[p].name = n /\ call[p].fd = dir[n]
    \/ pc[p] = "unlink" /\ pass[p].name = n

\* No lock is left behind on a file of the directory.
LocksInv == \A p \in Procs, n \in Names : dir[n] # 0 /\ ino[n][dir[n]].lock = p => Uses(p, n)

\* What an evictor has counted is still there, and was not used after its scan.
SeenOf(p) ==
    pc[p] \in {"victim", "try", "unlink"} =>
        /\ \A e \in pass[p].entries :
            /\ e.atime <= pass[p].started
            /\ e.size = 1 => e.name \in Bulk
        /\ pc[p] # "victim" /\ pass[p].size = 1 => pass[p].name \in Bulk

\* Process p has a call to go on with that ends with a scan, or one that fails.
Pending(p) ==
    \/ pc[p] \notin {"idle", "read", "victim", "try", "unlink"}
    \/ pc[p] = "idle" /\ rc[p] = "error"

\* Evictor p knows of every file that counts.
Covers(p) ==
    /\ pc[p] \in {"victim", "try", "unlink"}
    /\ Cardinality(Bulk) <= pass[p].total
    /\ \A n \in Bulk :
        \/ \E e \in pass[p].entries : e.name = n
        \/ pc[p] # "victim" /\ pass[p].name = n

\* As long as there is too much in the directory, somebody has still to scan it
\* or is about to remove it.
WatchedInv == Cardinality(Bulk) <= Capacity \/ \E p \in Procs : Pending(p) \/ Covers(p)

QuietInv == Plain => LocksInv /\ (\A p \in Procs : SeenOf(p)) /\ WatchedInv

\* The step of a process leaves no lock behind on a file of the directory.
LocksKept(p) ==
    \A n \in Names : dir'[n] # 0 =>
        \/ ino'[n][dir'[n]].lock = None
        \/ /\ dir'[n] = dir[n] /\ ino'[n][dir[n]].lock = ino[n][dir[n]].lock
           /\ ino[n][dir[n]].lock = p /\ Uses(p, n) => Uses(p, n)'
        \/ ino'[n][dir'[n]].lock = p /\ Uses(p, n)'

\* It makes no file empty.
SizesKept(p) == \A n \in Names : dir'[n] = dir[n] /\ n \in Bulk => n \in Bulk'

\* A state in which the invariant says something, before the step of p.
Calm(p) ==
    /\ EvictInv /\ p \in Procs /\ Plain /\ Plain'
    /\ LocksInv /\ (\A q \in Procs : SeenOf(q)) /\ WatchedInv

\* What the actions of a process have to show.
Quiet(p) == LocksKept(p) /\ SizesKept(p) /\ SeenOf(p)' /\ WatchedInv'

\* A process whose call goes on to a scan or fails is somebody who watches.
LEMMA PendingWatches ==
    ASSUME NEW p \in Procs, LocksKept(p), SizesKept(p),
           \/ pc'[p] \notin {"idle", "read", "victim", "try", "unlink"}
           \/ pc'[p] = "idle" /\ rc'[p] = "error"
    PROVE  Quiet(p)
<1>1. SeenOf(p)' /\ Pending(p)'
  BY DEF SeenOf, Pending
<1> QED BY <1>1 DEF Quiet, WatchedInv

\* What the step of one process leaves of the invariant.
LEMMA QuietHolds ==
    ASSUME NEW p \in Procs, Calm(p), Move(p), Quiet(p), TypeOK'
    PROVE  QuietInv'
<1>0. /\ EvictInv /\ LocksInv /\ OthersKept(p) /\ NamesKept(p) /\ LocksKept(p) /\ SizesKept(p)
  BY DEF Calm, Move, Quiet
<1>1. \A q \in Procs \ {p} : pc'[q] = pc[q] /\ call'[q] = call[q] /\ pass'[q] = pass[q]
  BY <1>0 DEF OthersKept
<1>2. LocksInv'
  <2> SUFFICES ASSUME NEW q \in Procs, NEW n \in Names, dir'[n] # 0, ino'[n][dir'[n]].lock = q
               PROVE  Uses(q, n)'
    BY DEF LocksInv
  <2>1. q # None
    BY Constants
  <2>2. CASE ino'[n][dir'[n]].lock = p /\ Uses(p, n)'
    BY <2>2
  <2>3. CASE /\ dir'[n] = dir[n] /\ ino'[n][dir[n]].lock = ino[n][dir[n]].lock
             /\ ino[n][dir[n]].lock = p /\ Uses(p, n) => Uses(p, n)'
    <3>1. Uses(q, n)
      BY <1>0, <2>3 DEF LocksInv
    <3>2. CASE q = p
      BY <2>3, <3>1, <3>2
    <3>3. CASE q # p
      BY <1>1, <2>3, <3>1, <3>3 DEF Uses
    <3> QED BY <3>2, <3>3
  <2> QED BY <1>0, <2>1, <2>2, <2>3 DEF LocksKept
<1>3. ASSUME NEW q \in Procs PROVE SeenOf(q)'
  <2>1. CASE q = p
    BY <2>1 DEF Quiet
  <2>2. CASE q # p
    <3> SUFFICES ASSUME pc[q] \in {"victim", "try", "unlink"} PROVE SeenOf(q)'
      BY <1>1, <2>2 DEF SeenOf
    <3>1. /\ SeenOf(q) /\ ScanOf(q) /\ EvictorOf(q) /\ EvictorOf(p)
          /\ pc'[q] = pc[q] /\ pass'[q] = pass[q]
      BY <1>0, <1>1, <2>2 DEF Calm, EvictInv, InvOf
    <3>2. pc[p] # "unlink"
      BY <2>2, <3>1 DEF EvictorOf
    <3>3. ASSUME NEW n \in Bulk PROVE n \in Bulk'
      <4>1. n \in Names /\ dir[n] # 0
        BY DEF Bulk, Size
      <4>2. dir'[n] = dir[n]
        BY <1>0, <3>2, <4>1 DEF NamesKept
      <4> QED BY <1>0, <4>1, <4>2 DEF SizesKept
    <3> QED BY <3>1, <3>3 DEF SeenOf
  <2> QED BY <2>1, <2>2
<1> QED BY <1>2, <1>3 DEF QuietInv, Quiet

\* A step that leaves the file system alone and gives up nothing that it locked.
LEMMA StillQuiet ==
    ASSUME NEW p \in Procs, UNCHANGED fsVars,
           \A n \in Names : dir[n] # 0 /\ Uses(p, n) => Uses(p, n)'
    PROVE  LocksKept(p) /\ SizesKept(p) /\ Bulk' = Bulk
<1>1. Bulk' = Bulk
  BY DEF Bulk, Size, fsVars
<1> QED BY <1>1 DEF LocksKept, SizesKept, fsVars

\* A step that changes the inode g of n to i.
LEMMA InodeQuiet ==
    ASSUME EvictInv, NEW p \in Procs, NEW n \in Names, NEW g \in Gen, NEW i \in Inode,
           ino'[n][g] = i,
           \A m \in Names, h \in Gen : m # n \/ h # g => ino'[m][h] = ino[m][h],
           UNCHANGED <<dir, last>>,
           ino[n][g].data # "empty" => i.data # "empty",
           \/ i.lock = None
           \/ i.lock = ino[n][g].lock
           \/ i.lock = p /\ (g = dir[n] => Uses(p, n)'),
           \A m \in Names : dir[m] # 0 /\ Uses(p, m) =>
               Uses(p, m)' \/ (m = n /\ g = dir[n] /\ i.lock # p)
    PROVE  LocksKept(p) /\ SizesKept(p)
<1>0. \A m \in Names : dir[m] # 0 => dir[m] \in Gen
  BY Actor DEF Placed, Gen
<1>1. LocksKept(p)
  <2> SUFFICES ASSUME NEW m \in Names, dir[m] # 0
               PROVE  \/ ino'[m][dir[m]].lock = None
                      \/ /\ ino'[m][dir[m]].lock = ino[m][dir[m]].lock
                         /\ ino[m][dir[m]].lock = p /\ Uses(p, m) => Uses(p, m)'
                      \/ ino'[m][dir[m]].lock = p /\ Uses(p, m)'
    BY DEF LocksKept
  <2>1. dir[m] \in Gen
    BY <1>0
  <2>2. CASE m = n /\ dir[m] = g
    BY <2>2
  <2>3. CASE m # n \/ dir[m] # g
    BY <2>1, <2>3
  <2> QED BY <2>2, <2>3
<1>2. SizesKept(p)
  <2> SUFFICES ASSUME NEW m \in Names, dir[m] # 0, ino[m][dir[m]].data # "empty"
               PROVE  ino'[m][dir[m]].data # "empty"
    BY DEF SizesKept, Bulk, Size
  <2>1. dir[m] \in Gen
    BY <1>0
  <2> QED BY <2>1
<1> QED BY <1>1, <1>2

\* A step that opens a file, creating it.
LEMMA CreatedQuiet ==
    ASSUME EvictInv, NEW p \in Procs, NEW n \in Names, NEW d \in {"empty", "part"},
           Created(n, d), \A m \in Names : ~Uses(p, m)
    PROVE  LocksKept(p) /\ SizesKept(p)
<1>0. Placed(p)
  BY Actor
<1>1. CASE dir[n] # 0
  <2>1. PICK g : g = dir[n]
    OBVIOUS
  <2>2. /\ g \in Gen /\ ino[n][g] \in Inode /\ ino \in [Names -> [Gen -> Inode]]
    BY <1>0, <1>1, <2>1 DEF Placed, TypeOK, Gen
  <2>3. PICK i : i = OpenedAs(ino[n][g], d)
    OBVIOUS
  <2>4. i \in Inode /\ i.lock = ino[n][g].lock /\ (ino[n][g].data # "empty" => i.data # "empty")
    BY <2>2, <2>3 DEF OpenedAs, Sized, Inode
  <2>5. ino' = [ino EXCEPT ![n][g] = i] /\ UNCHANGED <<dir, last>>
    BY <1>1, <2>1, <2>3 DEF Created
  <2>6. /\ ino'[n][g] = i
        /\ \A m \in Names, h \in Gen : m # n \/ h # g => ino'[m][h] = ino[m][h]
    BY <2>2, <2>4, <2>5
  <2> QED BY ONLY EvictInv, p \in Procs, n \in Names, <2>2, <2>4, <2>5, <2>6, InodeQuiet,
                  \A m \in Names : ~Uses(p, m)
<1>2. CASE dir[n] = 0
  <2>1. PICK g : g = last[n] + 1
    OBVIOUS
  <2>2. PICK i : i = [data |-> d, lock |-> None, atime |-> now, mtime |-> now]
    OBVIOUS
  <2>3. /\ g \in Gen /\ last[n] \in 0..MaxGen
        /\ ino' = [ino EXCEPT ![n][g] = i]
        /\ dir' = [dir EXCEPT ![n] = g]
    BY <1>0, <1>2, <2>1, <2>2, Constants DEF Placed, Gen, Created
  <2>4. /\ ino \in [Names -> [Gen -> Inode]] /\ dir \in [Names -> 0..MaxGen]
    BY <1>0 DEF Placed, TypeOK
  <2>5. /\ ino'[n][g] = i /\ dir'[n] = g /\ i.lock = None
        /\ \A m \in Names : m # n => ino'[m] = ino[m] /\ dir'[m] = dir[m]
    BY <2>2, <2>3, <2>4
  <2>6. LocksKept(p)
    BY <2>5 DEF LocksKept
  <2>7. SizesKept(p)
    BY <1>2, <2>5 DEF SizesKept, Bulk, Size
  <2> QED BY <2>6, <2>7
<1> QED BY <1>1, <1>2

\* A step that opens and closes a file.
LEMMA VisitedQuiet ==
    ASSUME EvictInv, NEW p \in Procs, NEW n \in Names, NEW t \in Time,
           ino' = Visited(n, p, t), UNCHANGED <<dir, last>>, \A m \in Names : ~Uses(p, m)
    PROVE  LocksKept(p) /\ SizesKept(p) /\ Bulk' = Bulk
<1>0. Placed(p)
  BY Actor
<1>1. CASE dir[n] = 0
  <2>1. UNCHANGED fsVars
    BY <1>1 DEF Visited, fsVars
  <2> QED BY ONLY p \in Procs, <2>1, StillQuiet, \A m \in Names : ~Uses(p, m)
<1>2. CASE dir[n] # 0
  <2>1. PICK g : g = dir[n]
    OBVIOUS
  <2>2. g \in Gen /\ ino[n][g] \in Inode /\ ino \in [Names -> [Gen -> Inode]]
    BY <1>0, <1>2, <2>1 DEF Placed, TypeOK, Gen
  <2>3. PICK i : i = Looked(ino[n][g], p, t)
    OBVIOUS
  <2>4. /\ i \in Inode /\ i.data = ino[n][g].data
        /\ i.lock = None \/ i.lock = ino[n][g].lock
    BY <2>2, <2>3 DEF Inode, Looked
  <2>6. /\ ino'[n][g] = i
        /\ \A m \in Names, h \in Gen : m # n \/ h # g => ino'[m][h] = ino[m][h]
    BY <1>2, <2>1, <2>2, <2>3, <2>4 DEF Visited
  <2>7. LocksKept(p) /\ SizesKept(p)
    BY ONLY EvictInv, p \in Procs, n \in Names, <2>2, <2>4, <2>6, InodeQuiet, UNCHANGED <<dir, last>>,
            \A m \in Names : ~Uses(p, m)
  <2>8. Bulk' = Bulk
    <3>1. \A m \in Names : dir[m] # 0 => dir[m] \in Gen
      BY <1>0 DEF Placed, Gen
    <3>2. \A m \in Names, h \in Gen : ino'[m][h].data = ino[m][h].data
      BY <2>4, <2>6
    <3>3. \A m \in Names : Size(m)' = Size(m)
      BY <3>1, <3>2 DEF Size
    <3> QED BY <3>3 DEF Bulk
  <2> QED BY <2>7, <2>8
<1> QED BY <1>1, <1>2

\* The state of the process that takes the step, as its actions need it.
LEMMA CalmPlaced ==
    ASSUME NEW p \in Procs, Calm(p)
    PROVE  /\ EvictInv /\ Placed(p) /\ ~faults /\ grace = 0
           /\ \A r \in RangeFiles : dir[r] = 0 /\ last'[r] = 0
           /\ pc \in [Procs -> Pcs] /\ call \in [Procs -> Call] /\ pass \in [Procs -> Pass]
           /\ rc \in [Procs -> {"none", "OK", "error"}]
           /\ ino \in [Names -> [Gen -> Inode]] /\ dir \in [Names -> 0..MaxGen]
           /\ last \in [Names -> 0..MaxGen]
<1>1. EvictInv /\ Placed(p) /\ TypeOK
  BY Actor DEF Calm, EvictInv
<1> QED BY <1>1, Constants DEF Calm, Plain, Placed, TypeOK

\* Calls that begin.
LEMMA BeginQuiet ==
    ASSUME NEW p \in Procs, Calm(p)
    PROVE  /\ \A f \in LocalFiles : ProduceOpen(p, f) => Quiet(p)
           /\ \A f \in Files : Consume(p, f) => Quiet(p)
           /\ ConsumeWMetadata(p) => Quiet(p)
           /\ \A r \in RangeFiles : RangeOpen(p, r) => Quiet(p)
           /\ \A f \in Files : GetMetadata(p, f) => Quiet(p)
<1>0. /\ EvictInv /\ Placed(p) /\ pc \in [Procs -> Pcs]
  BY CalmPlaced
<1>a. pc[p] \in {"idle", "meta"} => \A m \in Names : ~Uses(p, m)
  BY DEF Uses
<1>1. ASSUME NEW f \in LocalFiles, ProduceOpen(p, f) PROVE Quiet(p)
  <2>1. /\ pc[p] = "idle" /\ pc'[p] = "publish" /\ f \in Names /\ Created(f, "part")
    BY <1>0, <1>1, Constants DEF ProduceOpen, Begin, Goto
  <2>2. LocksKept(p) /\ SizesKept(p)
    BY ONLY p \in Procs, <1>0, <1>a, <2>1, CreatedQuiet
  <2> QED BY ONLY p \in Procs, <2>1, <2>2, PendingWatches
<1>2. ASSUME NEW f \in Files, Consume(p, f) PROVE Quiet(p)
  <2>1. /\ pc[p] = "idle" /\ pc'[p] = "lock" /\ f \in Names /\ Created(f, "empty")
    BY <1>0, <1>2, Constants DEF Consume, Begin, Goto
  <2>2. LocksKept(p) /\ SizesKept(p)
    BY ONLY p \in Procs, <1>0, <1>a, <2>1, CreatedQuiet
  <2> QED BY ONLY p \in Procs, <2>1, <2>2, PendingWatches
<1>3. ASSUME ConsumeWMetadata(p) PROVE Quiet(p)
  <2>1. PICK f : f = call[p].name
    OBVIOUS
  <2>2. /\ pc[p] = "meta" /\ pc'[p] = "lock" /\ f \in Names /\ Created(f, "empty")
    BY <1>0, <1>3, <2>1, Constants DEF ConsumeWMetadata, Goto, Placed, InvOf, CallOf
  <2>3. LocksKept(p) /\ SizesKept(p)
    BY ONLY p \in Procs, <1>0, <1>a, <2>2, CreatedQuiet
  <2> QED BY ONLY p \in Procs, <2>2, <2>3, PendingWatches
<1>4. ASSUME NEW r \in RangeFiles, RangeOpen(p, r) PROVE Quiet(p)
  <2>1. PICK b : b = Bitmap(r)
    OBVIOUS
  <2>2. /\ pc[p] = "idle" /\ pc'[p] = "rlook" /\ b \in Names /\ Created(b, "empty")
    BY <1>0, <1>4, <2>1, Constants DEF RangeOpen, Begin, Goto
  <2>3. LocksKept(p) /\ SizesKept(p)
    BY ONLY p \in Procs, <1>0, <1>a, <2>2, CreatedQuiet
  <2> QED BY ONLY p \in Procs, <2>2, <2>3, PendingWatches
<1>5. ASSUME NEW f \in Files, GetMetadata(p, f) PROVE Quiet(p)
  <2>1. PICK t : t = IF dir[f] = 0 THEN now ELSE ino[f][dir[f]].atime
    OBVIOUS
  <2>2. /\ pc[p] = "idle" /\ pc'[p] = "meta" /\ f \in Names /\ ino' = Visited(f, p, t)
        /\ UNCHANGED <<dir, last>>
    BY <1>0, <1>5, <2>1, Constants DEF GetMetadata, Goto
  <2>3. t \in Time
    BY <1>0, <2>1, <2>2 DEF Placed, Inode, Gen
  <2>4. LocksKept(p) /\ SizesKept(p)
    BY ONLY p \in Procs, <1>0, <1>a, <2>2, <2>3, VisitedQuiet
  <2> QED BY ONLY p \in Procs, <2>2, <2>4, PendingWatches
<1> QED BY <1>1, <1>2, <1>3, <1>4, <1>5

\* Calls that go on, or fail, without a change in the file system.
LEMMA GoOnQuiet ==
    ASSUME NEW p \in Procs, Calm(p)
    PROVE  /\ GetData(p) => Quiet(p)
           /\ OpenCopyFails(p) => Quiet(p)
           /\ DirLock(p) => Quiet(p)
           /\ RangeLook(p) => Quiet(p)
           /\ RangeRecheck(p) => Quiet(p)
           /\ RangeFetchFails(p) => Quiet(p)
           /\ RangeReadFails(p) => Quiet(p)
<1>0. /\ EvictInv /\ Placed(p) /\ ~faults
      /\ pc \in [Procs -> Pcs] /\ rc \in [Procs -> {"none", "OK", "error"}]
      /\ \A r \in RangeFiles : last'[r] = 0
      /\ last \in [Names -> 0..MaxGen]
  BY CalmPlaced
<1>a. ASSUME UNCHANGED fsVars, \A n \in Names : dir[n] # 0 /\ Uses(p, n) => Uses(p, n)',
             \/ pc'[p] \notin {"idle", "read", "victim", "try", "unlink"}
             \/ pc'[p] = "idle" /\ rc'[p] = "error"
      PROVE  Quiet(p)
  BY ONLY <1>a, p \in Procs, StillQuiet, PendingWatches
<1>1. ASSUME GetData(p) PROVE Quiet(p)
  <2>1. /\ pc[p] = "fetch" /\ pc'[p] = "store" /\ UNCHANGED <<fsVars, call>>
    BY <1>0, <1>1 DEF GetData, Goto
  <2>2. \A n \in Names : Uses(p, n) => Uses(p, n)'
    BY <2>1 DEF Uses, fsVars
  <2> QED BY ONLY <1>a, <2>1, <2>2
<1>2. ASSUME OpenCopyFails(p) PROVE Quiet(p)
  <2>1. /\ pc[p] = "store" /\ pc'[p] = "idle" /\ rc'[p] = "error" /\ UNCHANGED fsVars
        /\ dir[call[p].name] = 0
    BY <1>0, <1>2 DEF OpenCopyFails, Return, Goto
  <2>2. \A n \in Names : dir[n] # 0 => ~Uses(p, n)
    BY <2>1 DEF Uses
  <2> QED BY ONLY <1>a, <2>1, <2>2
<1>3. ASSUME DirLock(p) PROVE Quiet(p)
  <2>1. /\ pc[p] = "dirlock" /\ pc'[p] = "rescan" /\ UNCHANGED fsVars
    BY <1>0, <1>3 DEF DirLock, Goto
  <2>2. \A n \in Names : ~Uses(p, n)
    BY <2>1 DEF Uses
  <2> QED BY ONLY <1>a, <2>1, <2>2
<1>4. ASSUME RangeLook(p) PROVE Quiet(p)
  <2>1. /\ pc[p] = "rlook" /\ pc'[p] \in {"rread", "rexcl"} /\ UNCHANGED fsVars
    BY <1>0, <1>4 DEF RangeLook, Goto
  <2>2. \A n \in Names : ~Uses(p, n)
    BY <2>1 DEF Uses
  <2> QED BY ONLY <1>a, <2>1, <2>2
<1>5. ASSUME RangeRecheck(p) PROVE Quiet(p)
  <2>1. /\ pc[p] = "rexcl" /\ pc'[p] \in {"rread", "rfetch"}
    BY <1>0, <1>5 DEF RangeRecheck, Goto
  <2>2. UNCHANGED fsVars
    <3> SUFFICES ASSUME ~UNCHANGED fsVars PROVE FALSE
      OBVIOUS
    <3>1. PICK r : r = call[p].name
      OBVIOUS
    <3>2. r \in RangeFiles /\ r \in Names /\ dir[r] \in {0, last[r]} /\ last[r] \in Nat
      BY <1>0, <2>1, <3>1, Constants DEF Placed, InvOf, CallOf, InRange
    <3>3. last' = [last EXCEPT ![r] = IF dir[r] = 0 THEN Opened(r) ELSE @]
      BY <1>5, <3>1 DEF RangeRecheck
    <3>4. last'[r] = IF dir[r] = 0 THEN last[r] + 1 ELSE last[r]
      BY <1>0, <3>2, <3>3 DEF Opened
    <3> QED BY <1>0, <3>2, <3>4
  <2>3. \A n \in Names : ~Uses(p, n)
    BY <2>1 DEF Uses
  <2> QED BY ONLY <1>a, <2>1, <2>2, <2>3
<1>6. ASSUME RangeFetchFails(p) PROVE Quiet(p)
  <2>1. /\ pc[p] = "rfetch" /\ pc'[p] = "idle" /\ rc'[p] = "error" /\ UNCHANGED fsVars
    BY <1>0, <1>6 DEF RangeFetchFails, Return, Goto
  <2>2. \A n \in Names : ~Uses(p, n)
    BY <2>1 DEF Uses
  <2> QED BY ONLY <1>a, <2>1, <2>2
<1>7. ASSUME RangeReadFails(p) PROVE Quiet(p)
  <2>1. /\ pc[p] = "rread" /\ pc'[p] = "idle" /\ rc'[p] = "error" /\ UNCHANGED fsVars
    BY <1>0, <1>7 DEF RangeReadFails, Return, Goto
  <2>2. \A n \in Names : ~Uses(p, n)
    BY <2>1 DEF Uses
  <2> QED BY ONLY <1>a, <2>1, <2>2
<1> QED BY <1>1, <1>2, <1>3, <1>4, <1>5, <1>6, <1>7

\* Calls that go on, or fail, and change one inode.
LEMMA InodeStepsQuiet ==
    ASSUME NEW p \in Procs, Calm(p)
    PROVE  /\ Produce(p) => Quiet(p)
           /\ Lock(p) => Quiet(p)
           /\ CheckSize(p) => Quiet(p)
           /\ GetDataFails(p) => Quiet(p)
           /\ OpenCopy(p) => Quiet(p)
           /\ RangeRecord(p) => Quiet(p)
<1>0. /\ EvictInv /\ Placed(p) /\ ~faults
      /\ pc \in [Procs -> Pcs] /\ rc \in [Procs -> {"none", "OK", "error"}]
      /\ call \in [Procs -> Call] /\ ino \in [Names -> [Gen -> Inode]]
      /\ \A n \in Names : 1..last[n] \subseteq Gen
  BY CalmPlaced DEF Placed
<1>a. ASSUME NEW n \in Names, NEW g \in Gen, NEW i \in Inode,
             ino' = [ino EXCEPT ![n][g] = i],
             UNCHANGED <<dir, last>>,
             ino[n][g].data # "empty" => i.data # "empty",
             \/ i.lock = None
             \/ i.lock = ino[n][g].lock
             \/ i.lock = p /\ (g = dir[n] => Uses(p, n)'),
             \A m \in Names : dir[m] # 0 /\ Uses(p, m) =>
                 Uses(p, m)' \/ (m = n /\ g = dir[n] /\ i.lock # p),
             \/ pc'[p] \notin {"idle", "read", "victim", "try", "unlink"}
             \/ pc'[p] = "idle" /\ rc'[p] = "error"
      PROVE  Quiet(p)
  <2>1. /\ ino'[n][g] = i
        /\ \A m \in Names, h \in Gen : m # n \/ h # g => ino'[m][h] = ino[m][h]
    BY ONLY <1>0, <1>a
  <2>2. LocksKept(p) /\ SizesKept(p)
    BY ONLY <1>0, <1>a, <2>1, p \in Procs, InodeQuiet
  <2> QED BY ONLY <1>a, <2>2, p \in Procs, PendingWatches
<1>1. ASSUME Produce(p) PROVE Quiet(p)
  <2>1. /\ pc[p] = "publish" /\ pc'[p] = "scan" /\ UNCHANGED <<dir, last>>
    BY <1>0, <1>1 DEF Produce, Goto
  <2>2. PICK n, g : n = call[p].name /\ g = call[p].fd
    OBVIOUS
  <2>3. n \in Names /\ g \in Gen /\ ino[n][g] \in Inode
    BY <1>0, <2>1, <2>2, Constants DEF Placed, InvOf, CallOf, InConsumption
  <2>4. PICK i : i = Written(ino[n][g])
    OBVIOUS
  <2>5. i \in Inode /\ i.lock = ino[n][g].lock /\ i.data = "whole"
    BY <1>0, <2>3, <2>4 DEF Written, Inode, Placed
  <2>6. ino' = [ino EXCEPT ![n][g] = i]
    BY <1>1, <2>2, <2>4 DEF Produce
  <2>7. \A m \in Names : ~Uses(p, m)
    BY <2>1 DEF Uses
  <2> QED BY ONLY <1>a, <2>1, <2>3, <2>5, <2>6, <2>7
<1>2. ASSUME Lock(p) PROVE Quiet(p)
  <2>1. /\ pc[p] = "lock" /\ pc'[p] = "size" /\ UNCHANGED <<dir, last, call>>
    BY <1>0, <1>2 DEF Lock, Goto
  <2>2. PICK n, g : n = call[p].name /\ g = call[p].fd
    OBVIOUS
  <2>3. n \in Names /\ g \in Gen /\ ino[n][g] \in Inode
    BY <1>0, <2>1, <2>2, Constants DEF Placed, InvOf, CallOf, InConsumption
  <2>4. PICK i : i = [ino[n][g] EXCEPT !.lock = p]
    OBVIOUS
  <2>5. i \in Inode /\ i.lock = p /\ i.data = ino[n][g].data
    BY <2>3, <2>4 DEF Inode
  <2>6. ino' = [ino EXCEPT ![n][g] = i]
    BY <1>2, <2>2, <2>4 DEF Lock
  <2>7. \A m \in Names : ~Uses(p, m)
    BY <2>1 DEF Uses
  <2>8. g = dir[n] => Uses(p, n)'
    BY <2>1, <2>2 DEF Uses
  <2> QED BY ONLY <1>a, <2>1, <2>3, <2>5, <2>6, <2>7, <2>8
<1>3. ASSUME CheckSize(p) PROVE Quiet(p)
  <2>1. /\ pc[p] = "size" /\ UNCHANGED <<dir, last, call>>
    BY <1>0, <1>3 DEF CheckSize, Goto
  <2>2. PICK n, g : n = call[p].name /\ g = call[p].fd
    OBVIOUS
  <2>3. n \in Names /\ g \in Gen /\ ino[n][g] \in Inode
    BY <1>0, <2>1, <2>2, Constants DEF Placed, InvOf, CallOf, InConsumption
  <2>4. CASE ino[n][g].data = "empty"
    <3>1. pc'[p] = "fetch" /\ ino' = ino
      BY <1>0, <1>3, <2>2, <2>4 DEF CheckSize, Goto
    <3>2. \A m \in Names : Uses(p, m) => Uses(p, m)'
      BY <2>1, <3>1 DEF Uses
    <3>3. LocksKept(p) /\ SizesKept(p)
      BY ONLY p \in Procs, <2>1, <3>1, <3>2, StillQuiet DEF fsVars
    <3> QED BY ONLY p \in Procs, <3>1, <3>3, PendingWatches
  <2>5. CASE ino[n][g].data # "empty"
    <3>1. PICK i : i = [ino[n][g] EXCEPT !.lock = None]
      OBVIOUS
    <3>2. i \in Inode /\ i.lock = None /\ i.data = ino[n][g].data
      BY <2>3, <3>1 DEF Inode
    <3>3. pc'[p] = "scan" /\ ino' = [ino EXCEPT ![n][g] = i]
      BY <1>0, <1>3, <2>2, <2>5, <3>1 DEF CheckSize, Goto
    <3>4. \A m \in Names : Uses(p, m) => m = n /\ g = dir[n]
      BY <2>1, <2>2 DEF Uses
    <3> QED BY ONLY <1>a, <2>1, <2>3, <3>2, <3>3, <3>4, Constants, p \in Procs
  <2> QED BY <2>4, <2>5
<1>4. ASSUME GetDataFails(p) PROVE Quiet(p)
  <2>1. /\ pc[p] = "fetch" /\ pc'[p] = "idle" /\ rc'[p] = "error" /\ UNCHANGED <<dir, last>>
    BY <1>0, <1>4 DEF GetDataFails, Return, Goto
  <2>2. PICK n, g : n = call[p].name /\ g = call[p].fd
    OBVIOUS
  <2>3. n \in Names /\ g \in Gen /\ ino[n][g] \in Inode
    BY <1>0, <2>1, <2>2, Constants DEF Placed, InvOf, CallOf, InConsumption
  <2>4. PICK i : i = [ino[n][g] EXCEPT !.lock = None]
    OBVIOUS
  <2>5. i \in Inode /\ i.lock = None /\ i.data = ino[n][g].data
    BY <2>3, <2>4 DEF Inode
  <2>6. ino' = [ino EXCEPT ![n][g] = i]
    BY <1>4, <2>2, <2>4 DEF GetDataFails
  <2>7. \A m \in Names : Uses(p, m) => m = n /\ g = dir[n]
    BY <2>1, <2>2 DEF Uses
  <2> QED BY ONLY <1>a, <2>1, <2>3, <2>5, <2>6, <2>7, Constants, p \in Procs
<1>5. ASSUME OpenCopy(p) PROVE Quiet(p)
  <2>2. PICK n, g : n = call[p].name /\ g = dir[n]
    OBVIOUS
  <2>1. /\ pc[p] = "store" /\ pc'[p] = "write" /\ UNCHANGED <<dir, last>> /\ g # 0
        /\ call'[p].name = call[p].name /\ call'[p].fd = call[p].fd
    BY <1>0, <1>5, <2>2 DEF OpenCopy, Goto, Call
  <2>3. n \in Names /\ g \in Gen /\ ino[n][g] \in Inode
    BY <1>0, <2>1, <2>2, Constants DEF Placed, InvOf, CallOf, InConsumption, Gen
  <2>4. PICK i : i = Sized(ino[n][g])
    OBVIOUS
  <2>5. i \in Inode /\ i.lock = ino[n][g].lock /\ i.data # "empty"
    BY <2>3, <2>4 DEF Sized, Inode
  <2>6. ino' = [ino EXCEPT ![n][g] = i]
    BY <1>5, <2>2, <2>4 DEF OpenCopy
  <2>7. \A m \in Names : Uses(p, m) => Uses(p, m)'
    BY <2>1 DEF Uses
  <2> QED BY ONLY <1>a, <2>1, <2>3, <2>5, <2>6, <2>7
<1>6. ASSUME RangeRecord(p) PROVE Quiet(p)
  <2>1. /\ pc[p] = "rrecord" /\ pc'[p] = "rread" /\ UNCHANGED <<dir, last>>
    BY <1>0, <1>6 DEF RangeRecord, Goto
  <2>2. PICK n, g : n = Bitmap(call[p].name) /\ g = call[p].fd
    OBVIOUS
  <2>3. n \in Names /\ g \in Gen /\ ino[n][g] \in Inode
    BY <1>0, <2>1, <2>2, Constants DEF Placed, InvOf, CallOf, InRange
  <2>4. PICK i : i = Written(ino[n][g])
    OBVIOUS
  <2>5. i \in Inode /\ i.lock = ino[n][g].lock /\ i.data = "whole"
    BY <1>0, <2>3, <2>4 DEF Written, Inode, Placed
  <2>6. ino' = [ino EXCEPT ![n][g] = i]
    BY <1>6, <2>2, <2>4 DEF RangeRecord
  <2>7. \A m \in Names : ~Uses(p, m)
    BY <2>1 DEF Uses
  <2> QED BY ONLY <1>a, <2>1, <2>3, <2>5, <2>6, <2>7
<1> QED BY <1>1, <1>2, <1>3, <1>4, <1>5, <1>6

\* The store of a whole file: it gives up the lock and goes on to the scan.
LEMMA StoreQuiet ==
    ASSUME NEW p \in Procs, Calm(p), StoreDone(p)
    PROVE  Quiet(p)
<1>0. /\ EvictInv /\ Placed(p)
      /\ pc \in [Procs -> Pcs] /\ ino \in [Names -> [Gen -> Inode]]
      /\ \A n \in Names : 1..last[n] \subseteq Gen
  BY CalmPlaced DEF Placed
<1>1. PICK n, w, g : n = call[p].name /\ w = call[p].wfd /\ g = call[p].fd
  OBVIOUS
<1>2. pc[p] = "write" /\ pc'[p] = "scan" /\ UNCHANGED <<dir, last>>
  BY <1>0, StoreDone(p) DEF StoreDone, Goto
<1>3. n \in Names /\ w \in Gen /\ g \in Gen
  BY <1>0, <1>1, <1>2, Constants DEF Placed, InvOf, CallOf, InConsumption
<1>4. PICK i : i = Written(ino[n][w])
  OBVIOUS
<1>5. PICK J : J = [ino EXCEPT ![n][w] = i]
  OBVIOUS
<1>6. i \in Inode /\ i.lock = ino[n][w].lock /\ i.data = "whole"
  <2>1. ino[n][w] \in Inode /\ now \in Time
    BY <1>0, <1>3 DEF Placed
  <2> QED BY <1>4, <2>1 DEF Written, Inode
<1>7. /\ J \in [Names -> [Gen -> Inode]]
      /\ J[n][w] = i
      /\ \A m \in Names, h \in Gen : m # n \/ h # w => J[m][h] = ino[m][h]
  BY ONLY <1>0, <1>3, <1>5, <1>6
<1>8. PICK j : j = [J[n][g] EXCEPT !.lock = None]
  OBVIOUS
<1>9. j \in Inode /\ j.lock = None /\ j.data = J[n][g].data
  <2>1. J[n][g] \in Inode
    BY <1>3, <1>7
  <2> QED BY <1>8, <2>1 DEF Inode
<1>10. ino' = [J EXCEPT ![n][g] = j]
  BY StoreDone(p), <1>1, <1>4, <1>5, <1>8 DEF StoreDone
<1>11. /\ ino'[n][g] = j
       /\ \A m \in Names, h \in Gen : m # n \/ h # g => ino'[m][h] = J[m][h]
  BY ONLY <1>3, <1>7, <1>9, <1>10
<1>12. \A m \in Names : dir[m] # 0 => dir[m] \in Gen
  BY <1>0 DEF Placed, Gen
<1>13. \A m \in Names, h \in Gen :
         /\ ino[m][h].data # "empty" => ino'[m][h].data # "empty"
         /\ ino'[m][h].lock = IF m = n /\ h = g THEN None ELSE ino[m][h].lock
  BY <1>6, <1>7, <1>9, <1>11
<1>14. \A m \in Names : Uses(p, m) => m = n /\ dir[m] = g
  BY <1>1, <1>2 DEF Uses
<1>15. LocksKept(p)
  BY <1>2, <1>12, <1>13, <1>14 DEF LocksKept
<1>16. SizesKept(p)
  BY <1>2, <1>12, <1>13 DEF SizesKept, Bulk, Size
<1> QED BY ONLY p \in Procs, <1>2, <1>15, <1>16, PendingWatches

\* Steps that only a failure or a range that is there makes possible.
LEMMA NotPlain ==
    ASSUME NEW p \in Procs, Calm(p)
    PROVE  ~(StoreFails(p) \/ EvictFails(p) \/ UnlinkFails(p) \/ RangeFetch(p) \/ RangeRead(p))
<1>1. ~faults /\ Placed(p) /\ \A r \in RangeFiles : dir[r] = 0
  BY CalmPlaced
<1>2. pc[p] \in {"rfetch", "rread"} => dir[call[p].name] = 0
  BY <1>1 DEF Placed, InvOf, CallOf, InRange
<1> QED BY <1>1, <1>2 DEF StoreFails, EvictFails, UnlinkFails, RangeFetch, RangeRead

\* A step of a process that is itself no reason to expect another scan.
LEMMA OthersWatch ==
    ASSUME NEW p \in Procs, Calm(p), Bulk' = Bulk,
           \A q \in Procs \ {p} : pc'[q] = pc[q] /\ rc'[q] = rc[q] /\ pass'[q] = pass[q],
           Pending(p) \/ Covers(p) => WatchedInv'
    PROVE  WatchedInv'
<1>1. CASE Cardinality(Bulk) <= Capacity
  BY <1>1 DEF WatchedInv
<1>2. ASSUME NEW q \in Procs, Pending(q) \/ Covers(q) PROVE WatchedInv'
  <2>1. CASE q = p
    BY <1>2, <2>1
  <2>2. CASE q # p
    <3>1. pc'[q] = pc[q] /\ rc'[q] = rc[q] /\ pass'[q] = pass[q]
      BY <2>2
    <3>2. Pending(q)' \/ Covers(q)'
      BY <1>2, <3>1 DEF Pending, Covers
    <3> QED BY <3>2 DEF WatchedInv
  <2> QED BY <2>1, <2>2
<1> QED BY <1>1, <1>2 DEF Calm, WatchedInv

\* The call returns.
LEMMA ReadQuiet ==
    ASSUME NEW p \in Procs, Calm(p), Read(p)
    PROVE  Quiet(p)
<1>0. /\ EvictInv /\ Placed(p) /\ now \in Time
      /\ pc \in [Procs -> Pcs] /\ rc \in [Procs -> {"none", "OK", "error"}]
      /\ pass \in [Procs -> Pass]
  BY CalmPlaced DEF Placed
<1>1. PICK n : n = call[p].name
  OBVIOUS
<1>2. /\ pc[p] = "read" /\ pc'[p] = "idle" /\ UNCHANGED <<dir, last>> /\ ino' = Visited(n, p, now)
      /\ \A q \in Procs \ {p} : pc'[q] = pc[q] /\ rc'[q] = rc[q] /\ pass'[q] = pass[q]
  BY <1>0, <1>1, Read(p) DEF Read, Return, Goto
<1>3. n \in Names /\ \A m \in Names : ~Uses(p, m)
  BY <1>0, <1>1, <1>2, Constants DEF Uses, Placed, InvOf, CallOf, InConsumption
<1>4. LocksKept(p) /\ SizesKept(p) /\ Bulk' = Bulk
  BY ONLY p \in Procs, <1>0, <1>2, <1>3, VisitedQuiet
<1>5. SeenOf(p)'
  BY <1>2 DEF SeenOf
<1>6. ~Pending(p) /\ ~Covers(p)
  BY <1>2 DEF Pending, Covers
<1>7. WatchedInv'
  BY ONLY p \in Procs, Calm(p), <1>2, <1>4, <1>6, OthersWatch
<1> QED BY <1>4, <1>5, <1>7 DEF Quiet

\* What a scan finds to be little enough is little enough.
LEMMA ScanQuiet ==
    ASSUME NEW p \in Procs, Calm(p), Scan(p)
    PROVE  Quiet(p)
<1>0. pc \in [Procs -> Pcs]
  BY CalmPlaced
<1>1. /\ pc[p] = "scan" /\ UNCHANGED fsVars
      /\ pc'[p] = IF Cardinality(Bulk) <= Capacity THEN "read" ELSE "dirlock"
  BY <1>0, Scan(p) DEF Scan, Goto, TotalSize, Bulk
<1>2. \A n \in Names : ~Uses(p, n)
  BY <1>1 DEF Uses
<1>3. LocksKept(p) /\ SizesKept(p) /\ Bulk' = Bulk
  BY ONLY p \in Procs, <1>1, <1>2, StillQuiet
<1>4. CASE Cardinality(Bulk) <= Capacity
  <2>1. SeenOf(p)' /\ WatchedInv'
    BY <1>1, <1>3, <1>4 DEF SeenOf, WatchedInv
  <2> QED BY <1>3, <2>1 DEF Quiet
<1>5. CASE ~(Cardinality(Bulk) <= Capacity)
  BY ONLY p \in Procs, <1>1, <1>3, <1>5, PendingWatches
<1> QED BY <1>4, <1>5

\* The second scan covers all there is.
LEMMA RescanQuiet ==
    ASSUME NEW p \in Procs, Calm(p), Rescan(p)
    PROVE  Quiet(p)
<1>0. EvictInv /\ Placed(p) /\ pc \in [Procs -> Pcs] /\ pass \in [Procs -> Pass] /\ now \in Time
  BY CalmPlaced DEF Placed
<1>1. pc[p] = "rescan" /\ UNCHANGED fsVars
  BY Rescan(p) DEF Rescan
<1>2. \A n \in Names : ~Uses(p, n)
  BY <1>1 DEF Uses
<1>3. LocksKept(p) /\ SizesKept(p) /\ Bulk' = Bulk
  BY ONLY p \in Procs, <1>1, <1>2, StillQuiet
<1>4. TotalSize = Cardinality(Bulk)
  BY DEF TotalSize, Bulk
<1>5. CASE TotalSize <= Capacity
  <2>1. pc'[p] = "read"
    BY <1>0, <1>5, Rescan(p) DEF Rescan, Goto
  <2>2. SeenOf(p)' /\ WatchedInv'
    BY <1>3, <1>4, <1>5, <2>1 DEF SeenOf, WatchedInv
  <2> QED BY <1>3, <2>2 DEF Quiet
<1>6. CASE ~(TotalSize <= Capacity)
  <2>1. PICK r : r = [pass[p] EXCEPT !.entries = Candidates, !.total = TotalSize, !.started = now]
    OBVIOUS
  <2>2. pc'[p] = "victim" /\ pass' = [pass EXCEPT ![p] = r]
    BY <1>0, <1>6, <2>1, Rescan(p) DEF Rescan, Goto
  <2>3. /\ pass'[p] = r /\ r.entries = Candidates /\ r.total = TotalSize /\ r.started = now
    <3>1. pass[p] \in Pass
      BY <1>0
    <3>2. r.entries = Candidates /\ r.total = TotalSize /\ r.started = now
      BY ONLY <2>1, <3>1 DEF Pass
    <3> QED BY <1>0, <2>2, <3>2
  <2>4. \A e \in Candidates : e.atime <= now /\ (e.size = 1 => e.name \in Bulk)
    <3>1. \A n \in Names : dir[n] # 0 => ino[n][dir[n]].atime <= now
      BY <1>0 DEF Placed, TimesInv, Gen
    <3> QED BY <3>1 DEF Candidates, Bulk
  <2>5. ASSUME NEW n \in Bulk PROVE \E e \in Candidates : e.name = n
    <3>1. n \in Names /\ dir[n] # 0
      BY DEF Bulk, Size
    <3>2. PICK e : e = [name |-> n, atime |-> ino[n][dir[n]].atime,
                        key |-> RecencyKey(ino[n][dir[n]]), size |-> Size(n)]
      OBVIOUS
    <3> QED BY <3>1, <3>2 DEF Candidates
  <2>6. SeenOf(p)'
    BY <1>3, <2>2, <2>3, <2>4 DEF SeenOf
  <2>7. Covers(p)'
    <3>1. TotalSize <= TotalSize
      BY <1>0, ScanTypes, Constants
    <3> QED BY <1>3, <1>4, <2>2, <2>3, <2>5, <3>1 DEF Covers
  <2> QED BY <1>3, <2>6, <2>7 DEF Quiet, WatchedInv
<1> QED BY <1>5, <1>6

\* The candidate that comes next is tried if it is still there: nothing is
\* within a grace period of nothing.
LEMMA NextVictimQuiet ==
    ASSUME NEW p \in Procs, Calm(p), NextVictim(p)
    PROVE  Quiet(p)
<1>0. /\ EvictInv /\ Placed(p) /\ grace = 0 /\ pc \in [Procs -> Pcs] /\ pass \in [Procs -> Pass]
      /\ SeenOf(p) /\ ScanOf(p)
  BY CalmPlaced DEF Calm, EvictInv, InvOf
<1>1. pc[p] = "victim" /\ UNCHANGED <<fsVars, rc>>
  BY NextVictim(p) DEF NextVictim
<1>2. \A n \in Names : ~Uses(p, n)
  BY <1>1 DEF Uses
<1>3. LocksKept(p) /\ SizesKept(p) /\ Bulk' = Bulk
  BY ONLY p \in Procs, <1>1, <1>2, StillQuiet
<1>4. PICK e \in pass[p].entries :
        IF pass[p].started - e.atime < grace \/ dir[e.name] = 0
        THEN pass' = [pass EXCEPT ![p].entries = @ \ {e}] /\ UNCHANGED pc
        ELSE /\ pass' = [pass EXCEPT ![p] = [pass[p] EXCEPT !.entries = @ \ {e}, !.name = e.name,
                                                   !.gen = dir[e.name], !.size = e.size]]
             /\ pc' = [pc EXCEPT ![p] = "try"]
  BY NextVictim(p) DEF NextVictim, Oldest, Goto
<1>5. ~(pass[p].started - e.atime < grace \/ dir[e.name] = 0)
  <2>1. pass[p].started \in Time /\ e.atime \in Time /\ e.atime <= pass[p].started
    BY <1>0, <1>1 DEF SeenOf, Pass, Entry
  <2>2. dir[e.name] # 0
    BY <1>0, <1>1 DEF ScanOf
  <2> QED BY <1>0, <2>1, <2>2, Constants DEF Time
<1>6. PICK r : r = [pass[p] EXCEPT !.entries = @ \ {e}, !.name = e.name,
                                  !.gen = dir[e.name], !.size = e.size]
  OBVIOUS
<1>7. pc' = [pc EXCEPT ![p] = "try"] /\ pass' = [pass EXCEPT ![p] = r]
  BY <1>4, <1>5, <1>6
<1>8. /\ pass'[p] = r /\ pc'[p] = "try"
      /\ r.entries = pass[p].entries \ {e} /\ r.total = pass[p].total /\ r.started = pass[p].started
      /\ r.name = e.name /\ r.size = e.size
  <2>1. pass[p] \in Pass
    BY <1>0
  <2>2. /\ r.entries = pass[p].entries \ {e} /\ r.total = pass[p].total
        /\ r.started = pass[p].started /\ r.name = e.name /\ r.size = e.size
    BY ONLY <1>6, <2>1 DEF Pass
  <2> QED BY <1>0, <1>7, <2>2
<1>9. SeenOf(p)'
  BY <1>0, <1>1, <1>3, <1>8 DEF SeenOf
<1>10. ~Pending(p) /\ (Covers(p) => WatchedInv')
  <2>1. Covers(p) => Covers(p)'
    BY <1>1, <1>3, <1>8 DEF Covers
  <2> QED BY <1>1, <2>1 DEF Pending, WatchedInv
<1>11. \A q \in Procs \ {p} : pc'[q] = pc[q] /\ rc'[q] = rc[q] /\ pass'[q] = pass[q]
  BY <1>0, <1>1, <1>7
<1>12. WatchedInv'
  BY ONLY p \in Procs, Calm(p), <1>3, <1>10, <1>11, OthersWatch
<1> QED BY <1>3, <1>9, <1>12 DEF Quiet

\* A candidate whose lock somebody else has is one that is being fetched, by a
\* call that scans in its turn.
LEMMA TryLockQuiet ==
    ASSUME NEW p \in Procs, Calm(p), TryLock(p)
    PROVE  Quiet(p)
<1>0. /\ EvictInv /\ Placed(p) /\ pc \in [Procs -> Pcs] /\ ino \in [Names -> [Gen -> Inode]]
      /\ SeenOf(p) /\ EvictorOf(p) /\ LocksInv
  BY CalmPlaced DEF Calm, EvictInv, InvOf
<1>1. PICK n, g : n = pass[p].name /\ g = pass[p].gen
  OBVIOUS
<1>2. /\ pc[p] = "try" /\ UNCHANGED <<dir, last, call, pass, rc>>
      /\ n \in Names /\ g # 0 /\ dir[n] = g /\ g \in Gen /\ ino[n][g] \in Inode
  BY <1>0, <1>1, TryLock(p) DEF TryLock, EvictorOf, Placed, Gen
<1>3. \A m \in Names : ~Uses(p, m)
  BY <1>2 DEF Uses
<1>4. CASE Free(n, g, p)
  <2>1. PICK i : i = [ino[n][g] EXCEPT !.lock = p]
    OBVIOUS
  <2>2. /\ pc' = [pc EXCEPT ![p] = "unlink"] /\ ino' = [ino EXCEPT ![n][g] = i]
    BY <1>1, <1>4, <2>1, TryLock(p) DEF TryLock, Goto
  <2>3. i \in Inode /\ i.lock = p /\ i.data = ino[n][g].data
    BY <1>2, <2>1 DEF Inode
  <2>4. /\ ino'[n][g] = i
        /\ \A m \in Names, h \in Gen : m # n \/ h # g => ino'[m][h] = ino[m][h]
    BY ONLY <1>0, <1>2, <2>2, <2>3
  <2>5. pc'[p] = "unlink" /\ \A q \in Procs \ {p} : pc'[q] = pc[q]
    BY <1>0, <2>2
  <2>6. Uses(p, n)'
    BY <1>1, <1>2, <2>5 DEF Uses
  <2>7. LocksKept(p) /\ SizesKept(p)
    BY ONLY p \in Procs, <1>0, <1>2, <1>3, <2>3, <2>4, <2>6, InodeQuiet
  <2>8. Bulk' = Bulk
    <3>1. \A m \in Names : dir[m] # 0 => dir[m] \in Gen
      BY <1>0 DEF Placed, Gen
    <3>2. \A m \in Names, h \in Gen : ino'[m][h].data = ino[m][h].data
      BY <2>3, <2>4
    <3>3. \A m \in Names : Size(m)' = Size(m)
      BY <1>2, <3>1, <3>2 DEF Size
    <3> QED BY <3>3 DEF Bulk
  <2>9. SeenOf(p)'
    BY <1>0, <1>2, <2>5, <2>8 DEF SeenOf
  <2>10. ~Pending(p) /\ (Covers(p) => WatchedInv')
    <3>1. Covers(p) => Covers(p)'
      BY <1>2, <2>5, <2>8 DEF Covers
    <3> QED BY <1>2, <3>1 DEF Pending, WatchedInv
  <2>11. WatchedInv'
    BY ONLY p \in Procs, Calm(p), <1>2, <2>5, <2>8, <2>10, OthersWatch
  <2> QED BY <2>7, <2>9, <2>11 DEF Quiet
<1>5. CASE ~Free(n, g, p)
  <2>1. pc' = [pc EXCEPT ![p] = "victim"] /\ ino' = ino
    BY <1>1, <1>5, TryLock(p) DEF TryLock, Goto
  <2>2. LocksKept(p) /\ SizesKept(p) /\ Bulk' = Bulk
    BY ONLY p \in Procs, <1>2, <1>3, <2>1, StillQuiet DEF fsVars
  <2>3. pc'[p] = "victim" /\ \A q \in Procs \ {p} : pc'[q] = pc[q]
    BY <1>0, <2>1
  <2>4. SeenOf(p)'
    BY <1>0, <1>2, <2>2, <2>3 DEF SeenOf
  <2>5. PICK q \in Procs : q # p /\ ino[n][g].lock = q
    BY <1>2, <1>5 DEF Free, Inode
  <2>6. Uses(q, n)
    BY <1>0, <1>2, <2>5 DEF LocksInv
  <2>7. pc[q] # "unlink"
    BY <1>0, <1>2, <2>5 DEF EvictInv, InvOf, EvictorOf
  <2>8. Pending(q)'
    BY <2>3, <2>5, <2>6, <2>7 DEF Uses, Pending
  <2> QED BY <2>2, <2>4, <2>8 DEF Quiet, WatchedInv
<1> QED BY <1>4, <1>5

\* The evictor counts down by no more than what it has removed.
LEMMA UnlinkQuiet ==
    ASSUME NEW p \in Procs, Calm(p), Unlink(p)
    PROVE  Quiet(p)
<1>0. /\ EvictInv /\ Placed(p) /\ pc \in [Procs -> Pcs] /\ ino \in [Names -> [Gen -> Inode]]
      /\ dir \in [Names -> 0..MaxGen] /\ pass \in [Procs -> Pass]
      /\ SeenOf(p) /\ ScanOf(p) /\ EvictorOf(p) /\ WatchedInv
  BY CalmPlaced DEF Calm, EvictInv, InvOf
<1>1. PICK n, g : n = pass[p].name /\ g = pass[p].gen
  OBVIOUS
<1>2. /\ pc[p] = "unlink" /\ UNCHANGED <<last, call, rc>>
      /\ pc' = [pc EXCEPT ![p] = "victim"]
      /\ dir' = [dir EXCEPT ![n] = 0]
      /\ ino' = [ino EXCEPT ![n][g].lock = None]
      /\ pass' = [pass EXCEPT ![p].total = @ - pass[p].size]
  BY <1>1, Unlink(p) DEF Unlink, Goto
<1>3. n \in Names /\ g # 0 /\ dir[n] = g /\ g \in Gen
  BY <1>0, <1>1, <1>2 DEF EvictorOf, Placed, Gen
<1>4. \A m \in Names : m # n => ino'[m] = ino[m] /\ dir'[m] = dir[m]
  BY <1>0, <1>2
<1>5. dir'[n] = 0
  BY <1>0, <1>2, <1>3
<1>6. LocksKept(p)
  <2>1. \A m \in Names : Uses(p, m) => m = n
    BY <1>1, <1>2 DEF Uses
  <2> QED BY <1>4, <1>5, <2>1 DEF LocksKept
<1>7. Bulk' = Bulk \ {n}
  BY <1>4, <1>5 DEF Bulk, Size
<1>8. SizesKept(p)
  BY <1>3, <1>5, <1>7 DEF SizesKept
<1>9. /\ pc'[p] = "victim" /\ \A q \in Procs \ {p} : pc'[q] = pc[q] /\ pass'[q] = pass[q]
      /\ pass'[p].entries = pass[p].entries /\ pass'[p].started = pass[p].started
      /\ pass'[p].total = pass[p].total - pass[p].size
  BY <1>0, <1>2 DEF Pass
<1>10. SeenOf(p)'
  <2>1. \A e \in pass[p].entries : e.name # n
    BY <1>0, <1>1, <1>2 DEF ScanOf
  <2> QED BY <1>0, <1>2, <1>7, <1>9, <2>1 DEF SeenOf
<1>11. /\ Cardinality(Bulk) \in Nat /\ Cardinality(Bulk') \in Nat
       /\ Cardinality(Bulk') <= Cardinality(Bulk)
       /\ n \in Bulk => Cardinality(Bulk') = Cardinality(Bulk) - 1
  <2>1. PICK B : B = Bulk
    OBVIOUS
  <2>2. IsFiniteSet(B) /\ IsFiniteSet(B \ {n}) /\ B \ {n} \subseteq B
    BY <2>1, EvictAssumption, FS_Subset DEF Bulk
  <2>3. /\ Cardinality(B) \in Nat /\ Cardinality(B \ {n}) \in Nat
        /\ Cardinality(B \ {n}) <= Cardinality(B)
    BY <2>2, FS_CardinalityType, FS_Subset
  <2>4. n \in B => Cardinality(B \ {n}) = Cardinality(B) - 1
    BY <2>2, FS_RemoveElement
  <2> QED BY <1>7, <2>1, <2>3, <2>4
<1>12. WatchedInv'
  <2>1. CASE Cardinality(Bulk) <= Capacity
    BY <1>11, <2>1, Constants DEF WatchedInv
  <2>2. CASE Covers(p)
    <3>1. pass[p].size \in {0, 1} /\ pass[p].total \in Nat /\ (pass[p].size = 1 => n \in Bulk)
      BY <1>0, <1>1, <1>2 DEF Pass, SeenOf
    <3>2. Cardinality(Bulk') <= pass[p].total - pass[p].size
      BY <1>11, <2>2, <3>1 DEF Covers
    <3>3. Covers(p)'
      BY <1>1, <1>7, <1>9, <2>2, <3>2 DEF Covers
    <3> QED BY <3>3 DEF WatchedInv
  <2>3. ASSUME NEW q \in Procs, q # p, Pending(q) PROVE WatchedInv'
    BY <1>2, <1>9, <2>3 DEF Pending, WatchedInv
  <2>4. ~Pending(p)
    BY <1>2 DEF Pending
  <2>5. ASSUME NEW q \in Procs, q # p PROVE ~Covers(q)
    BY <1>0, <1>2, <2>5 DEF Covers, EvictInv, InvOf, EvictorOf
  <2> QED BY <1>0, <2>1, <2>2, <2>3, <2>4, <2>5 DEF WatchedInv
<1> QED BY <1>6, <1>8, <1>10, <1>12 DEF Quiet

\* An evictor that knows of all there is ends with no more than the capacity.
LEMMA EvictDoneQuiet ==
    ASSUME NEW p \in Procs, Calm(p), EvictDone(p)
    PROVE  Quiet(p)
<1>0. pc \in [Procs -> Pcs] /\ pass \in [Procs -> Pass]
  BY CalmPlaced
<1>1. /\ pc[p] = "victim" /\ UNCHANGED <<fsVars, pass, rc>>
      /\ pc'[p] = "read" /\ \A q \in Procs \ {p} : pc'[q] = pc[q]
      /\ pass[p].total <= Low \/ pass[p].entries = {}
  BY <1>0, EvictDone(p) DEF EvictDone, Goto
<1>2. \A n \in Names : ~Uses(p, n)
  BY <1>1 DEF Uses
<1>3. LocksKept(p) /\ SizesKept(p) /\ Bulk' = Bulk
  BY ONLY p \in Procs, <1>1, <1>2, StillQuiet
<1>4. SeenOf(p)'
  BY <1>1 DEF SeenOf
<1>5. ~Pending(p) /\ (Covers(p) => WatchedInv')
  <2> SUFFICES ASSUME Covers(p) PROVE Cardinality(Bulk) <= Capacity
    BY <1>1, <1>3 DEF Pending, WatchedInv
  <2>1. CASE pass[p].total <= Low
    <3>1. Cardinality(Bulk) \in Nat /\ pass[p].total \in Nat /\ Low <= Capacity
      <4>1. IsFiniteSet(Bulk)
        BY EvictAssumption, FS_Subset DEF Bulk
      <4> QED BY <1>0, <4>1, FS_CardinalityType, EvictAssumption, Constants DEF Pass
    <3> QED BY <2>1, <3>1, Constants DEF Covers
  <2>2. CASE pass[p].entries = {}
    <3>1. Bulk = {}
      BY <1>1, <2>2 DEF Covers
    <3>2. Cardinality(Bulk) = 0
      BY <3>1, FS_EmptySet
    <3> QED BY <3>2, Constants
  <2> QED BY <1>1, <2>1, <2>2
<1>6. WatchedInv'
  BY ONLY p \in Procs, Calm(p), <1>1, <1>3, <1>5, OthersWatch
<1> QED BY <1>3, <1>4, <1>6 DEF Quiet

\* Every step of a process, and the begin of every call.
LEMMA StepIsQuiet ==
    ASSUME NEW p \in Procs, Calm(p), Step(p)
    PROVE  Quiet(p)
<1>1. CASE Consumption(p)
  BY <1>1, NotPlain, BeginQuiet, GoOnQuiet, InodeStepsQuiet, StoreQuiet, ReadQuiet DEF Consumption
<1>2. CASE Eviction(p)
  BY <1>2, NotPlain, GoOnQuiet, ScanQuiet, RescanQuiet, NextVictimQuiet, TryLockQuiet, UnlinkQuiet,
     EvictDoneQuiet DEF Eviction
<1>3. CASE RangeConsumption(p)
  BY <1>3, NotPlain, GoOnQuiet, InodeStepsQuiet DEF RangeConsumption
<1> QED BY <1>1, <1>2, <1>3 DEF Step

\* A step of the system keeps somebody watching.
LEMMA QuietStep == EvictInv /\ QuietInv /\ [Next]_vars => QuietInv'
<1> SUFFICES ASSUME EvictInv, QuietInv, [Next]_vars, Plain' PROVE QuietInv'
  BY DEF QuietInv
<1>1. ASSUME NEW p \in Procs, Good(p), conf' = conf, Calm(p) => Quiet(p) PROVE QuietInv'
  <2>1. Move(p) /\ TypeOK'
    BY <1>1 DEF Good
  <2>2. Plain
    <3>1. \A r \in RangeFiles : last[r] = 0
      <4>1. \A r \in RangeFiles : last'[r] = 0 /\ last[r] <= last'[r] /\ last[r] \in Nat
        BY <2>1, Actor, Constants DEF Plain, Move, NamesKept, EvictInv, TypeOK
      <4> QED BY <4>1
    <3> QED BY <1>1, <3>1 DEF Plain, conf
  <2>3. Calm(p)
    BY <2>2 DEF QuietInv, Calm
  <2> QED BY <1>1, <2>1, <2>3, QuietHolds
<1>2. ASSUME NEW p \in Procs, Step(p) PROVE QuietInv'
  <2>1. conf' = conf
    BY <1>2 DEF Step, Consumption, Produce, ConsumeWMetadata, Lock, CheckSize, GetData, GetDataFails,
         OpenCopy, OpenCopyFails, StoreDone, StoreFails, Read, Eviction, Scan, EvictFails, DirLock,
         Rescan, NextVictim, TryLock, Unlink, UnlinkFails, EvictDone, RangeConsumption, RangeLook,
         RangeRecheck, RangeFetch, RangeFetchFails, RangeRecord, RangeRead, RangeReadFails
  <2> QED BY <1>1, <1>2, <2>1, StepIsGood, StepIsQuiet
<1>3. ASSUME NEW p \in Procs,
             \/ \E f \in LocalFiles : ProduceOpen(p, f)
             \/ \E f \in Files : GetMetadata(p, f) \/ Consume(p, f)
             \/ \E r \in RangeFiles : RangeOpen(p, r)
      PROVE  QuietInv'
  <2>1. conf' = conf
    BY <1>3 DEF ProduceOpen, GetMetadata, Consume, RangeOpen
  <2>2. Good(p)
    BY <1>3, BeginIsGood
  <2>3. Calm(p) => Quiet(p)
    BY <1>3, BeginQuiet
  <2> QED BY <1>1, <2>1, <2>2, <2>3
<1>4. CASE UNCHANGED <<conf, fsVars, pc, call, pass, rc>>
  <2>1. Bulk' = Bulk
    BY <1>4 DEF Bulk, Size, fsVars
  <2>2. Plain
    BY <1>4 DEF Plain, conf, fsVars
  <2>3. LocksInv'
    BY <1>4, <2>2 DEF QuietInv, LocksInv, Uses, fsVars
  <2>4. (\A p \in Procs : SeenOf(p))'
    BY <1>4, <2>1, <2>2 DEF QuietInv, SeenOf
  <2>5. WatchedInv'
    BY <1>4, <2>1, <2>2 DEF QuietInv, WatchedInv, Pending, Covers
  <2> QED BY <2>3, <2>4, <2>5 DEF QuietInv
<1> QED BY <1>2, <1>3, <1>4 DEF Next, Tick, vars

\* The files that are there at first are within the capacity.
LEMMA QuietInit == Init => QuietInv
<1> SUFFICES ASSUME Init PROVE QuietInv
  OBVIOUS
<1>1. PICK old \in SUBSET (Files \cup LocalFiles) :
        /\ Cardinality(old) <= Capacity
        /\ dir = [n \in Names |-> IF n \in old THEN 1 ELSE 0]
        /\ ino = [n \in Names |-> [g \in Gen |->
                     [data |-> IF n \in old /\ g = 1 THEN "whole" ELSE "empty",
                      lock |-> None, atime |-> 0, mtime |-> 0]]]
  BY DEF Init
<1>2. Bulk = old
  <2>1. \A n \in Names : Size(n) = 1 <=> n \in old
    <3>1. 1 \in Gen
      BY Constants DEF Gen
    <3>2. ASSUME NEW n \in Names, n \in old PROVE Size(n) = 1
      BY <1>1, <3>1, <3>2 DEF Size
    <3>3. ASSUME NEW n \in Names, n \notin old PROVE Size(n) = 0
      BY <1>1, <3>3 DEF Size
    <3> QED BY <3>2, <3>3
  <2> QED BY <2>1, Constants DEF Bulk
<1>3. LocksInv
  <2>1. \A n \in Names : dir[n] # 0 => dir[n] \in Gen
    BY <1>1, Constants DEF Gen
  <2> QED BY <1>1, <2>1, Constants DEF LocksInv
<1>4. \A p \in Procs : SeenOf(p)
  BY DEF Init, SeenOf
<1>5. WatchedInv
  BY <1>1, <1>2 DEF WatchedInv
<1> QED BY <1>3, <1>4, <1>5 DEF QuietInv

\* Once every call has returned there is no more in the directory than its
\* capacity, where nothing fails, nothing is in its grace period and no ranges
\* are cached: the last to store has scanned after all others have stored, and
\* whoever removes files knows of all that count.
THEOREM QuietIsWithinCapacity == Spec => []QuietWithinCapacity
<1>1. QuietInv => QuietWithinCapacity
  <2> SUFFICES ASSUME QuietInv, Plain, \A p \in Procs : pc[p] = "idle" /\ rc[p] # "error"
               PROVE  TotalSize <= Capacity
    BY DEF QuietWithinCapacity, Plain
  <2>1. \A p \in Procs : ~Pending(p) /\ ~Covers(p)
    BY DEF Pending, Covers
  <2> QED BY <2>1 DEF QuietInv, WatchedInv, TotalSize, Bulk
<1>2. Spec => []QuietInv
  BY EvictInvariant, QuietInit, QuietStep, PTL DEF Spec
<1> QED BY <1>1, <1>2, PTL
=============================================================================
