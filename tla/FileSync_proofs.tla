--------------------------- MODULE FileSync_proofs ---------------------------
(***************************************************************************)
(* Proofs about the synchronisation of a file, for any consumers, nodes,   *)
(* length of the file and deployments.                                     *)
(***************************************************************************)
EXTENDS FileSync, TLAPS

\* A consumer with a copy of its own; one that transfers it; one that has.
Away(c) == ~SharedStorage /\ NodeOf[c] # ProdNode
Fetching(c) == cpc[c] \in {"kvs", "get", "store"}
Fetched(c) == rc[c] = "OK" /\ got[c] > 0

\* The file of the producer only grows, and is announced when it is there; on
\* other nodes there is nothing before.
ProducerInv ==
    /\ len[ProdNode] <= written
    /\ ppc \in {"start", "lock"} => written = 0
    /\ ppc \in {"release", "close", "publish", "done"} => written = FileLen
    /\ ppc \in {"publish", "done"} /\ "close" \notin Faults => len[ProdNode] = FileLen
    /\ kvs => ppc = "done"
    /\ \A n \in Nodes \ {ProdNode} : len[n] > 0 => kvs

\* A consumer that trusts a size, or transfers, has the lock of its file.
ConsumerInv(c) ==
    /\ cpc[c] \notin {"read", "done"} <=> rc[c] = "none"
    /\ cpc[c] = "size" => lock[Loc(c)] = c
    /\ Fetching(c) /\ ~SharedStorage => lock[Loc(c)] = c
    /\ cpc[c] \in {"get", "store"} \/ got[c] > 0 => Away(c) /\ kvs
    /\ cpc[c] \in {"start", "lock", "size", "kvs", "get"} => got[c] = 0
    /\ cpc[c] = "store" => got[c] > 0
    /\ pos[c] <= got[c] /\ pos[c] <= len[Loc(c)]
    /\ Fetched(c) => pos[c] = got[c]
    /\ "close" \notin Faults /\ got[c] > 0 => got[c] = FileLen

\* Who transfers under lock has found no record, and who has transferred one
\* leaves nobody behind that still could.
OnceInv(c) ==
    UseFsLocks =>
        /\ Away(c) /\ Fetching(c) => len[Loc(c)] = pos[c]
        /\ Fetched(c) => \A d \in Consumers \ {c} :
              Loc(d) = Loc(c) => ~Fetching(d) /\ ~Fetched(d)

\* The producer has the lock as long as its file may be a part.
GuardInv ==
    Reliable /\ UseFsLocks /\ Exposed =>
        /\ ppc \in {"write", "release"} => lock[ProdNode] = Producer
        /\ ppc \in {"release", "close", "publish", "done"} => len[ProdNode] = FileLen
        /\ ppc # "dead"

\* Success means that the file is whole; a copy is a part only while somebody
\* is writing it.
WholeInv(c) ==
    Reliable /\ ~LeavesPart =>
        /\ rc[c] = "OK" => len[Loc(c)] = FileLen /\ len[ProdNode] = FileLen
        /\ cpc[c] = "done" /\ rc[c] = "OK" => seen[c] = FileLen
        /\ UseFsLocks /\ Away(c) /\ len[Loc(c)] \notin {0, FileLen} =>
             \E d \in Consumers : cpc[d] = "store" /\ Loc(d) = Loc(c)

\* The invariant that all the theorems rest on.
SyncInv ==
    /\ TypeOK /\ ProducerInv /\ GuardInv
    /\ \A c \in Consumers : ConsumerInv(c) /\ OnceInv(c) /\ WholeInv(c)

-----------------------------------------------------------------------------
\* A consumer is away from the producer if its file is a copy.
LEMMA Places ==
    ASSUME TypeOK, NEW c \in Consumers
    PROVE  Loc(c) \in Nodes /\ (Away(c) <=> Loc(c) # ProdNode)
BY ActorsAssumption, ConfigAssumption DEF TypeOK, Config, Loc, Away, SharedStorage, NodeOf

\* The deployment does not change.
LEMMA SameDeployment ==
    ASSUME conf' = conf
    PROVE  /\ \A c \in Consumers : Loc(c)' = Loc(c) /\ (Away(c)' <=> Away(c))
           /\ UseFsLocks' <=> UseFsLocks
           /\ SharedStorage' <=> SharedStorage
           /\ Reliable' <=> Reliable
           /\ Exposed' <=> Exposed
           /\ LeavesPart' <=> LeavesPart
           /\ Faults' = Faults /\ Api' = Api /\ (FsyncWrite' <=> FsyncWrite)
BY DEF Loc, Away, UseFsLocks, SharedStorage, Reliable, Exposed, LeavesPart, Faults, Api,
       FsyncWrite, NodeOf

\* What the actions of the producer leave of the consumers and their files.
ProducerMove ==
    /\ UNCHANGED consVars
    /\ \A n \in Nodes \ {ProdNode} : len'[n] = len[n] /\ lock'[n] = lock[n]
    /\ len[ProdNode] <= len'[ProdNode]
    /\ \/ lock'[ProdNode] = lock[ProdNode]
       \/ {lock[ProdNode], lock'[ProdNode]} \subseteq {Producer, NoOwner}
    /\ kvs => kvs'

\* What a step of consumer c leaves of the others: it changes the length of a file
\* only while it stores it, and starts to transfer it only if it finds it empty.
ConsumerMove(c) ==
    /\ UNCHANGED <<prodVars, kvs>>
    /\ \A d \in Consumers \ {c} :
          /\ cpc'[d] = cpc[d] /\ got'[d] = got[d] /\ pos'[d] = pos[d]
          /\ rc'[d] = rc[d] /\ seen'[d] = seen[d]
    /\ \A n \in Nodes :
          /\ len[n] <= len'[n]
          /\ len'[n] = len[n] \/ (n = Loc(c) /\ cpc[c] = "store")
          /\ lock'[n] = lock[n] \/ {lock[n], lock'[n]} \subseteq {c, NoOwner}
    /\ Fetching(c)' => Fetching(c) \/ (UseFsLocks => len[Loc(c)] = 0)
    /\ Fetched(c)' => Fetching(c) \/ Fetched(c)

\* The types of what is compared.
Typed ==
    /\ written \in Nat /\ ProdNode \in Nodes /\ FileLen \in Nat \ {0}
    /\ Producer \notin Consumers /\ NoOwner \notin Consumers /\ NoOwner # Producer
    /\ \A n \in Nodes : len[n] \in Nat /\ len[n] <= FileLen
    /\ \A c \in Consumers :
          /\ got[c] \in Nat /\ got[c] <= FileLen /\ pos[c] \in Nat
          /\ cpc[c] \in {"start", "lock", "size", "kvs", "get", "store",
                        "read", "done", "dead"}

\* That the type invariant gives them.
LEMMA TypedFacts == (TypeOK => Typed) /\ (TypeOK' => Typed')
BY ActorsAssumption DEF TypeOK, Typed

\* Steps of the producer keep what is known of every consumer.
LEMMA ProducerKeeps ==
    ASSUME SyncInv, TypeOK', ProducerMove, NEW c \in Consumers
    PROVE  ConsumerInv(c)' /\ OnceInv(c)' /\ WholeInv(c)'
<1>1. /\ Typed /\ Typed' /\ ConsumerInv(c) /\ OnceInv(c) /\ WholeInv(c) /\ TypeOK
      /\ \A d \in Consumers : ConsumerInv(d)
      /\ \A d \in Consumers : Loc(d) \in Nodes /\ (Away(d) <=> Loc(d) # ProdNode)
  BY TypedFacts, Places DEF SyncInv
<1>2. /\ conf' = conf /\ cpc' = cpc /\ got' = got /\ pos' = pos /\ rc' = rc /\ seen' = seen
      /\ \A n \in Nodes : 
            /\ len[n] <= len'[n]
            /\ n # ProdNode => len'[n] = len[n] /\ lock'[n] = lock[n]
      /\ \A d \in Consumers, n \in Nodes : lock[n] = d => lock'[n] = d
      /\ kvs => kvs'
  BY <1>1 DEF ProducerMove, consVars, Typed
<1>3. /\ \A d \in Consumers : Loc(d)' = Loc(d) /\ (Away(d)' <=> Away(d))
      /\ UseFsLocks' <=> UseFsLocks
      /\ SharedStorage' <=> SharedStorage
      /\ Reliable' <=> Reliable
      /\ LeavesPart' <=> LeavesPart
      /\ Faults' = Faults
      /\ \A d \in Consumers : (Fetching(d)' <=> Fetching(d)) /\ (Fetched(d)' <=> Fetched(d))
  BY <1>2, SameDeployment DEF Fetching, Fetched
<1>4. ConsumerInv(c)'
  BY ONLY <1>1, <1>2, <1>3, c \in Consumers DEF ConsumerInv, Typed
<1>5. OnceInv(c)'
  BY ONLY <1>1, <1>2, <1>3, c \in Consumers DEF OnceInv
<1>6. WholeInv(c)'
  BY ONLY <1>1, <1>2, <1>3, c \in Consumers DEF WholeInv, Typed
<1> QED BY <1>4, <1>5, <1>6

\* Steps of a consumer keep what is known of the producer and of the others.
LEMMA ConsumerKeeps ==
    ASSUME SyncInv, TypeOK', NEW c \in Consumers, ConsumerMove(c),
           ConsumerInv(c)', OnceInv(c)', WholeInv(c)'
    PROVE  SyncInv'
<1>1. /\ Typed /\ Typed' /\ TypeOK /\ ProducerInv /\ GuardInv
      /\ \A d \in Consumers : ConsumerInv(d) /\ OnceInv(d) /\ WholeInv(d)
      /\ \A d \in Consumers : Loc(d) \in Nodes /\ (Away(d) <=> Loc(d) # ProdNode)
  BY TypedFacts, Places DEF SyncInv
<1>2. /\ conf' = conf /\ ppc' = ppc /\ written' = written /\ kvs' = kvs
      /\ \A d \in Consumers \ {c} :
            /\ cpc'[d] = cpc[d] /\ got'[d] = got[d] /\ pos'[d] = pos[d]
            /\ rc'[d] = rc[d] /\ seen'[d] = seen[d]
      /\ \A n \in Nodes :
            /\ len[n] <= len'[n]
            /\ len'[n] = len[n] \/ (n = Loc(c) /\ cpc[c] = "store")
            /\ \A p : p # c /\ p # NoOwner /\ lock[n] = p => lock'[n] = p
  BY DEF ConsumerMove, prodVars
<1>3. cpc[c] = "store" => Loc(c) # ProdNode /\ kvs /\ ~SharedStorage /\ lock[Loc(c)] = c
  BY <1>1 DEF ConsumerInv, Away, Fetching
<1>4. len'[ProdNode] = len[ProdNode]
  BY <1>1, <1>2, <1>3 DEF Typed
<1>5. ProducerInv'
  BY <1>1, <1>2, <1>3, <1>4, SameDeployment DEF ProducerInv
<1>6. GuardInv'
  BY <1>1, <1>2, <1>4, SameDeployment DEF GuardInv, Typed
<1>7. ASSUME NEW d \in Consumers \ {c}
      PROVE  ConsumerInv(d)' /\ OnceInv(d)' /\ WholeInv(d)'
  <2>1. /\ ConsumerInv(d) /\ OnceInv(d) /\ WholeInv(d) /\ d # NoOwner /\ d # c
        /\ Loc(d) \in Nodes /\ (Away(d) <=> Loc(d) # ProdNode)
        /\ Loc(d)' = Loc(d) /\ Loc(c)' = Loc(c)
    BY <1>1, <1>2, SameDeployment DEF Typed
  <2>2. ConsumerInv(d)'
    <3>1. /\ Away(d)' <=> Away(d)
          /\ SharedStorage' <=> SharedStorage
          /\ Faults' = Faults
          /\ Fetching(d)' <=> Fetching(d)
          /\ Fetched(d)' <=> Fetched(d)
      BY <1>2, SameDeployment DEF Fetching, Fetched
    <3> QED BY ONLY <1>1, <1>2, <2>1, <3>1, d \in Consumers \ {c} DEF ConsumerInv, Typed
  <2>3. OnceInv(d)'
    <3> SUFFICES ASSUME UseFsLocks
                 PROVE  /\ Away(d)' /\ Fetching(d)' => len'[Loc(d)] = pos'[d]
                        /\ Fetched(d)' => \A e \in Consumers \ {d} :
                              Loc(e)' = Loc(d)' => ~Fetching(e)' /\ ~Fetched(e)'
      BY <1>2, <2>1, SameDeployment DEF OnceInv
    <3>1. ASSUME Away(d)', Fetching(d)' PROVE len'[Loc(d)] = pos'[d]
      <4>1. Away(d) /\ Fetching(d) /\ lock[Loc(d)] = d /\ pos'[d] = pos[d]
        BY <1>2, <2>1, <3>1, SameDeployment DEF Fetching, ConsumerInv, Away
      <4>2. ~(Loc(d) = Loc(c) /\ cpc[c] = "store")
        BY <1>3, <2>1, <4>1
      <4> QED BY <1>2, <2>1, <4>1, <4>2 DEF OnceInv
    <3>2. ASSUME Fetched(d)', NEW e \in Consumers \ {d}, Loc(e)' = Loc(d)'
          PROVE  ~Fetching(e)' /\ ~Fetched(e)'
      <4>1. Fetched(d) /\ Loc(e) = Loc(d) /\ ~Fetching(e) /\ ~Fetched(e)
        BY <1>2, <2>1, <3>2, SameDeployment DEF Fetched, OnceInv
      <4>2. CASE e # c
        BY <1>2, <4>1, <4>2 DEF Fetching, Fetched
      <4>3. CASE e = c
        <5>1. len[Loc(c)] # 0
          BY <1>1, <2>1, <4>1, <4>3 DEF Fetched, ConsumerInv, Typed
        <5> QED BY <4>1, <4>3, <5>1 DEF ConsumerMove
      <4> QED BY <4>2, <4>3
    <3> QED BY <3>1, <3>2
  <2>4. WholeInv(d)'
    <3> SUFFICES ASSUME Reliable, ~LeavesPart
                 PROVE  /\ rc'[d] = "OK" => len'[Loc(d)] = FileLen /\ len'[ProdNode] = FileLen
                        /\ cpc'[d] = "done" /\ rc'[d] = "OK" => seen'[d] = FileLen
                        /\ UseFsLocks /\ Away(d) /\ len'[Loc(d)] \notin {0, FileLen} =>
                              \E e \in Consumers : cpc'[e] = "store" /\ Loc(e) = Loc(d)
      <4>1. \A e \in Consumers : Loc(e)' = Loc(e)
        BY <1>2, SameDeployment
      <4> QED BY <1>2, <2>1, <4>1, SameDeployment DEF WholeInv
    <3>1. rc'[d] = "OK" => len'[Loc(d)] = FileLen /\ len'[ProdNode] = FileLen
      <4> SUFFICES ASSUME rc'[d] = "OK" PROVE len'[Loc(d)] = FileLen
        BY <1>2, <1>4, <2>1 DEF WholeInv
      <4>1. len[Loc(d)] = FileLen
        BY <1>2, <2>1 DEF WholeInv
      <4>2. len[Loc(d)] <= len'[Loc(d)] /\ len'[Loc(d)] <= FileLen /\ len'[Loc(d)] \in Nat
        BY <1>1, <1>2, <2>1 DEF Typed
      <4> QED BY <1>1, <4>1, <4>2 DEF Typed
    <3>2. cpc'[d] = "done" /\ rc'[d] = "OK" => seen'[d] = FileLen
      BY <1>2, <2>1 DEF WholeInv
    <3>3. ASSUME UseFsLocks, Away(d), len'[Loc(d)] \notin {0, FileLen}
          PROVE  \E e \in Consumers : cpc'[e] = "store" /\ Loc(e) = Loc(d)
      <4>1. CASE Loc(d) = Loc(c)
        <5>1. Away(c)' /\ (Reliable' /\ ~LeavesPart') /\ UseFsLocks'
          BY <1>1, <1>2, <2>1, <3>3, <4>1, SameDeployment
        <5>2. PICK e \in Consumers : cpc'[e] = "store" /\ Loc(e)' = Loc(c)'
          BY <2>1, <3>3, <4>1, <5>1 DEF WholeInv
        <5> QED BY <1>2, <4>1, <5>2, SameDeployment
      <4>2. CASE Loc(d) # Loc(c)
        <5>1. len'[Loc(d)] = len[Loc(d)]
          BY <1>2, <2>1, <4>2
        <5>2. PICK e \in Consumers : cpc[e] = "store" /\ Loc(e) = Loc(d)
          BY <2>1, <3>3, <5>1 DEF WholeInv
        <5> QED BY <1>2, <4>2, <5>2
      <4> QED BY <4>1, <4>2
    <3> QED BY <3>1, <3>2, <3>3
  <2> QED BY <2>2, <2>3, <2>4
<1> QED BY <1>5, <1>6, <1>7 DEF SyncInv

\* Every action of the producer keeps the invariant.
LEMMA ProducerSteps ==
    ASSUME SyncInv, Produce \/ ProducerFault
    PROVE  SyncInv' /\ ProducerMove
<1>1. /\ Typed /\ TypeOK /\ ProducerInv /\ GuardInv
      /\ Api \in {"open", "fopen", "stream"}
  BY TypedFacts, ConfigAssumption DEF SyncInv, TypeOK, Config, Api
<1>2. conf' = conf
  BY DEF Produce, ProducerFault, Open, LockFile, Write, Flush, EnterClose, ReleaseFile,
     CloseFile,
         Publish, LockFileFails, CloseFileFails, KillProducer, consVars, prodVars
<1>3. /\ Faults' = Faults /\ (Reliable' <=> Reliable) /\ (Exposed' <=> Exposed)
      /\ (UseFsLocks' <=> UseFsLocks)
  BY <1>2, SameDeployment
<1> DEFINE Kept == TypeOK' /\ ProducerMove /\ ProducerInv' /\ GuardInv'
<1>4. ASSUME Open PROVE Kept
  <2>1. TypeOK'
    BY <1>1, <1>4 DEF Open, TypeOK, Typed, consVars, prodVars, ProducerLocks
  <2>2. ProducerMove
    BY <1>1, <1>4 DEF Open, ProducerMove, ProducerInv, TypeOK, Typed, consVars, prodVars,
       ProducerLocks
  <2>3. ProducerInv'
    BY <1>1, <1>3, <1>4 DEF Open, ProducerInv, TypeOK, Typed, consVars, prodVars, ProducerLocks
  <2>4. GuardInv'
    BY <1>1, <1>3, <1>4 DEF Open, GuardInv, ProducerInv, TypeOK, Typed, consVars, prodVars,
       ProducerLocks, Reliable
  <2> QED BY <2>1, <2>2, <2>3, <2>4
<1>5. ASSUME LockFile PROVE Kept
  <2>1. TypeOK'
    BY <1>1, <1>5 DEF LockFile, TypeOK, Typed, consVars, prodVars, Acquire
  <2>2. ProducerMove
    BY <1>1, <1>5 DEF LockFile, ProducerMove, ProducerInv, TypeOK, Typed, consVars, prodVars,
       Acquire
  <2>3. ProducerInv'
    BY <1>1, <1>3, <1>5 DEF LockFile, ProducerInv, TypeOK, Typed, consVars, prodVars, Acquire
  <2>4. GuardInv'
    BY <1>1, <1>3, <1>5 DEF LockFile, GuardInv, ProducerInv, TypeOK, Typed, consVars, prodVars,
       Acquire
  <2> QED BY <2>1, <2>2, <2>3, <2>4
<1>6. ASSUME Write PROVE Kept
  <2>1. TypeOK'
    BY <1>1, <1>6 DEF Write, TypeOK, Typed, consVars, prodVars
  <2>2. ProducerMove
    BY <1>1, <1>6 DEF Write, ProducerMove, ProducerInv, TypeOK, Typed, consVars, prodVars
  <2>3. ProducerInv'
    BY <1>1, <1>3, <1>6 DEF Write, ProducerInv, TypeOK, Typed, consVars, prodVars
  <2>4. GuardInv'
    BY <1>1, <1>3, <1>6 DEF Write, GuardInv, ProducerInv, TypeOK, Typed, consVars, prodVars
  <2> QED BY <2>1, <2>2, <2>3, <2>4
<1>7. ASSUME Flush PROVE Kept
  <2>1. TypeOK'
    BY <1>1, <1>7 DEF Flush, TypeOK, Typed, consVars, prodVars
  <2>2. ProducerMove
    BY <1>1, <1>7 DEF Flush, ProducerMove, ProducerInv, TypeOK, Typed, consVars, prodVars
  <2>3. ProducerInv'
    BY <1>1, <1>3, <1>7 DEF Flush, ProducerInv, TypeOK, Typed, consVars, prodVars
  <2>4. GuardInv'
    BY <1>1, <1>3, <1>7 DEF Flush, GuardInv, ProducerInv, TypeOK, Typed, consVars, prodVars
  <2> QED BY <2>1, <2>2, <2>3, <2>4
<1>8. ASSUME EnterClose PROVE Kept
  <2>1. TypeOK'
    BY <1>1, <1>8 DEF EnterClose, TypeOK, Typed, consVars, prodVars
  <2>2. ProducerMove
    BY <1>1, <1>8 DEF EnterClose, ProducerMove, ProducerInv, TypeOK, Typed, consVars, prodVars
  <2>3. ProducerInv'
    BY <1>1, <1>3, <1>8 DEF EnterClose, ProducerInv, TypeOK, Typed, consVars, prodVars
  <2>4. GuardInv'
    BY <1>1, <1>3, <1>8 DEF EnterClose, GuardInv, ProducerInv, TypeOK, Typed, consVars,
       prodVars, Reliable
  <2> QED BY <2>1, <2>2, <2>3, <2>4
<1>9. ASSUME ReleaseFile PROVE Kept
  <2>1. TypeOK'
    BY <1>1, <1>9 DEF ReleaseFile, TypeOK, Typed, consVars, prodVars, Drop
  <2>2. ProducerMove
    BY <1>1, <1>9 DEF ReleaseFile, ProducerMove, ProducerInv, TypeOK, Typed, consVars,
       prodVars, Drop
  <2>3. ProducerInv'
    BY <1>1, <1>3, <1>9 DEF ReleaseFile, ProducerInv, TypeOK, Typed, consVars, prodVars, Drop
  <2>4. GuardInv'
    BY <1>1, <1>3, <1>9 DEF ReleaseFile, GuardInv, ProducerInv, TypeOK, Typed, consVars,
       prodVars, Drop
  <2> QED BY <2>1, <2>2, <2>3, <2>4
<1>10. ASSUME CloseFile PROVE Kept
  <2>1. TypeOK'
    BY <1>1, <1>10 DEF CloseFile, TypeOK, Typed, consVars, prodVars
  <2>2. ProducerMove
    BY <1>1, <1>10 DEF CloseFile, ProducerMove, ProducerInv, TypeOK, Typed, consVars, prodVars
  <2>3. ProducerInv'
    BY <1>1, <1>3, <1>10 DEF CloseFile, ProducerInv, TypeOK, Typed, consVars, prodVars
  <2>4. GuardInv'
    BY <1>1, <1>3, <1>10 DEF CloseFile, GuardInv, ProducerInv, TypeOK, Typed, consVars, prodVars
  <2> QED BY <2>1, <2>2, <2>3, <2>4
<1>11. ASSUME Publish PROVE Kept
  <2>1. TypeOK'
    BY <1>1, <1>11 DEF Publish, TypeOK, Typed, consVars, prodVars
  <2>2. ProducerMove
    BY <1>1, <1>11 DEF Publish, ProducerMove, ProducerInv, TypeOK, Typed, consVars, prodVars
  <2>3. ProducerInv'
    BY <1>1, <1>3, <1>11 DEF Publish, ProducerInv, TypeOK, Typed, consVars, prodVars
  <2>4. GuardInv'
    BY <1>1, <1>3, <1>11 DEF Publish, GuardInv, ProducerInv, TypeOK, Typed, consVars, prodVars
  <2> QED BY <2>1, <2>2, <2>3, <2>4
<1>12. ASSUME LockFileFails PROVE Kept
  <2>1. TypeOK'
    BY <1>1, <1>12 DEF LockFileFails, TypeOK, Typed, consVars, prodVars
  <2>2. ProducerMove
    BY <1>1, <1>12 DEF LockFileFails, ProducerMove, ProducerInv, TypeOK, Typed, consVars,
       prodVars
  <2>3. ProducerInv'
    BY <1>1, <1>3, <1>12 DEF LockFileFails, ProducerInv, TypeOK, Typed, consVars, prodVars
  <2>4. GuardInv'
    BY <1>1, <1>3, <1>12 DEF LockFileFails, GuardInv, ProducerInv, TypeOK, Typed, consVars,
       prodVars, Reliable
  <2> QED BY <2>1, <2>2, <2>3, <2>4
<1>13. ASSUME CloseFileFails PROVE Kept
  <2>1. TypeOK'
    BY <1>1, <1>13 DEF CloseFileFails, TypeOK, Typed, consVars, prodVars
  <2>2. ProducerMove
    BY <1>1, <1>13 DEF CloseFileFails, ProducerMove, ProducerInv, TypeOK, Typed, consVars,
       prodVars
  <2>3. ProducerInv'
    BY <1>1, <1>3, <1>13 DEF CloseFileFails, ProducerInv, TypeOK, Typed, consVars, prodVars
  <2>4. GuardInv'
    BY <1>1, <1>3, <1>13 DEF CloseFileFails, GuardInv, ProducerInv, TypeOK, Typed, consVars,
       prodVars
  <2> QED BY <2>1, <2>2, <2>3, <2>4
<1>14. ASSUME KillProducer PROVE Kept
  <2>1. TypeOK'
    BY <1>1, <1>14 DEF KillProducer, TypeOK, Typed, consVars, prodVars, Drop
  <2>2. ProducerMove
    BY <1>1, <1>14 DEF KillProducer, ProducerMove, ProducerInv, TypeOK, Typed, consVars,
       prodVars, Drop
  <2>3. ProducerInv'
    BY <1>1, <1>3, <1>14 DEF KillProducer, ProducerInv, TypeOK, Typed, consVars, prodVars, Drop
  <2>4. GuardInv'
    BY <1>1, <1>3, <1>14 DEF KillProducer, GuardInv, ProducerInv, TypeOK, Typed, consVars,
       prodVars, Drop, Reliable
  <2> QED BY <2>1, <2>2, <2>3, <2>4
<1>15. Kept
  BY <1>4, <1>5, <1>6, <1>7, <1>8, <1>9, <1>10, <1>11, <1>12, <1>13, <1>14 DEF Produce,
     ProducerFault
<1>16. \A c \in Consumers : ConsumerInv(c)' /\ OnceInv(c)' /\ WholeInv(c)'
  BY <1>15, ProducerKeeps
<1> QED BY <1>15, <1>16 DEF SyncInv

\* Every action of a consumer keeps the invariant.
LEMMA ConsumerSteps ==
    ASSUME SyncInv, NEW c \in Consumers, ConsumeOpen(c) \/ Consume(c) \/ ConsumerFault(c)
    PROVE  SyncInv' /\ ConsumerMove(c)
<1>1. /\ Typed /\ TypeOK /\ ProducerInv /\ GuardInv
      /\ \A d \in Consumers : ConsumerInv(d) /\ OnceInv(d) /\ WholeInv(d)
      /\ \A d \in Consumers : Loc(d) \in Nodes /\ (Away(d) <=> Loc(d) # ProdNode)
  BY TypedFacts, Places DEF SyncInv
<1>2. UNCHANGED prodVars
  BY DEF Consume, ConsumerFault, ConsumeOpen, ConsumeLock, CheckSize, Lookup, GetData,
     StoreRecord, StoreDone, Read, ConsumeLockFails, OpenCopyFails, ConsumeFails, KillConsumer
<1>3. /\ \A d \in Consumers : Loc(d)' = Loc(d) /\ (Away(d)' <=> Away(d))
      /\ UseFsLocks' <=> UseFsLocks
      /\ SharedStorage' <=> SharedStorage
      /\ Reliable' <=> Reliable
      /\ LeavesPart' <=> LeavesPart
      /\ Faults' = Faults
  BY <1>2, SameDeployment DEF prodVars
<1>4. Away(c) <=> ~SharedStorage /\ NodeOf[c] # ProdNode
  BY DEF Away
<1>5. ~Away(c) => Exposed
  BY DEF Away, Exposed
<1>p. ~LeavesPart => /\ "store" \notin Faults
                     /\ kvs => len[ProdNode] = FileLen
                     /\ got[c] > 0 => got[c] = FileLen
  BY <1>1 DEF LeavesPart, ProducerInv, ConsumerInv
<1> DEFINE Kept == TypeOK' /\ ConsumerMove(c) /\ ConsumerInv(c)' /\ OnceInv(c)' /\ WholeInv(c)'
<1>6. ASSUME ConsumeOpen(c) PROVE Kept
  <2>1. TypeOK'
    BY <1>1, <1>6 DEF ConsumeOpen, TypeOK, Typed, ConsumerInv, prodVars
  <2>2. ConsumerMove(c)
    BY <1>1, <1>3, <1>6 DEF ConsumeOpen, ConsumerMove, ConsumerInv, Fetching, Fetched, TypeOK,
       Typed, prodVars
  <2>3. ConsumerInv(c)'
    BY <1>1, <1>3, <1>4, <1>6 DEF ConsumeOpen, ProducerInv, ConsumerInv, Fetching, Fetched,
       TypeOK, Typed, prodVars
  <2>4. OnceInv(c)'
    BY <1>1, <1>3, <1>4, <1>6 DEF ConsumeOpen, ConsumerInv, OnceInv, Fetching, Fetched, TypeOK,
       Typed, prodVars
  <2>5. WholeInv(c)'
    BY <1>1, <1>3, <1>4, <1>5, <1>6 DEF ConsumeOpen, ProducerInv, ConsumerInv, OnceInv,
       WholeInv, GuardInv, Fetching, TypeOK, Typed, prodVars
  <2> QED BY <2>1, <2>2, <2>3, <2>4, <2>5
<1>7. ASSUME ConsumeLock(c) PROVE Kept
  <2>1. TypeOK'
    BY <1>1, <1>7 DEF ConsumeLock, TypeOK, Typed, ConsumerInv, prodVars, Acquire
  <2>2. ConsumerMove(c)
    BY <1>1, <1>3, <1>7 DEF ConsumeLock, ConsumerMove, ConsumerInv, Fetching, Fetched, TypeOK,
       Typed, prodVars, Acquire
  <2>3. ConsumerInv(c)'
    BY <1>1, <1>3, <1>4, <1>7 DEF ConsumeLock, ProducerInv, ConsumerInv, Fetching, Fetched,
       TypeOK, Typed, prodVars, Acquire
  <2>4. OnceInv(c)'
    BY <1>1, <1>3, <1>4, <1>7 DEF ConsumeLock, ConsumerInv, OnceInv, Fetching, Fetched, TypeOK,
       Typed, prodVars, Acquire
  <2>5. WholeInv(c)'
    BY <1>1, <1>3, <1>4, <1>5, <1>7 DEF ConsumeLock, ProducerInv, ConsumerInv, OnceInv,
       WholeInv, GuardInv, Fetching, TypeOK, Typed, prodVars, Acquire
  <2> QED BY <2>1, <2>2, <2>3, <2>4, <2>5
<1>8. ASSUME CheckSize(c) PROVE Kept
  <2>1. TypeOK'
    BY <1>1, <1>8 DEF CheckSize, TypeOK, Typed, ConsumerInv, prodVars, Drop, Return
  <2>2. ConsumerMove(c)
    BY <1>1, <1>3, <1>8 DEF CheckSize, ConsumerMove, ConsumerInv, Fetching, Fetched, TypeOK,
       Typed, prodVars, Drop, Return
  <2>3. ConsumerInv(c)'
    BY <1>1, <1>3, <1>4, <1>8 DEF CheckSize, ProducerInv, ConsumerInv, Fetching, Fetched,
       TypeOK, Typed, prodVars, Drop, Return
  <2>4. OnceInv(c)'
    BY <1>1, <1>3, <1>4, <1>8 DEF CheckSize, ConsumerInv, OnceInv, Fetching, Fetched, TypeOK,
       Typed, prodVars, Drop, Return
  <2>5. WholeInv(c)'
    <3> SUFFICES ASSUME Reliable, ~LeavesPart
                 PROVE  /\ rc'[c] = "OK" => len[Loc(c)] = FileLen /\ len[ProdNode] = FileLen
                        /\ cpc'[c] = "done" /\ rc'[c] = "OK" => seen'[c] = FileLen
                        /\ UseFsLocks /\ Away(c) /\ len[Loc(c)] \notin {0, FileLen} =>
                              \E d \in Consumers : cpc'[d] = "store" /\ Loc(d) = Loc(c)
      BY <1>1, <1>3, <1>8 DEF CheckSize, WholeInv
    <3>1. /\ cpc'[c] \in {"kvs", "read"} /\ cpc[c] = "size" /\ rc[c] # "OK" /\ lock[Loc(c)] = c
          /\ \A d \in Consumers \ {c} : cpc'[d] = cpc[d]
          /\ rc'[c] = "OK" => UseFsLocks /\ len[Loc(c)] # 0
      BY <1>1, <1>8 DEF CheckSize, ConsumerInv, TypeOK, Return
    <3>2. UseFsLocks /\ Away(c) => len[Loc(c)] \in {0, FileLen}
      BY <1>1, <3>1 DEF WholeInv, ConsumerInv, Fetching, Away
    <3>3. ASSUME rc'[c] = "OK" PROVE len[Loc(c)] = FileLen /\ len[ProdNode] = FileLen
      <4>1. CASE Away(c)
        <5>1. kvs
          BY <1>1, <3>1, <3>3, <4>1 DEF ProducerInv, Typed
        <5> QED BY <1>p, <3>1, <3>2, <3>3, <4>1, <5>1
      <4>2. CASE ~Away(c)
        <5>1. lock[ProdNode] = c /\ len[ProdNode] # 0 /\ c # Producer
          BY <1>1, <3>1, <3>3, <4>2 DEF Typed
        <5>2. ppc \in {"start", "lock", "write", "release", "close", "publish", "done", "dead"}
          BY <1>1 DEF TypeOK
        <5>3. ppc \notin {"start", "lock"}
          BY <1>1, <5>1 DEF ProducerInv, Typed
        <5> QED BY <1>1, <1>5, <3>1, <3>3, <4>2, <5>1, <5>2, <5>3 DEF GuardInv
      <4> QED BY <4>1, <4>2
    <3> QED BY <3>1, <3>2, <3>3
  <2> QED BY <2>1, <2>2, <2>3, <2>4, <2>5
<1>9. ASSUME Lookup(c) PROVE Kept
  <2>1. TypeOK'
    BY <1>1, <1>9 DEF Lookup, TypeOK, Typed, ConsumerInv, prodVars, Drop, Return
  <2>2. ConsumerMove(c)
    BY <1>1, <1>3, <1>9 DEF Lookup, ConsumerMove, ConsumerInv, Fetching, Fetched, TypeOK,
       Typed, prodVars, Drop, Return
  <2>3. ConsumerInv(c)'
    BY <1>1, <1>3, <1>4, <1>9 DEF Lookup, ProducerInv, ConsumerInv, Fetching, Fetched, TypeOK,
       Typed, prodVars, Drop, Return
  <2>4. OnceInv(c)'
    BY <1>1, <1>3, <1>4, <1>9 DEF Lookup, ConsumerInv, OnceInv, Fetching, Fetched, TypeOK,
       Typed, prodVars, Drop, Return
  <2>5. WholeInv(c)'
    <3> SUFFICES ASSUME Reliable, ~LeavesPart
                 PROVE  /\ rc'[c] = "OK" => len[Loc(c)] = FileLen /\ len[ProdNode] = FileLen
                        /\ cpc'[c] = "done" /\ rc'[c] = "OK" => seen'[c] = FileLen
                        /\ UseFsLocks /\ Away(c) /\ len[Loc(c)] \notin {0, FileLen} =>
                              \E d \in Consumers : cpc'[d] = "store" /\ Loc(d) = Loc(c)
      BY <1>1, <1>3, <1>9 DEF Lookup, WholeInv
    <3>1. /\ cpc'[c] \in {"get", "read"} /\ cpc[c] = "kvs" /\ rc[c] # "OK" /\ kvs /\ pos[c] = 0
          /\ rc'[c] = "OK" => ~Away(c)
      BY <1>1, <1>4, <1>9 DEF Lookup, ConsumerInv, TypeOK, Typed, Return
    <3>2. UseFsLocks /\ Away(c) => len[Loc(c)] = 0
      BY <1>1, <3>1 DEF OnceInv, Fetching
    <3> QED BY <1>p, <1>1, <3>1, <3>2
  <2> QED BY <2>1, <2>2, <2>3, <2>4, <2>5
<1>10. ASSUME GetData(c) PROVE Kept
  <2>1. TypeOK'
    BY <1>1, <1>10 DEF GetData, TypeOK, Typed, ConsumerInv, prodVars, Drop, Return
  <2>2. ConsumerMove(c)
    BY <1>1, <1>3, <1>10 DEF GetData, ConsumerMove, ConsumerInv, Fetching, Fetched, TypeOK,
       Typed, prodVars, Drop, Return
  <2>3. ConsumerInv(c)'
    BY <1>1, <1>3, <1>4, <1>10 DEF GetData, ProducerInv, ConsumerInv, Fetching, Fetched,
       TypeOK, Typed, prodVars, Drop, Return
  <2>4. OnceInv(c)'
    BY <1>1, <1>3, <1>4, <1>10 DEF GetData, ConsumerInv, OnceInv, Fetching, Fetched, TypeOK,
       Typed, prodVars, Drop, Return
  <2>5. WholeInv(c)'
    BY <1>1, <1>3, <1>4, <1>5, <1>10 DEF GetData, ProducerInv, ConsumerInv, OnceInv, WholeInv,
       GuardInv, Fetching, TypeOK, Typed, prodVars, Drop, Return
  <2> QED BY <2>1, <2>2, <2>3, <2>4, <2>5
<1>11. ASSUME StoreRecord(c) PROVE Kept
  <2>1. TypeOK'
    BY <1>1, <1>11 DEF StoreRecord, TypeOK, Typed, ConsumerInv, prodVars
  <2>2. ConsumerMove(c)
    BY <1>1, <1>3, <1>11 DEF StoreRecord, ConsumerMove, ConsumerInv, Fetching, Fetched, TypeOK,
       Typed, prodVars
  <2>3. ConsumerInv(c)'
    BY <1>1, <1>3, <1>4, <1>11 DEF StoreRecord, ProducerInv, ConsumerInv, Fetching, Fetched,
       TypeOK, Typed, prodVars
  <2>4. OnceInv(c)'
    BY <1>1, <1>3, <1>4, <1>11 DEF StoreRecord, ConsumerInv, OnceInv, Fetching, Fetched,
       TypeOK, Typed, prodVars
  <2>5. WholeInv(c)'
    BY <1>1, <1>3, <1>4, <1>5, <1>11 DEF StoreRecord, ProducerInv, ConsumerInv, OnceInv,
       WholeInv, GuardInv, Fetching, TypeOK, Typed, prodVars
  <2> QED BY <2>1, <2>2, <2>3, <2>4, <2>5
<1>12. ASSUME StoreDone(c) PROVE Kept
  <2>1. TypeOK'
    BY <1>1, <1>12 DEF StoreDone, TypeOK, Typed, ConsumerInv, prodVars, Drop, Return
  <2>2. ConsumerMove(c)
    BY <1>1, <1>3, <1>12 DEF StoreDone, ConsumerMove, ConsumerInv, Fetching, Fetched, TypeOK,
       Typed, prodVars, Drop, Return
  <2>3. ConsumerInv(c)'
    BY <1>1, <1>3, <1>4, <1>12 DEF StoreDone, ProducerInv, ConsumerInv, Fetching, Fetched,
       TypeOK, Typed, prodVars, Drop, Return
  <2>4. OnceInv(c)'
    BY <1>1, <1>3, <1>4, <1>12 DEF StoreDone, ConsumerInv, OnceInv, Fetching, Fetched, TypeOK,
       Typed, prodVars, Drop, Return
  <2>5. WholeInv(c)'
    <3> SUFFICES ASSUME Reliable, ~LeavesPart
                 PROVE  /\ rc'[c] = "OK" => len[Loc(c)] = FileLen /\ len[ProdNode] = FileLen
                        /\ cpc'[c] = "done" /\ rc'[c] = "OK" => seen'[c] = FileLen
                        /\ UseFsLocks /\ Away(c) /\ len[Loc(c)] \notin {0, FileLen} =>
                              \E d \in Consumers : cpc'[d] = "store" /\ Loc(d) = Loc(c)
      BY <1>1, <1>3, <1>12 DEF StoreDone, WholeInv
    <3>1. /\ cpc'[c] = "read" /\ kvs /\ got[c] > 0
          /\ got[c] <= len[Loc(c)]
      BY <1>1, <1>12 DEF StoreDone, ConsumerInv, TypeOK, Return
    <3>2. len[Loc(c)] = FileLen
      BY <1>p, <1>1, <3>1 DEF Typed
    <3> QED BY <1>p, <3>1, <3>2
  <2> QED BY <2>1, <2>2, <2>3, <2>4, <2>5
<1>13. ASSUME Read(c) PROVE Kept
  <2>1. TypeOK'
    BY <1>1, <1>13 DEF Read, TypeOK, Typed, ConsumerInv, prodVars, Drop
  <2>2. ConsumerMove(c)
    BY <1>1, <1>3, <1>13 DEF Read, ConsumerMove, ConsumerInv, Fetching, Fetched, TypeOK, Typed,
       prodVars, Drop
  <2>3. ConsumerInv(c)'
    BY <1>1, <1>3, <1>4, <1>13 DEF Read, ProducerInv, ConsumerInv, Fetching, Fetched, TypeOK,
       Typed, prodVars, Drop
  <2>4. OnceInv(c)'
    BY <1>1, <1>3, <1>4, <1>13 DEF Read, ConsumerInv, OnceInv, Fetching, Fetched, TypeOK,
       Typed, prodVars, Drop
  <2>5. WholeInv(c)'
    BY <1>1, <1>3, <1>4, <1>5, <1>13 DEF Read, ProducerInv, ConsumerInv, OnceInv, WholeInv,
       GuardInv, Fetching, TypeOK, Typed, prodVars, Drop
  <2> QED BY <2>1, <2>2, <2>3, <2>4, <2>5
<1>14. ASSUME ConsumeLockFails(c) PROVE Kept
  <2>1. TypeOK'
    BY <1>1, <1>14 DEF ConsumeLockFails, TypeOK, Typed, ConsumerInv, prodVars, Return
  <2>2. ConsumerMove(c)
    BY <1>1, <1>3, <1>14 DEF ConsumeLockFails, ConsumerMove, ConsumerInv, Fetching, Fetched,
       TypeOK, Typed, prodVars, Return
  <2>3. ConsumerInv(c)'
    BY <1>1, <1>3, <1>4, <1>14 DEF ConsumeLockFails, ProducerInv, ConsumerInv, Fetching,
       Fetched, TypeOK, Typed, prodVars, Return
  <2>4. OnceInv(c)'
    BY <1>1, <1>3, <1>4, <1>14 DEF ConsumeLockFails, ConsumerInv, OnceInv, Fetching, Fetched,
       TypeOK, Typed, prodVars, Return
  <2>5. WholeInv(c)'
    BY <1>1, <1>3, <1>4, <1>5, <1>14 DEF ConsumeLockFails, ProducerInv, ConsumerInv, OnceInv,
       WholeInv, GuardInv, Fetching, TypeOK, Typed, prodVars, Return
  <2> QED BY <2>1, <2>2, <2>3, <2>4, <2>5
<1>15. ASSUME OpenCopyFails(c) PROVE Kept
  <2>1. TypeOK'
    BY <1>1, <1>15 DEF OpenCopyFails, TypeOK, Typed, ConsumerInv, prodVars, Return
  <2>2. ConsumerMove(c)
    BY <1>1, <1>3, <1>15 DEF OpenCopyFails, ConsumerMove, ConsumerInv, Fetching, Fetched,
       TypeOK, Typed, prodVars, Return
  <2>3. ConsumerInv(c)'
    BY <1>1, <1>3, <1>4, <1>15 DEF OpenCopyFails, ProducerInv, ConsumerInv, Fetching, Fetched,
       TypeOK, Typed, prodVars, Return
  <2>4. OnceInv(c)'
    BY <1>1, <1>3, <1>4, <1>15 DEF OpenCopyFails, ConsumerInv, OnceInv, Fetching, Fetched,
       TypeOK, Typed, prodVars, Return
  <2>5. WholeInv(c)'
    BY <1>1, <1>3, <1>4, <1>5, <1>15 DEF OpenCopyFails, ProducerInv, ConsumerInv, OnceInv,
       WholeInv, GuardInv, Fetching, TypeOK, Typed, prodVars, Return
  <2> QED BY <2>1, <2>2, <2>3, <2>4, <2>5
<1>16. ASSUME ConsumeFails(c) PROVE Kept
  <2>1. TypeOK'
    BY <1>1, <1>16 DEF ConsumeFails, TypeOK, Typed, ConsumerInv, prodVars, Drop, Return
  <2>2. ConsumerMove(c)
    BY <1>1, <1>3, <1>16 DEF ConsumeFails, ConsumerMove, ConsumerInv, Fetching, Fetched,
       TypeOK, Typed, prodVars, Drop, Return
  <2>3. ConsumerInv(c)'
    BY <1>1, <1>3, <1>4, <1>16 DEF ConsumeFails, ProducerInv, ConsumerInv, Fetching, Fetched,
       TypeOK, Typed, prodVars, Drop, Return
  <2>4. OnceInv(c)'
    BY <1>1, <1>3, <1>4, <1>16 DEF ConsumeFails, ConsumerInv, OnceInv, Fetching, Fetched,
       TypeOK, Typed, prodVars, Drop, Return
  <2>5. WholeInv(c)'
    <3> SUFFICES ASSUME Reliable, ~LeavesPart
                 PROVE  /\ rc'[c] = "OK" => len[Loc(c)] = FileLen /\ len[ProdNode] = FileLen
                        /\ cpc'[c] = "done" /\ rc'[c] = "OK" => seen'[c] = FileLen
                        /\ UseFsLocks /\ Away(c) /\ len[Loc(c)] \notin {0, FileLen} =>
                              \E d \in Consumers : cpc'[d] = "store" /\ Loc(d) = Loc(c)
      BY <1>1, <1>3, <1>16 DEF ConsumeFails, WholeInv
    <3>1. cpc'[c] = "read" /\ cpc[c] \in {"kvs", "get"} /\ rc'[c] # "OK" /\ pos[c] = 0
      BY <1>p, <1>1, <1>16 DEF ConsumeFails, ConsumerInv, TypeOK, Typed, Return
    <3>2. UseFsLocks /\ Away(c) => len[Loc(c)] = 0
      BY <1>1, <3>1 DEF OnceInv, Fetching
    <3> QED BY <3>1, <3>2
  <2> QED BY <2>1, <2>2, <2>3, <2>4, <2>5
<1>17. ASSUME KillConsumer(c) PROVE Kept
  <2>1. TypeOK'
    BY <1>1, <1>17 DEF KillConsumer, TypeOK, Typed, ConsumerInv, prodVars, Drop
  <2>2. ConsumerMove(c)
    BY <1>1, <1>3, <1>17 DEF KillConsumer, ConsumerMove, ConsumerInv, Fetching, Fetched,
       TypeOK, Typed, prodVars, Drop
  <2>3. ConsumerInv(c)'
    BY <1>1, <1>3, <1>4, <1>17 DEF KillConsumer, ProducerInv, ConsumerInv, Fetching, Fetched,
       TypeOK, Typed, prodVars, Drop
  <2>4. OnceInv(c)'
    BY <1>1, <1>3, <1>4, <1>17 DEF KillConsumer, ConsumerInv, OnceInv, Fetching, Fetched,
       TypeOK, Typed, prodVars, Drop
  <2>5. WholeInv(c)'
    <3> SUFFICES ASSUME Reliable, ~LeavesPart
                 PROVE  /\ rc'[c] = "OK" => len[Loc(c)] = FileLen /\ len[ProdNode] = FileLen
                        /\ cpc'[c] = "done" /\ rc'[c] = "OK" => seen'[c] = FileLen
                        /\ UseFsLocks /\ Away(c) /\ len[Loc(c)] \notin {0, FileLen} =>
                              \E d \in Consumers : cpc'[d] = "store" /\ Loc(d) = Loc(c)
      BY <1>1, <1>3, <1>17 DEF KillConsumer, WholeInv
    <3>1. cpc'[c] = "dead" /\ rc'[c] # "OK" /\ ~UseFsLocks
      BY <1>1, <1>17 DEF KillConsumer, ConsumerInv, TypeOK, Reliable
    <3> QED BY <3>1
  <2> QED BY <2>1, <2>2, <2>3, <2>4, <2>5
<1>18. Kept
  BY <1>6, <1>7, <1>8, <1>9, <1>10, <1>11, <1>12, <1>13, <1>14, <1>15, <1>16, <1>17
     DEF Consume, ConsumerFault
<1> QED BY <1>18, ConsumerKeeps

-----------------------------------------------------------------------------
\* The file is empty and nobody has opened it.
LEMMA SyncInit == Init => SyncInv
<1> SUFFICES ASSUME Init PROVE SyncInv
  OBVIOUS
<1>1. TypeOK
  <2>1. 0 \in 0..FileLen
    BY ActorsAssumption
  <2> QED BY <2>1, ActorsAssumption DEF Init, TypeOK
<1>2. ProducerInv /\ GuardInv
  BY ActorsAssumption DEF Init, ProducerInv, GuardInv
<1>3. ASSUME NEW c \in Consumers
      PROVE  ConsumerInv(c) /\ OnceInv(c) /\ WholeInv(c)
  BY <1>1, Places DEF Init, ConsumerInv, OnceInv, WholeInv, Fetching, Fetched
<1> QED BY <1>1, <1>2, <1>3 DEF SyncInv

\* Every step keeps the invariant.
LEMMA SyncStep == SyncInv /\ [Next]_vars => SyncInv'
<1> SUFFICES ASSUME SyncInv, [Next]_vars PROVE SyncInv'
  OBVIOUS
<1>1. CASE Produce \/ ProducerFault
  BY <1>1, ProducerSteps
<1>2. CASE \E c \in Consumers : ConsumeOpen(c) \/ Consume(c) \/ ConsumerFault(c)
  BY <1>2, ConsumerSteps
<1>3. CASE UNCHANGED vars
  <2>1. conf' = conf
    BY <1>3 DEF vars
  <2>2. /\ TypeOK' /\ ProducerInv' /\ GuardInv'
    BY <1>3, <2>1, SameDeployment DEF vars, SyncInv, TypeOK, ProducerInv, GuardInv
  <2>3. ProducerMove
    BY <1>3, TypedFacts DEF vars, ProducerMove, consVars, SyncInv, Typed
  <2> QED BY <2>2, <2>3, ProducerKeeps DEF SyncInv
<1> QED BY <1>1, <1>2, <1>3 DEF Next

\* It holds in every deployment.
LEMMA SyncInvariant == Spec => []SyncInv
<1> QED BY SyncInit, SyncStep, PTL DEF Spec

\* In every deployment the file is announced only when the module would serve all
\* of it, and of the consumers of a node one transfers it.
THEOREM HandoffIsSound == Spec => []HandoffSound
<1>1. SyncInv => HandoffSound
  <2> SUFFICES ASSUME SyncInv PROVE HandoffSound
    OBVIOUS
  <2>1. PublishedIsWhole
    BY DEF SyncInv, ProducerInv, PublishedIsWhole
  <2>2. FetchedOncePerNode
    <3> SUFFICES ASSUME UseFsLocks, NEW c \in Consumers, NEW d \in Consumers, Loc(c) = Loc(d),
                        Fetched(c), Fetched(d)
                 PROVE  c = d
      BY DEF FetchedOncePerNode, Fetched
    <3> QED BY DEF SyncInv, OnceInv
  <2> QED BY <2>1, <2>2 DEF SyncInv, HandoffSound
<1> QED BY <1>1, SyncInvariant, PTL

\* Where a size can be trusted, a dyad_consume() that succeeds is followed by a
\* read of the whole file.
THEOREM ReadersSeeWholeFile == Spec => [](Reliable => ReadsWholeFile)
<1>1. SyncInv => (Reliable => ReadsWholeFile)
  BY DEF SyncInv, WholeInv, ReadsWholeFile
<1> QED BY <1>1, SyncInvariant, PTL

\* A step that leaves every consumer alone is a step of the interface.
LEMMA ProducerHandsOff ==
    ASSUME SyncInv, Produce \/ ProducerFault
    PROVE  [Handoff!Next]_<<Ready, Outcome>>
<1>1. ProducerMove /\ Typed /\ Typed'
  BY ProducerSteps, TypedFacts DEF SyncInv
<1>2. Outcome' = Outcome
  BY <1>1, SameDeployment DEF ProducerMove, consVars, Outcome
<1>3. Ready => Ready'
  BY <1>1, SameDeployment DEF ProducerMove, consVars, Ready, Typed
<1>4. CASE Ready \/ ~Ready'
  BY <1>2, <1>3, <1>4 DEF Ready
<1>5. CASE ~Ready /\ Ready'
  BY <1>2, <1>5 DEF Handoff!Next, Handoff!MakeReady, Ready
<1> QED BY <1>4, <1>5

\* A consumer that ends reads the whole file, or has been told of a failure.
LEMMA ConsumerReads ==
    ASSUME SyncInv, Reliable, NEW c \in Consumers,
           ConsumeOpen(c) \/ Consume(c) \/ ConsumerFault(c)
    PROVE  [Handoff!Next]_<<Ready, Outcome>>
<1>1. ConsumerMove(c) /\ SyncInv' /\ conf' = conf /\ TypeOK
  BY ConsumerSteps DEF ConsumerMove, prodVars, SyncInv
<1>2. (LeavesPart' <=> LeavesPart) /\ (Reliable' <=> Reliable)
  BY <1>1, SameDeployment
<1>3. Ready' <=> Ready
  <2>1. len'[ProdNode] = len[ProdNode]
    BY <1>1, Places, ActorsAssumption DEF SyncInv, ConsumerInv, ConsumerMove
  <2> QED BY <1>2, <2>1 DEF Ready
<1>4. \A d \in Consumers \ {c} : Outcome'[d] = Outcome[d]
  BY <1>1, <1>2 DEF ConsumerMove, Outcome
<1>5. cpc[c] # "done" /\ (cpc'[c] = "done" => cpc[c] = "read" /\ rc'[c] = rc[c])
  BY <1>1 DEF TypeOK, Return, Consume, ConsumerFault, ConsumeOpen, ConsumeLock, CheckSize,
     Lookup, GetData, StoreRecord, StoreDone, Read, ConsumeLockFails, OpenCopyFails,
     ConsumeFails, KillConsumer
<1>6. CASE LeavesPart \/ cpc'[c] # "done"
  <2>1. Outcome'[c] = Outcome[c]
    BY <1>2, <1>5, <1>6 DEF Outcome
  <2>2. Outcome' = Outcome
    BY <1>4, <2>1 DEF Outcome
  <2> QED BY <1>3, <2>2 DEF Ready
<1>7. CASE ~LeavesPart /\ cpc'[c] = "done"
  <2>1. Outcome[c] = "waiting" /\ rc[c] \in {"OK", "error"} /\ rc'[c] = rc[c]
    BY <1>1, <1>5, <1>7 DEF Outcome, SyncInv, ConsumerInv, TypeOK
  <2>2. CASE rc[c] = "error"
    <3>1. Outcome'[c] = "failed"
      BY <1>2, <1>7, <2>1, <2>2 DEF Outcome
    <3>2. Outcome' = [Outcome EXCEPT ![c] = "failed"]
      BY <1>4, <3>1 DEF Outcome
    <3> QED BY <1>3, <2>1, <3>2 DEF Handoff!Next, Handoff!Fail, Ready
  <2>3. CASE rc[c] = "OK"
    <3>1. Ready /\ seen'[c] = FileLen
      BY <1>1, <1>2, <1>7, <2>1, <2>3 DEF SyncInv, WholeInv, Ready
    <3>2. Outcome'[c] = "whole"
      BY <1>2, <1>7, <2>1, <2>3, <3>1 DEF Outcome
    <3>3. Outcome' = [Outcome EXCEPT ![c] = "whole"]
      BY <1>4, <3>2 DEF Outcome
    <3> QED BY <1>3, <2>1, <3>1, <3>3 DEF Handoff!Next, Handoff!ReadWhole, Ready
  <2> QED BY <2>1, <2>2, <2>3
<1> QED BY <1>6, <1>7

\* And that is what the interface promises: no more than one way to come back, and
\* with success only once the file is there.
THEOREM SyncImplementsHandoff == Spec /\ Reliable => ImplementsHandoff
<1>1. Init => Handoff!Init
  BY ActorsAssumption DEF Init, Handoff!Init, Ready, Outcome
<1>2. SyncInv /\ Reliable /\ [Next]_vars => Reliable'
  <2> SUFFICES ASSUME SyncInv, Reliable, [Next]_vars PROVE Reliable'
    OBVIOUS
  <2>1. conf' = conf
    BY ProducerSteps, ConsumerSteps DEF Next, vars, ProducerMove, ConsumerMove, consVars,
       prodVars
  <2> QED BY <2>1, SameDeployment
<1>3. SyncInv /\ Reliable /\ [Next]_vars => [Handoff!Next]_<<Ready, Outcome>>
  <2> SUFFICES ASSUME SyncInv, Reliable, [Next]_vars
               PROVE  [Handoff!Next]_<<Ready, Outcome>>
    OBVIOUS
  <2>1. CASE Next
    BY <2>1, ProducerHandsOff, ConsumerReads DEF Next
  <2>2. CASE UNCHANGED vars
    <3>1. Outcome' = Outcome /\ Ready' = Ready
      BY <2>2 DEF vars, Outcome, Ready, LeavesPart, Faults
    <3> QED BY <3>1
  <2> QED BY <2>1, <2>2
<1> QED BY <1>1, <1>2, <1>3, SyncInvariant, PTL DEF Spec, ImplementsHandoff, Handoff!Spec
=============================================================================
