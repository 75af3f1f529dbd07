------------------------------- MODULE MkDirs --------------------------------
(***************************************************************************)
(* mkdir_as_needed() and mkpath() of src/dyad/utils/utils.c.  dyad_init()  *)
(* makes the directory of the logs with them and the module the producer   *)
(* path, so that the processes of a job that start together all make the   *)
(* same directories at once.  Every stat(), mkdir() and umask() is a step. *)
(* The path has Depth components that may be missing; component 1 lies in  *)
(* a directory that exists.                                                *)
(***************************************************************************)
EXTENDS Integers

CONSTANTS
    Processes,   \* the callers, each with a umask of its own
    Depth,       \* components of the path
    MaxCalls,    \* bound: calls of one process
    MaxFaults    \* bound: mkdir() calls that fail for a reason of their own

ASSUME MkDirsAssumption ==
    Depth \in Nat \ {0} /\ MaxCalls \in Nat /\ MaxFaults \in Nat

Levels == 1..Depth

VARIABLES
    entry,     \* what the path has at each component
    exact,     \* components made with the permission bits that were asked for
    umask,     \* the umask of each process: its own or 0
    old_mask,  \* old_mask of its call
    pc,        \* where its call is
    level,     \* the component that mkpath() is at
    calls,     \* calls it has made
    res,       \* result of its last call: negative or not
    rechecked, \* history: one of its calls left after mkpath() had failed
    faults     \* mkdir() calls that failed by themselves

MkDirsVars == <<entry, exact, umask, old_mask, pc, level, calls, res, rechecked, faults>>
dirs == <<entry, exact>>

MkDirsTypeOK ==
    /\ entry \in [Levels -> {"none", "dir", "file"}]
    /\ \A i \in Levels : i > 1 /\ entry[i] # "none" => entry[i - 1] = "dir"
    /\ exact \subseteq {i \in Levels : entry[i] = "dir"}
    /\ umask \in [Processes -> {"own", "zero"}]
    /\ old_mask \in [Processes -> {"own", "zero"}]
    /\ pc \in [Processes -> {"idle", "umask", "stat", "mkdir", "recheck", "restore"}]
    /\ level \in [Processes -> Levels]
    /\ calls \in [Processes -> 0..MaxCalls]
    /\ res \in [Processes -> {"none", "usable", "negative"}]
    /\ rechecked \in SUBSET Processes
    /\ faults \in 0..MaxFaults

\* Some first components exist, the last of them perhaps as a file.
MkDirsInit ==
    /\ \E n \in 0..Depth, last \in {"dir", "file"} :
        entry = [i \in Levels |-> IF i < n THEN "dir" ELSE IF i = n THEN last ELSE "none"]
    /\ exact = {i \in Levels : entry[i] = "dir"}
    /\ umask = [p \in Processes |-> "own"]
    /\ old_mask = [p \in Processes |-> "own"]
    /\ pc = [p \in Processes |-> "idle"]
    /\ level = [p \in Processes |-> Depth]
    /\ calls = [p \in Processes |-> 0]
    /\ res = [p \in Processes |-> "none"]
    /\ rechecked = {}
    /\ faults = 0

Goto(p, to) == pc' = [pc EXCEPT ![p] = to]

Return(p, code) == Goto(p, "idle") /\ res' = [res EXCEPT ![p] = code]

\* What stat() of the whole path makes the call return, where it finds
\* something: a directory will do whatever its permission bits are.
Found == IF entry[Depth] = "dir" THEN "usable" ELSE "negative"

-----------------------------------------------------------------------------
\* mkdir_as_needed(), up to its first stat().
MkDirCall(p) ==
    /\ pc[p] = "idle"
    /\ calls[p] < MaxCalls
    /\ calls' = [calls EXCEPT ![p] = @ + 1]
    /\ IF entry[Depth] # "none"
       THEN Return(p, Found)
       ELSE Goto(p, "umask") /\ res' = [res EXCEPT ![p] = "none"]
    /\ UNCHANGED <<dirs, umask, old_mask, level, rechecked, faults>>

\* old_mask = umask (0), and into mkpath().
Umask(p) ==
    /\ pc[p] = "umask"
    /\ old_mask' = [old_mask EXCEPT ![p] = umask[p]]
    /\ umask' = [umask EXCEPT ![p] = "zero"]
    /\ level' = [level EXCEPT ![p] = Depth]
    /\ Goto(p, "stat")
    /\ UNCHANGED <<dirs, calls, res, rechecked, faults>>

\* stat() of mkpath(), on its way up the path until something exists.
Stat(p) ==
    /\ pc[p] = "stat"
    /\ LET i == level[p] IN
       \/ /\ entry[i] # "none" /\ i = Depth
          /\ Goto(p, "restore") /\ UNCHANGED level
       \/ /\ entry[i] # "none" /\ i < Depth
          /\ Goto(p, "mkdir") /\ level' = [level EXCEPT ![p] = i + 1]
       \/ /\ entry[i] = "none" /\ i > 1
          /\ level' = [level EXCEPT ![p] = i - 1] /\ UNCHANGED pc
       \/ /\ entry[i] = "none" /\ i = 1
          /\ Goto(p, "mkdir") /\ UNCHANGED level
    /\ UNCHANGED <<dirs, umask, old_mask, calls, res, rechecked, faults>>

\* The path of component i exists and component i does not.
CanMake(i) == entry[i] = "none" /\ (i > 1 => entry[i - 1] = "dir")

\* Variant: what mkdir() of a parent returns is looked at.
AfterMkdirChecks(p, to) ==
    IF to = "restore" /\ level[p] < Depth
    THEN level' = [level EXCEPT ![p] = @ + 1] /\ UNCHANGED pc
    ELSE Goto(p, to) /\ UNCHANGED level

\* mkpath() goes on with the next component whatever mkdir() of a parent
\* returned; only the result for the whole path counts.
AfterMkdir(p, to) ==
    IF level[p] < Depth
    THEN level' = [level EXCEPT ![p] = @ + 1] /\ UNCHANGED pc
    ELSE Goto(p, to) /\ UNCHANGED level

\* mkdir(): makes the directory, or fails because another process was faster or
\* because there is no directory to make it in.
Mkdir(p) ==
    /\ pc[p] = "mkdir"
    /\ LET i == level[p] IN
       IF CanMake(i)
       THEN /\ entry' = [entry EXCEPT ![i] = "dir"]
            /\ exact' = IF umask[p] = "zero" THEN exact \cup {i} ELSE exact
            /\ AfterMkdir(p, "restore")
       ELSE AfterMkdir(p, "recheck") /\ UNCHANGED dirs
    /\ UNCHANGED <<umask, old_mask, calls, res, rechecked, faults>>

\* mkdir() fails for another reason: no space, no permission.
MkdirFails(p) ==
    /\ pc[p] = "mkdir"
    /\ faults < MaxFaults
    /\ faults' = faults + 1
    /\ AfterMkdir(p, "recheck")
    /\ UNCHANGED <<dirs, umask, old_mask, calls, res, rechecked>>

\* mkpath() failed: stat() again, in case somebody else has made the directory.
\* All ways out of here leave the umask at 0.
Recheck(p) ==
    /\ pc[p] = "recheck"
    /\ Return(p, Found)
    /\ rechecked' = rechecked \cup {p}
    /\ UNCHANGED <<dirs, umask, old_mask, level, calls, faults>>

\* Variant: the umask is left to the caller.
RestoreForgets(p) ==
    /\ pc[p] = "restore"
    /\ Return(p, "usable")
    /\ UNCHANGED <<dirs, umask, old_mask, level, calls, rechecked, faults>>

\* umask (old_mask) and return 0, without another look at what is there.
Restore(p) ==
    /\ pc[p] = "restore"
    /\ umask' = [umask EXCEPT ![p] = old_mask[p]]
    /\ Return(p, "usable")
    /\ UNCHANGED <<dirs, old_mask, level, calls, rechecked, faults>>

\* Another program puts a file where the directory was to be.
FileAppears ==
    /\ faults < MaxFaults
    /\ faults' = faults + 1
    /\ CanMake(Depth)
    /\ entry' = [entry EXCEPT ![Depth] = "file"]
    /\ UNCHANGED <<exact, umask, old_mask, pc, level, calls, res, rechecked>>

Step(p) == Umask(p) \/ Stat(p) \/ Mkdir(p) \/ Recheck(p) \/ Restore(p)

MkDirsNext == FileAppears \/ \E p \in Processes : MkDirCall(p) \/ Step(p) \/ MkdirFails(p)

MkDirsSpec == MkDirsInit /\ [][MkDirsNext]_MkDirsVars
-----------------------------------------------------------------------------
\* As long as nothing fails by itself and no file is in the way, every process
\* gets its directory, however the processes overtake each other on the path: no
\* race makes mkdir_as_needed() negative, and a call that is not leaves the whole
\* path behind.
RacersGetDirectory ==
    faults = 0 /\ (\A i \in Levels : entry[i] # "file") =>
        \A p \in Processes :
            /\ res[p] # "negative"
            /\ res[p] = "usable" => \A i \in Levels : entry[i] = "dir"

\* utils.h: the umask is 0 "to ensure that the permission bits specified by m are
\* applied exactly as requested", also on the parents made on the way.
BitsAreExact == \A i \in Levels : entry[i] = "dir" => i \in exact

\* A process that is back from its calls has the umask it came with, unless one
\* of them found that mkpath() had failed: those returns leave the umask at 0.
UmaskRestored ==
    \A p \in Processes : pc[p] = "idle" /\ p \notin rechecked => umask[p] = "own"

\* The umask is 0 for as long as directories are made, which gives them the bits
\* asked for, and no longer, except where mkpath() has failed.
UmaskSound == MkDirsTypeOK /\ BitsAreExact /\ UmaskRestored
=============================================================================
