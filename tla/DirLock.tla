------------------------------ MODULE DirLock ------------------------------
(***************************************************************************)
(* The directory lock that Anyswitch shares with the ZCode client:         *)
(* withDirectoryLock and removeAbandonedDirLock of                         *)
(* src/src/store/atomic-write.mjs.                                         *)
(*                                                                         *)
(* A contender is one call of withDirectoryLock, in a process of its own;  *)
(* its owner file name carries a fresh token, kept over its attempts.      *)
(* Every file system call is a step, and a process may die between any     *)
(* two.  The lock path is one inode or nothing.  Inodes may be used again. *)
(* Ages are not counted: a directory or an empty owner file may always     *)
(* have outlived the grace, but an empty file of a live contender only     *)
(* when contenders may stall between creating and filling it.              *)
(***************************************************************************)
EXTENDS FiniteSets

CONSTANTS
    Contenders,
    Inodes,
    MayStall,   \* a live contender may pause for ownerlessGraceMs (100 ms)
    None

ASSUME DirLockAssumption == MayStall \in BOOLEAN /\ None \notin Inodes

VARIABLES
    dir,        \* inode of the lock directory, or None
    owners,     \* contenders whose owner file is in it
    filled,     \* those of them whose file has its content
    pc,
    born,       \* createdLockStat
    seen,       \* observed owner files that are not removed yet
    cleared     \* observed owner files judged reclaimable

vars == <<dir, owners, filled, pc, born, seen, cleared>>

local == <<born, seen, cleared>>

Dead(p) == pc[p] = "dead"

Init ==
    /\ dir = None /\ owners = {} /\ filled = {}
    /\ pc = [p \in Contenders |-> "try"]
    /\ born = [p \in Contenders |-> None]
    /\ seen = [p \in Contenders |-> {}]
    /\ cleared = [p \in Contenders |-> {}]

-----------------------------------------------------------------------------
(* File system calls.                                                       *)

At(p, from) == pc[p] = from

Go(p, to) == pc' = [pc EXCEPT ![p] = to]

\* rmSync(owner file, { force: true })
Remove(q) == owners' = owners \ {q} /\ filled' = filled \ {q} /\ UNCHANGED dir

\* rmdirSync refuses a directory that is not empty.
Rmdir == dir' = (IF owners = {} THEN None ELSE dir) /\ UNCHANGED <<owners, filled>>

NoChange == UNCHANGED <<dir, owners, filled>>

-----------------------------------------------------------------------------
(* Acquiring: mkdir, stat, owner file, and the ownership check.             *)

Mkdir(p) ==
    /\ At(p, "try")
    /\ \/ dir = None /\ dir' \in Inodes /\ Go(p, "made")
       \/ dir # None /\ UNCHANGED dir /\ Go(p, "contend")
    /\ UNCHANGED <<owners, filled, local>>

StatCreated(p) ==
    /\ At(p, "made")
    /\ born' = [born EXCEPT ![p] = dir]
    /\ Go(p, IF dir = None THEN "backout" ELSE "stated")
    /\ NoChange /\ UNCHANGED <<seen, cleared>>

\* The "wx" write opens the file first.
CreateOwner(p) ==
    /\ At(p, "stated")
    /\ owners' = IF dir = None THEN owners ELSE owners \cup {p}
    /\ Go(p, IF dir = None THEN "backout" ELSE "created")
    /\ UNCHANGED <<dir, filled, local>>

FillOwner(p) ==
    /\ At(p, "created")
    /\ filled' = filled \cup ({p} \cap owners)
    /\ Go(p, "filled")
    /\ UNCHANGED <<dir, owners, local>>

StatAgain(p) ==
    /\ At(p, "filled")
    /\ Go(p, IF dir = born[p] THEN "checking" ELSE "backout")
    /\ NoChange /\ UNCHANGED local

\* Variant: the own file is there, whoever else's is.
MineAmongOwners(p) == p \in owners

OnlyMine(p) == owners = {p}

ListOwners(p) ==
    /\ At(p, "checking")
    /\ Go(p, IF OnlyMine(p) THEN "hold" ELSE "backout")
    /\ NoChange /\ UNCHANGED local

\* A created lock is backed out of: rm the own file, rmdir.  The release does
\* the same when the function has returned or thrown.
RemoveOwn(p) ==
    /\ \/ At(p, "backout") /\ Go(p, "rmdir")
       \/ At(p, "hold") /\ Go(p, "leave")
    /\ Remove(p)
    /\ UNCHANGED local

\* Variant: the release leaves the directory to the next contender.
RmdirAfterBackout(p) ==
    /\ \/ At(p, "rmdir") /\ Rmdir /\ Go(p, "contend")
       \/ At(p, "leave") /\ NoChange /\ Go(p, "done")
    /\ UNCHANGED local

RmdirOwn(p) ==
    /\ \/ At(p, "rmdir") /\ Go(p, "contend")
       \/ At(p, "leave") /\ Go(p, "done")
    /\ Rmdir
    /\ UNCHANGED local

\* waitMs elapsed: LockTimeoutError.
GiveUp(p) ==
    /\ At(p, "contend")
    /\ Go(p, "done")
    /\ NoChange /\ UNCHANGED local

-----------------------------------------------------------------------------
(* Reclaiming: removeAbandonedDirLock.  Whatever it finds, the contender    *)
(* tries again, at once or after a pause.                                   *)

\* One owner file is judged by its owner, none or several by the age first.
Observe(p) ==
    /\ At(p, "contend")
    /\ seen' = [seen EXCEPT ![p] = owners]
    /\ cleared' = [cleared EXCEPT ![p] = {}]
    /\ \/ dir # None /\ Go(p, "judge")
       \/ (dir = None \/ Cardinality(owners) # 1) /\ Go(p, "try")
    /\ NoChange /\ UNCHANGED born

\* dirLockOwnerReclaimable, whose verdict on an empty file depends on its age.
MayBeReclaimable(q) == Dead(q) \/ (q \notin filled /\ MayStall)

MustBeReclaimable(q) == Dead(q) /\ q \in filled

\* The owner file read next is reclaimable.
Clear(p) ==
    /\ At(p, "judge")
    /\ \E q \in (seen[p] \ cleared[p]) \cap owners :
          /\ MayBeReclaimable(q)
          /\ cleared' = [cleared EXCEPT ![p] = @ \cup {q}]
    /\ NoChange /\ UNCHANGED <<pc, born, seen>>

\* It is still owned, or it is gone (ENOENT).
Refuse(p) ==
    /\ At(p, "judge")
    /\ \E q \in seen[p] \ cleared[p] : q \notin owners \/ ~MustBeReclaimable(q)
    /\ Go(p, "try")
    /\ NoChange /\ UNCHANGED local

StartRemoving(p) ==
    /\ At(p, "judge") /\ cleared[p] = seen[p]
    /\ Go(p, "remove")
    /\ NoChange /\ UNCHANGED local

RemoveSeen(p) ==
    /\ At(p, "remove")
    /\ \E q \in seen[p] : Remove(q) /\ seen' = [seen EXCEPT ![p] = @ \ {q}]
    /\ UNCHANGED <<pc, born, cleared>>

RmdirSeen(p) ==
    /\ At(p, "remove") /\ seen[p] = {}
    /\ Rmdir
    /\ Go(p, "try")
    /\ UNCHANGED local

-----------------------------------------------------------------------------

Crash(p) ==
    /\ ~Dead(p) /\ ~At(p, "done")
    /\ Go(p, "dead")
    /\ NoChange /\ UNCHANGED local

Acquire(p) ==
    \/ Mkdir(p) \/ StatCreated(p) \/ CreateOwner(p) \/ FillOwner(p)
    \/ StatAgain(p) \/ ListOwners(p) \/ RemoveOwn(p) \/ RmdirOwn(p) \/ GiveUp(p)

Reclaim(p) ==
    \/ Observe(p) \/ Clear(p) \/ Refuse(p)
    \/ StartRemoving(p) \/ RemoveSeen(p) \/ RmdirSeen(p)

Next == \E p \in Contenders : Acquire(p) \/ Reclaim(p) \/ Crash(p)

Spec == Init /\ [][Next]_vars

-----------------------------------------------------------------------------
(* Properties.                                                              *)

Places == {"try", "made", "stated", "created", "filled", "checking", "hold",
           "backout", "rmdir", "leave", "contend", "judge", "remove", "done", "dead"}

\* Types; an owner file lies in a lock directory.
TypeOK ==
    /\ dir \in Inodes \cup {None}
    /\ owners \subseteq Contenders
    /\ filled \subseteq owners
    /\ pc \in [Contenders -> Places]
    /\ born \in [Contenders -> Inodes \cup {None}]
    /\ seen \in [Contenders -> SUBSET Contenders]
    /\ cleared \in [Contenders -> SUBSET Contenders]
    /\ dir = None => owners = {}

Inside == {p \in Contenders : At(p, "hold")}

Lock == INSTANCE AdvisoryLock WITH inside <- Inside

\* "Anyswitch and a running ZCode client mutually exclude each other": however
\* directories are swapped, reclaimed and abandoned under the contenders,
\* nobody enters while somebody is inside.
ExcludesEachOther == Lock!LockSpec

\* "A live owner is never reclaimed no matter how long we have waited": the
\* owner file of a contender inside only goes away by its own release.
LiveOwnerKeepsItsFile ==
    \A p \in Inside : dir # None /\ p \in filled

\* "The lock is always removed": when every contender has ended and none has
\* died, nothing is left at the lock path.
NoLockLeftBehind == (\A p \in Contenders : At(p, "done")) => dir = None
=============================================================================
