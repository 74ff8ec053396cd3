------------------------------ MODULE FileLock ------------------------------
(***************************************************************************)
(* Compare-and-swap writes of store.json under its advisory file lock:     *)
(* loadStore and writeStore of src/src/store/store-io.mjs over             *)
(* casWriteFile, withFileLock and lockIsStale of atomic-write.mjs.         *)
(*                                                                         *)
(* A contender is one load and one write, in a process of its own: the     *)
(* helpers run synchronously, so the writes of one process do not overlap. *)
(* Contenders interleave at every file operation, and may die between two. *)
(* Time is abstracted: a lock may look older than LOCK_STALE_MS when its   *)
(* owner has ended, or when MayStall lets a live owner take that long.     *)
(***************************************************************************)
EXTENDS Naturals

CONSTANTS
    Contenders,     \* writes of the store, all of different content
    MayStall,       \* a live owner may hold the lock for 30 seconds
    RmMayFail,      \* removing the lock file may fail
    None,           \* no lock file
    Absent, First,  \* content: there is no store yet, the store found there
    Blank           \* content: a store that was created and not written yet

ASSUME FileLockAssumption ==
    /\ None \notin Contenders
    /\ Absent \notin Contenders /\ First \notin Contenders /\ Blank \notin Contenders
    /\ Absent # First /\ Absent # Blank /\ First # Blank
    /\ MayStall \in BOOLEAN /\ RmMayFail \in BOOLEAN

VARIABLES
    owner,      \* the contender that created <store>.lock, None when absent
    filled,     \* its content, the pid of the owner, is written
    content,    \* of store.json, named by its writer
    base,       \* the content a contender loaded
    pc,
    broken      \* history: the lock of somebody still in it was removed

vars == <<owner, filled, content, base, pc, broken>>

lockFile == <<owner, filled>>

Init ==
    /\ owner = None /\ filled = FALSE
    /\ content \in {Absent, First}
    /\ base = [p \in Contenders |-> Absent]
    /\ pc = [p \in Contenders |-> "load"]
    /\ broken = FALSE

-----------------------------------------------------------------------------

Critical == {"fill", "check", "rename", "release"}

At(p, from) == pc[p] = from
Go(p, to)   == pc' = [pc EXCEPT ![p] = to]

\* rm(lockPath) by p, which does not look whose lock it is.
RemoveLock(p) ==
    \/ /\ owner' = None /\ filled' = FALSE
       /\ broken' = (broken \/ (owner \notin {None, p} /\ pc[owner] \in Critical))
    \/ RmMayFail /\ UNCHANGED <<lockFile, broken>>

\* Whether the lock file may look older than LOCK_STALE_MS.
MayLookOld == MayStall \/ pc[owner] \in {"done", "dead"}

-----------------------------------------------------------------------------
(* Loading, and creating a store that was absent.                           *)

\* A store without content does not parse, and its caller gives up.
Load(p) ==
    /\ At(p, "load")
    /\ \/ /\ content # Blank
          /\ base' = [base EXCEPT ![p] = content]
          /\ Go(p, IF content = Absent THEN "create" ELSE "try")
       \/ content = Blank /\ Go(p, "done") /\ UNCHANGED base
    /\ UNCHANGED <<lockFile, content, broken>>

\* The "wx" write of expectedHash = null takes no lock.  It creates the file,
CreateStore(p) ==
    /\ At(p, "create")
    /\ IF content = Absent THEN content' = Blank /\ Go(p, "write")
                           ELSE UNCHANGED content /\ Go(p, "done")
    /\ UNCHANGED <<lockFile, base, broken>>

\* and then writes it, which may fail.
WriteStore(p) ==
    /\ At(p, "write")
    /\ content' \in {p, content}
    /\ Go(p, "done")
    /\ UNCHANGED <<lockFile, base, broken>>

-----------------------------------------------------------------------------
(* withFileLock: the loop that acquires the lock.                           *)

\* Variant: the create is not exclusive.
CreateOver(p) ==
    /\ At(p, "try")
    /\ owner' = p /\ filled' = FALSE
    /\ Go(p, "fill")
    /\ UNCHANGED <<content, base, broken>>

TryCreate(p) ==
    /\ At(p, "try")
    /\ IF owner = None THEN owner' = p /\ Go(p, "fill")
                       ELSE UNCHANGED owner /\ Go(p, "read")
    /\ UNCHANGED <<filled, content, base, broken>>

FillLock(p) ==
    /\ At(p, "fill")
    /\ filled' = IF owner = p THEN TRUE ELSE filled
    /\ Go(p, "check")
    /\ UNCHANGED <<owner, content, base, broken>>

\* lockIsStale: the owner's pid.  A lock that cannot be read or parsed is
\* judged by its age.
ReadLock(p) ==
    /\ At(p, "read")
    /\ \/ filled /\ At(owner, "dead") /\ Go(p, "reclaim")
       \/ filled /\ MayLookOld /\ Go(p, "reclaim")
       \/ filled /\ ~At(owner, "dead") /\ Go(p, "wait")
       \/ ~filled /\ Go(p, "stat")
    /\ UNCHANGED <<lockFile, content, base, broken>>

\* ... and one that has vanished is stale.
StatLock(p) ==
    /\ At(p, "stat")
    /\ \/ owner = None /\ Go(p, "reclaim")
       \/ owner # None /\ MayLookOld /\ Go(p, "reclaim")
       \/ owner # None /\ Go(p, "wait")
    /\ UNCHANGED <<lockFile, content, base, broken>>

\* Variant: the stale lock stays where it is.
ReclaimNothing(p) ==
    /\ At(p, "reclaim")
    /\ Go(p, "try")
    /\ UNCHANGED <<lockFile, content, base, broken>>

\* The loop goes on at once, without a look at the deadline.
Reclaim(p) ==
    /\ At(p, "reclaim")
    /\ RemoveLock(p)
    /\ Go(p, "try")
    /\ UNCHANGED <<content, base>>

Retry(p) ==
    /\ At(p, "wait")
    /\ Go(p, "try")
    /\ UNCHANGED <<lockFile, content, base, broken>>

\* LockTimeoutError
GiveUp(p) ==
    /\ At(p, "wait")
    /\ Go(p, "done")
    /\ UNCHANGED <<lockFile, content, base, broken>>

-----------------------------------------------------------------------------
(* Under the lock: compare, replace, release.                               *)

\* Variant: what was compared at the load is not compared again.
CheckNothing(p) ==
    /\ At(p, "check")
    /\ Go(p, "rename")
    /\ UNCHANGED <<lockFile, content, base, broken>>

\* PreconditionFailedError when the content is not the one loaded.
CheckHash(p) ==
    /\ At(p, "check")
    /\ Go(p, IF content = base[p] THEN "rename" ELSE "release")
    /\ UNCHANGED <<lockFile, content, base, broken>>

\* The rename of a temporary file, which may fail.
Replace(p) ==
    /\ At(p, "rename")
    /\ content' \in {p, content}
    /\ Go(p, "release")
    /\ UNCHANGED <<lockFile, base, broken>>

Release(p) ==
    /\ At(p, "release")
    /\ RemoveLock(p)
    /\ Go(p, "done")
    /\ UNCHANGED <<content, base>>

Crash(p) ==
    /\ pc[p] \notin {"load", "done", "dead"}
    /\ Go(p, "dead")
    /\ UNCHANGED <<lockFile, content, base, broken>>

-----------------------------------------------------------------------------

Acquire(p) == TryCreate(p) \/ FillLock(p) \/ ReadLock(p) \/ StatLock(p) \/ Reclaim(p) \/ Retry(p)

Work(p) == Load(p) \/ CreateStore(p) \/ WriteStore(p) \/ CheckHash(p) \/ Replace(p) \/ Release(p)

Next == \E p \in Contenders : Acquire(p) \/ GiveUp(p) \/ Work(p) \/ Crash(p)

Spec == Init /\ [][Next]_vars

\* A contender that lives goes on, and one that waits again and again has
\* once waited for LOCK_WAIT_MS.
LiveSpec ==
    /\ Spec
    /\ \A p \in Contenders : WF_vars(Acquire(p) \/ Work(p)) /\ SF_vars(GiveUp(p))

-----------------------------------------------------------------------------
(* The register this implements: a write takes effect at the rename, or     *)
(* when the created file is filled, whatever the lock files do before and   *)
(* after.  A file without content is no store.                              *)

Value == IF content = Blank THEN Absent ELSE content

Stage == [p \in Contenders |->
            CASE pc[p] = "load" -> "new"
              [] pc[p] \in {"release", "done", "dead"} -> "over"
              [] OTHER -> "read"]

Register == INSTANCE StoreRegister
              WITH value <- Value, seen <- base, stage <- Stage, void <- broken

-----------------------------------------------------------------------------
(* Properties.                                                              *)

Places == {"load", "create", "write", "try", "fill", "read", "stat", "reclaim", "wait",
           "check", "rename", "release", "done", "dead"}

\* Types; a lock file has content only while it is there, and whoever is at
\* the lock loaded a store.
TypeOK ==
    /\ owner \in Contenders \cup {None}
    /\ filled \in BOOLEAN
    /\ owner = None => ~filled
    /\ content \in Contenders \cup {Absent, First, Blank}
    /\ base \in [Contenders -> Contenders \cup {Absent, First}]
    /\ pc \in [Contenders -> Places]
    /\ broken \in BOOLEAN

\* "The advisory lock serializes writers": no two contenders run between
\* their check and their rename, as long as nobody removed the lock of a
\* contender that was still in it.
SerializedUnlessBroken ==
    \A p, q \in Contenders :
        {pc[p], pc[q]} \subseteq {"check", "rename", "release"} /\ p # q => broken

\* casWriteFile replaces only the content its caller has loaded, under the
\* same condition.
SwapsUnlessBroken ==
    [][\A p \in Contenders : Value' = p /\ Value # p => Value = base[p] \/ broken]_vars

\* "Concurrent writes fail with PreconditionFailed instead of overwriting
\* silently": whoever writes has loaded what it replaces.
NeverOverwritesSilently ==
    [][\A p \in Contenders : Value' = p /\ Value # p => Value = base[p]]_vars

\* "O_EXCL create is itself the atomic primitive: the file appears fully
\* written or not at all": a store without content is being written.
CreatedWhole == content = Blank => \E p \in Contenders : At(p, "write")

\* Load and write together are a compare-and-swap: a write replaces the store
\* once at most, in one step, and only while it still is what its caller has
\* loaded; one that times out, fails or dies earlier leaves it alone.  A load
\* that meets a file without content reads nothing, and nobody writes over it.
IsARegister == Register!RegisterSpec

\* "The lock file is always removed afterwards": when every contender has
\* ended and none died, no lock is left to hold up the next one.
NoLockLeftBehind ==
    (\A p \in Contenders : pc[p] = "done") => owner = None

\* "The loser retries until waitMs elapses, then throws": no call blocks its
\* process for ever.
EveryCallEnds == \A p \in Contenders : <>(pc[p] \in {"done", "dead"})
=============================================================================
