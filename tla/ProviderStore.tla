--------------------------- MODULE ProviderStore ---------------------------
(***************************************************************************)
(* Adding, rotating and deleting one provider: the transactions over       *)
(* store.json, its credential file and the delete journal of               *)
(* src/src/store/store-service.mjs (importRecord of byok-import.mjs adds   *)
(* the same way).                                                          *)
(*                                                                         *)
(* Requests are those of the panel, which both the panel host and the      *)
(* relay serve.  A request is cut at its awaits and between its writes,    *)
(* where its process may die.  Writing the store is a compare-and-swap     *)
(* against the content the request loaded, and may fail for other reasons. *)
(* Of the store, the model keeps whether the provider is listed and        *)
(* whether a pool holds it, which other saves change.                      *)
(***************************************************************************)
EXTENDS Naturals

CONSTANTS
    Requests,   \* panel requests that can be in flight together
    None

ASSUME NoStoreAssumption == None \notin [listed : BOOLEAN, pooled : BOOLEAN]

VARIABLES
    store,      \* listed: providers[id] exists; pooled: a pool lists it
    credential, \* the file <id>.dpapi exists
    pending,    \* the delete journal has a pending entry
    pc,
    snap,       \* the store a request has loaded
    asked,      \* history: deletion was requested since the provider was added
    leftover,   \* history: an add died, or could not clean up, after writing its key
    mixed,      \* history: an add was not alone with the key, see AddsRunAlone
    crossed,    \* history: a key was written across a deletion, see KeysAreWrittenApart
    quiet       \* the last failure and the last request are behind us

vars == <<store, credential, pending, pc, snap, asked, leftover, mixed, crossed, quiet>>

history == <<asked, leftover>>

Stores == [listed : BOOLEAN, pooled : BOOLEAN]

Unlisted == [listed |-> FALSE, pooled |-> FALSE]
Listed   == [listed |-> TRUE, pooled |-> FALSE]

Init ==
    /\ store = Unlisted
    /\ credential = FALSE
    /\ pending = FALSE
    /\ pc = [r \in Requests |-> "idle"]
    /\ snap = [r \in Requests |-> None]
    /\ asked = FALSE /\ leftover = FALSE
    /\ mixed = FALSE /\ crossed = FALSE /\ quiet = FALSE

-----------------------------------------------------------------------------
(* Helpers.                                                                 *)

Step(r, from, to) == pc[r] = from /\ pc' = [pc EXCEPT ![r] = to]

Load(r) == snap' = [snap EXCEPT ![r] = store]

\* casWriteFile: the store still is what the request loaded.
Swaps(r) == store = snap[r]

-----------------------------------------------------------------------------
(* addProvider                                                              *)

StartAdd(r) ==
    /\ ~store.listed
    /\ Step(r, "idle", "discovering")
    /\ Load(r)
    /\ UNCHANGED <<store, credential, pending, history>>

\* Model discovery or encryption failed.
AddFails(r) ==
    /\ Step(r, "discovering", "idle")
    /\ UNCHANGED <<store, credential, pending, snap, history>>

AddKey(r) ==
    /\ Step(r, "discovering", "adding")
    /\ credential' = TRUE
    /\ UNCHANGED <<store, pending, snap, history>>

CommitAdd(r) ==
    /\ Step(r, "adding", "idle")
    /\ Swaps(r)
    /\ store' = Listed
    /\ asked' = FALSE /\ leftover' = FALSE
    /\ UNCHANGED <<credential, pending, snap>>

\* The write fails: its lock, the disk, the schema.
AddRejected(r) ==
    /\ Step(r, "adding", "undo")
    /\ UNCHANGED <<store, credential, pending, snap, history>>

\* "The freshly written credential is a true orphan and must be removed";
\* the removal is best effort.
UndoAdd(r) ==
    /\ Step(r, "undo", "idle")
    /\ \/ credential' = FALSE /\ UNCHANGED leftover
       \/ UNCHANGED credential /\ leftover' = TRUE
    /\ UNCHANGED <<store, pending, snap, asked>>

-----------------------------------------------------------------------------
(* rotateProvider with a new key.  What else it saves is not modelled.      *)

StartRotate(r) ==
    /\ store.listed
    /\ Step(r, "idle", "rotating")
    /\ Load(r)
    /\ UNCHANGED <<store, credential, pending, history>>

\* Variant: a refused rotation removes the key it has written.
RotateUndone(r) ==
    /\ Step(r, "rotating", "idle")
    /\ credential' \in BOOLEAN
    /\ UNCHANGED <<store, pending, snap, history>>

RotateKey(r) ==
    /\ Step(r, "rotating", "idle")
    /\ credential' \in {TRUE, credential}
    /\ UNCHANGED <<store, pending, snap, history>>

-----------------------------------------------------------------------------
(* deleteProvider: detachFromPool, then deleteProviderOnce.                 *)

StartDelete(r) ==
    /\ Step(r, "idle", IF store.pooled THEN "detaching" ELSE "deleting")
    /\ Load(r)
    /\ asked' = TRUE
    /\ UNCHANGED <<store, credential, pending, leftover>>

Detach(r) ==
    /\ Step(r, "detaching", "deleting")
    /\ Swaps(r)
    /\ store' = [store EXCEPT !.pooled = FALSE]
    /\ UNCHANGED <<credential, pending, snap, history>>

\* Variant: only a provider that is still listed is deleted.
Undeletable(listed) == ~listed

\* Neither managed nor pending: already deleted, or never known.
NothingToDelete(listed) == ~listed /\ ~pending

\* Variant: a pooled provider is deleted like any other.
LoadUngated(r) ==
    /\ Step(r, "deleting", IF NothingToDelete(store.listed) THEN "idle" ELSE "marking")
    /\ Load(r)
    /\ UNCHANGED <<store, credential, pending, history>>

\* The pool gate is passed before the journal is touched.
LoadForDelete(r) ==
    /\ Step(r, "deleting", IF store.pooled \/ NothingToDelete(store.listed)
                           THEN "idle" ELSE "marking")
    /\ Load(r)
    /\ UNCHANGED <<store, credential, pending, history>>

\* Variant: the store entry goes without a word in the journal.
MarkNothing(r) ==
    /\ Step(r, "marking", IF snap[r].listed THEN "unlisting" ELSE "verifying")
    /\ UNCHANGED <<store, credential, pending, snap, history>>

\* markPending
Mark(r) ==
    /\ Step(r, "marking", IF snap[r].listed THEN "unlisting" ELSE "verifying")
    /\ pending' = TRUE
    /\ UNCHANGED <<store, credential, snap, history>>

Unlist(r) ==
    /\ Step(r, "unlisting", "verifying")
    /\ Swaps(r)
    /\ store' = [store EXCEPT !.listed = FALSE]
    /\ UNCHANGED <<credential, pending, snap, history>>

\* A store that cannot be loaded again counts as one without the provider.
Verify(r) ==
    /\ \/ store.listed /\ Step(r, "verifying", "idle")
       \/ Step(r, "verifying", "removing")
    /\ UNCHANGED <<store, credential, pending, snap, history>>

RemoveKey(r) ==
    /\ Step(r, "removing", "clearing")
    /\ credential' = FALSE
    /\ leftover' = FALSE
    /\ UNCHANGED <<store, pending, snap, asked>>

\* clearPending
Clear(r) ==
    /\ Step(r, "clearing", "idle")
    /\ pending' = FALSE
    /\ UNCHANGED <<store, credential, snap, history>>

\* A swap that finds another store is refused.
Conflict(r) ==
    /\ ~Swaps(r)
    /\ \/ Step(r, "adding", "undo")
       \/ Step(r, "detaching", "idle")
       \/ Step(r, "unlisting", "idle")
    /\ UNCHANGED <<store, credential, pending, snap, history>>

\* A store write of a delete fails, or the key cannot be removed: the
\* request throws, and what the journal says stays.
DeleteFails(r) ==
    /\ \E at \in {"detaching", "unlisting", "removing"} : Step(r, at, "idle")
    /\ UNCHANGED <<store, credential, pending, snap, history>>

\* resumeDeletions, of every read of the panel's state.
Resume(r) ==
    /\ pending
    /\ Step(r, "idle", "deleting")
    /\ UNCHANGED <<store, credential, pending, snap, history>>

-----------------------------------------------------------------------------

\* Another save: the provider is taken into a pool, or the pool dissolved.
OtherSave ==
    /\ store.listed
    /\ store' = [store EXCEPT !.pooled = ~@]
    /\ UNCHANGED <<credential, pending, pc, snap, history>>

\* The process dies under a request.
Crash(r) ==
    /\ pc[r] # "idle"
    /\ pc' = [pc EXCEPT ![r] = "idle"]
    /\ leftover' = (leftover \/ pc[r] \in {"adding", "undo"})
    /\ UNCHANGED <<store, credential, pending, snap, asked>>

\* What a request does once it has begun.
Proceed(r) ==
    \/ AddKey(r) \/ CommitAdd(r) \/ UndoAdd(r)
    \/ RotateKey(r)
    \/ Detach(r) \/ LoadForDelete(r) \/ Mark(r) \/ Unlist(r) \/ Verify(r) \/ RemoveKey(r) \/ Clear(r)
    \/ Conflict(r)

Ask(r)  == StartAdd(r) \/ StartRotate(r) \/ StartDelete(r)
Fail(r) == AddFails(r) \/ AddRejected(r) \/ DeleteFails(r) \/ Crash(r)

\* While one request adds the provider, no other adds it too, or is about to
\* remove the key of a provider that is not listed.
AddsRunAlone ==
    \A r, s \in Requests :
        r # s /\ pc[r] \in {"discovering", "adding", "undo"} =>
            pc[s] \notin {"discovering", "adding", "undo", "marking", "verifying", "removing"}

\* While one request writes the key, no other takes the provider off the store
\* or the deletion off the journal.
KeysAreWrittenApart ==
    \A r, s \in Requests :
        r # s /\ pc[r] \in {"adding", "rotating"} => pc[s] \notin {"unlisting", "clearing"}

Track ==
    /\ mixed' = (mixed \/ ~AddsRunAlone')
    /\ crossed' = (crossed \/ ~KeysAreWrittenApart')

Carry(r)  == (Proceed(r) \/ Resume(r)) /\ UNCHANGED quiet /\ Track
Disturb   == /\ ~quiet
             /\ quiet' \in BOOLEAN
             /\ OtherSave \/ \E r \in Requests : Ask(r) \/ Fail(r)
             /\ Track

Next == Disturb \/ \E r \in Requests : Carry(r)

Spec == Init /\ [][Next]_vars

\* Requests run to their end, and the panel keeps reading its state.
LiveSpec ==
    /\ Spec
    /\ \A r \in Requests : /\ WF_vars(Proceed(r) /\ UNCHANGED quiet /\ Track)
                           /\ WF_vars(Resume(r) /\ UNCHANGED quiet /\ Track)

-----------------------------------------------------------------------------
(* Properties.                                                              *)

Places == {"idle", "discovering", "adding", "undo", "rotating", "detaching", "deleting",
           "marking", "unlisting", "verifying", "removing", "clearing"}

\* Types; a request that may still swap the store has loaded it.
TypeOK ==
    /\ store \in Stores
    /\ credential \in BOOLEAN /\ pending \in BOOLEAN
    /\ asked \in BOOLEAN /\ leftover \in BOOLEAN /\ mixed \in BOOLEAN
    /\ crossed \in BOOLEAN /\ quiet \in BOOLEAN
    /\ pc \in [Requests -> Places]
    /\ snap \in [Requests -> Stores \cup {None}]
    /\ \A r \in Requests :
          pc[r] \in {"discovering", "adding", "detaching", "marking", "unlisting"} => snap[r] # None

\* No pool is left holding a provider that is gone, whatever is deleted and
\* saved at the same time: the next load would refuse the whole store.
PoolsHoldNoGhost == store.pooled => store.listed

\* A provider that is listed has its credential: whatever crashes or is
\* refused, the key is written before and removed after its store entry.
\* (addProvider relies on it when it calls the key of a refused add "a true
\* orphan".)
ListedHasCredential == store.listed => credential

\* The same, however rotations, deletions and their recoveries overlap with
\* each other and with an add: only an add that was not alone with the key,
\* as AddsRunAlone says, can leave a listed provider without one.
ListedHasCredentialApart == ListedHasCredential \/ mixed

\* No key is forgotten, however requests overlap, fail or die: the credential of
\* a provider that is gone is still in the delete journal, unless an add left it
\* behind, or a key was written across a deletion, as KeysAreWrittenApart says.
KeyIsRemembered ==
    (credential /\ ~store.listed /\ \A r \in Requests : pc[r] = "idle")
        => pending \/ leftover \/ crossed

\* Nothing may delete "the provider out from under the user without any
\* request to delete it": an entry goes only if its deletion was requested
\* after it was added.
DeletedOnRequestOnly == [][store.listed /\ ~store'.listed => asked]_vars

\* An interrupted deletion completes: once nothing fails any more and nobody
\* asks for or saves anything else, the journal does not stay pending, and while
\* it is, the entry and the key are gone for good.  (Two recoveries may put the
\* deletion back in the journal in turns.)  Except for a provider that was taken
\* into a pool in the meantime, which is not deleted.
DeletionCompletes ==
    <>quiet => /\ <>[](pending => store.pooled \/ (~store.listed /\ ~credential))
               /\ []<>(pending => store.pooled)
=============================================================================
