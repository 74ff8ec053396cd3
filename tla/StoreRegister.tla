--------------------------- MODULE StoreRegister ---------------------------
(***************************************************************************)
(* What loadStore and writeStore of src/src/store/store-io.mjs promise the *)
(* transactions built on them: store.json is a register, and each write    *)
(* compares it with what its caller has read and replaces it in one step,  *)
(* or leaves it alone.  Once the lock of somebody who was still in it has  *)
(* been removed, the comparison is void.                                   *)
(***************************************************************************)

CONSTANTS
    Contenders,     \* writes of the store, all of different content
    Absent, First   \* content: there is no store yet, the store found there

VARIABLES
    value,      \* of the register, named by its writer
    seen,       \* the value a write is based on
    stage,      \* of a write: new, read, over
    void        \* the comparison cannot be relied on any more

registerVars == <<value, seen, stage, void>>

RegisterInit ==
    /\ value \in {Absent, First}
    /\ seen = [p \in Contenders |-> Absent]
    /\ stage = [p \in Contenders |-> "new"]
    /\ void = FALSE

Read(p) ==
    /\ stage[p] = "new"
    /\ seen' = [seen EXCEPT ![p] = value]
    /\ stage' = [stage EXCEPT ![p] = "read"]
    /\ UNCHANGED <<value, void>>

Write(p) ==
    /\ stage[p] = "read"
    /\ value = seen[p] \/ void
    /\ value' = p
    /\ stage' = [stage EXCEPT ![p] = "over"]
    /\ UNCHANGED <<seen, void>>

\* Could not read, was refused, timed out, failed or died before its write.
Leave(p) ==
    /\ stage[p] \in {"new", "read"}
    /\ stage' = [stage EXCEPT ![p] = "over"]
    /\ UNCHANGED <<value, seen, void>>

Voided == void' = TRUE /\ UNCHANGED <<value, seen, stage>>

RegisterNext == Voided \/ \E p \in Contenders : Read(p) \/ Write(p) \/ Leave(p)

RegisterSpec == RegisterInit /\ [][RegisterNext]_registerVars
=============================================================================
