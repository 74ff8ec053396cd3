--------------------------- MODULE FileLock_proofs ---------------------------
(***************************************************************************)
(* Proofs about the store's compare-and-swap, for every set of contenders, *)
(* whether owners stall and removals fail or not: the only way two writers *)
(* can meet, and one write silently replace another, is that somebody      *)
(* removed the lock of a contender that was still in it.                   *)
(***************************************************************************)
EXTENDS FileLock, TLAPS

\* Removing the lock leaves no lock or the same one.
LEMMA RemoveTypes ==
    ASSUME TypeOK, NEW p \in Contenders, RemoveLock(p)
    PROVE  /\ owner' \in Contenders \cup {None}
           /\ filled' \in BOOLEAN
           /\ owner' = None => ~filled'
           /\ broken' \in BOOLEAN
<1>1. CASE UNCHANGED <<lockFile, broken>>
  BY <1>1 DEF TypeOK, lockFile
<1>2. CASE /\ owner' = None /\ filled' = FALSE
           /\ broken' = (broken \/ (owner \notin {None, p} /\ pc[owner] \in Critical))
  <2>1. broken' \in BOOLEAN
    BY <1>2, Zenon
  <2> QED
    BY <1>2, <2>1
<1> QED
  BY <1>1, <1>2 DEF RemoveLock

\* The types are kept by every step.
LEMMA TypeStep == ASSUME TypeOK, [Next]_vars PROVE TypeOK'
<1> USE FileLockAssumption DEF TypeOK, Places, At, Go
<1>1. ASSUME NEW p \in Contenders, Acquire(p) \/ GiveUp(p) \/ Work(p) \/ Crash(p) PROVE TypeOK'
  <2>1. CASE TryCreate(p)    BY <2>1 DEF TryCreate, lockFile
  <2>2. CASE FillLock(p)     BY <2>2 DEF FillLock, lockFile
  <2>3. CASE ReadLock(p)     BY <2>3 DEF ReadLock, lockFile
  <2>4. CASE StatLock(p)     BY <2>4 DEF StatLock, lockFile
  <2>5. CASE Reclaim(p)      BY <2>5, RemoveTypes DEF Reclaim
  <2>6. CASE Retry(p)        BY <2>6 DEF Retry, lockFile
  <2>7. CASE GiveUp(p)       BY <2>7 DEF GiveUp, lockFile
  <2>8. CASE Load(p)         BY <2>8 DEF Load, lockFile
  <2>9. CASE CreateStore(p)  BY <2>9 DEF CreateStore, lockFile
  <2>14. CASE WriteStore(p)   BY <2>14 DEF WriteStore, lockFile
  <2>10. CASE CheckHash(p)    BY <2>10 DEF CheckHash, lockFile
  <2>11. CASE Replace(p)      BY <2>11 DEF Replace, lockFile
  <2>12. CASE Release(p)      BY <2>12, RemoveTypes DEF Release
  <2>13. CASE Crash(p)        BY <2>13 DEF Crash, lockFile
  <2> QED
    BY <1>1, <2>1, <2>2, <2>3, <2>4, <2>5, <2>6, <2>7, <2>8, <2>9, <2>10, <2>11, <2>12, <2>13, <2>14 DEF Acquire, Work
<1>2. CASE UNCHANGED vars
  BY <1>2 DEF vars
<1> QED
  BY <1>1, <1>2 DEF Next

\* Type correctness: a lock file has content only while it is there.
THEOREM TypeCorrect == Spec => []TypeOK
<1>1. Init => TypeOK
  BY DEF Init, TypeOK, Places
<1>2. TypeOK /\ [Next]_vars => TypeOK'
  BY TypeStep
<1> QED
  BY <1>1, <1>2, PTL DEF Spec

-----------------------------------------------------------------------------
(* Unless a lock was broken, whoever is in the critical section owns the    *)
(* lock file, and nobody changes the store under a check that passed.  The  *)
(* store, once there, is never absent again, so the exclusive create of a   *)
(* first store cannot interfere.                                            *)

Locked == {"try", "fill", "read", "stat", "reclaim", "wait", "check", "rename", "release"}

OwnsUnlessBroken ==
    /\ \A p \in Contenders : pc[p] \in Locked => content \notin {Absent, Blank}
    /\ \A p \in Contenders : pc[p] \in {"create", "write"} => base[p] = Absent
    /\ \A p \in Contenders : pc[p] = "write" => content = Blank
    /\ \A p, q \in Contenders : pc[p] = "write" /\ pc[q] = "write" => p = q
    /\ ~broken => \A p \in Contenders :
                     /\ pc[p] \in Critical => owner = p
                     /\ pc[p] = "rename" => content = base[p]

LEMMA OwnsStep == ASSUME TypeOK, OwnsUnlessBroken, [Next]_vars PROVE OwnsUnlessBroken'
<1> USE FileLockAssumption DEF TypeOK, OwnsUnlessBroken, Locked, Critical, At, Go
<1>1. ASSUME NEW p \in Contenders, Acquire(p) \/ GiveUp(p) \/ Work(p) \/ Crash(p) PROVE OwnsUnlessBroken'
  <2>1. CASE TryCreate(p)    BY <2>1 DEF TryCreate, lockFile
  <2>2. CASE FillLock(p)     BY <2>2 DEF FillLock, lockFile
  <2>3. CASE ReadLock(p)     BY <2>3 DEF ReadLock, lockFile
  <2>4. CASE StatLock(p)     BY <2>4 DEF StatLock, lockFile
  <2>5. CASE Reclaim(p)      BY <2>5 DEF Reclaim, RemoveLock, lockFile
  <2>6. CASE Retry(p)        BY <2>6 DEF Retry, lockFile
  <2>7. CASE GiveUp(p)       BY <2>7 DEF GiveUp, lockFile
  <2>8. CASE Load(p)         BY <2>8 DEF Load, lockFile
  <2>9. CASE CreateStore(p)  BY <2>9 DEF CreateStore, lockFile
  <2>14. CASE WriteStore(p)   BY <2>14 DEF WriteStore, lockFile
  <2>10. CASE CheckHash(p)    BY <2>10 DEF CheckHash, lockFile
  <2>11. CASE Replace(p)      BY <2>11 DEF Replace, lockFile
  <2>12. CASE Release(p)      BY <2>12 DEF Release, RemoveLock, lockFile
  <2>13. CASE Crash(p)        BY <2>13 DEF Crash, lockFile
  <2> QED
    BY <1>1, <2>1, <2>2, <2>3, <2>4, <2>5, <2>6, <2>7, <2>8, <2>9, <2>10, <2>11, <2>12, <2>13, <2>14 DEF Acquire, Work
<1>2. CASE UNCHANGED vars
  BY <1>2 DEF vars
<1> QED
  BY <1>1, <1>2 DEF Next

LEMMA Owns == Spec => []OwnsUnlessBroken
<1>1. Init => OwnsUnlessBroken
  BY DEF Init, OwnsUnlessBroken, Locked, Critical
<1>2. TypeOK /\ OwnsUnlessBroken /\ [Next]_vars => OwnsUnlessBroken'
  BY OwnsStep
<1> QED
  BY <1>1, <1>2, TypeCorrect, PTL DEF Spec

\* The lock serializes writers as long as nobody's lock is removed under it.
THEOREM Serialized == Spec => []SerializedUnlessBroken
<1>1. OwnsUnlessBroken => SerializedUnlessBroken
  BY DEF OwnsUnlessBroken, SerializedUnlessBroken, Critical
<1> QED
  BY <1>1, Owns, PTL

\* A write replaces only what its caller has loaded, under the same condition.
THEOREM Swaps == Spec => SwapsUnlessBroken
<1> DEFINE Swap == \A p \in Contenders :
                      Value' = p /\ Value # p => Value = base[p] \/ broken
<1>1. ASSUME TypeOK, OwnsUnlessBroken, [Next]_vars PROVE [Swap]_vars
  <2> SUFFICES ASSUME NEW q \in Contenders, Value' = q, Value # q, ~broken
               PROVE  Value = base[q]
    OBVIOUS
  <2>1. PICK p \in Contenders : Acquire(p) \/ GiveUp(p) \/ Work(p) \/ Crash(p)
    BY <1>1 DEF Next, vars, Value
  <2>2. WriteStore(p) \/ Replace(p)
    BY <2>1, FileLockAssumption DEF Value, CreateStore, Acquire, Work, TryCreate, FillLock, ReadLock, StatLock, Reclaim, Retry, GiveUp,
                Load, CheckHash, Release, Crash
  <2>3. p = q
    BY <2>2, FileLockAssumption DEF WriteStore, Replace, Value
  <2>4. CASE Replace(p)
    BY <1>1, <2>3, <2>4 DEF Replace, At, OwnsUnlessBroken, Critical, Locked, Value
  <2>5. CASE WriteStore(p)
    BY <1>1, <2>3, <2>5 DEF WriteStore, At, OwnsUnlessBroken, Value
  <2> QED
    BY <2>2, <2>4, <2>5
<1> QED
  BY <1>1, TypeCorrect, Owns, PTL DEF Spec, SwapsUnlessBroken
-----------------------------------------------------------------------------
(* The register.  The write of p takes effect at its rename, or at the      *)
(* exclusive create; what happens to lock files is invisible to it.         *)

\* A step of p that goes on with its write, and leaves the store alone.
LEMMA GoesOn ==
    ASSUME TypeOK, NEW p \in Contenders, NEW to \in Places, Go(p, to), Value' = Value, UNCHANGED base,
           broken' \in {broken, TRUE}, broken' = broken \/ Stage[p] = Stage'[p],
           pc[p] # "load", to # "load", pc[p] \in {"release", "done", "dead"} => to \in {"release", "done", "dead"}
    PROVE  [Register!RegisterNext]_(Register!registerVars)
<1>1. Stage' = [Stage EXCEPT ![p] = IF to \in {"release", "done", "dead"} THEN "over" ELSE "read"]
  BY DEF Stage, Go, TypeOK
<1>2. Stage[p] = IF pc[p] \in {"release", "done", "dead"} THEN "over" ELSE "read"
  BY DEF Stage, TypeOK
<1>3. CASE Stage'[p] = Stage[p]
  <2>1. Stage' = Stage
    BY <1>1, <1>3 DEF Stage
  <2> QED
    BY <2>1 DEF Register!RegisterNext, Register!Voided, Register!registerVars
<1>4. CASE Stage'[p] # Stage[p]
  <2>1. Register!Leave(p)
    BY <1>1, <1>2, <1>4 DEF Register!Leave, Stage
  <2> QED
    BY <2>1 DEF Register!RegisterNext
<1> QED
  BY <1>3, <1>4

\* A step that writes the store compares it in the same step.
LEMMA WritesOnce ==
    ASSUME TypeOK, NEW p \in Contenders, NEW to \in {"release", "done"}, Go(p, to),
           pc[p] \in {"write", "rename"}, Value = base[p] \/ broken,
           Value' = p, UNCHANGED <<base, broken>>
    PROVE  Register!Write(p)
<1>1. Stage' = [Stage EXCEPT ![p] = "over"] /\ Stage[p] = "read"
  BY DEF Stage, Go, TypeOK
<1> QED
  BY <1>1 DEF Register!Write

\* Every step of the loads, lock files and writes is one of the register, or
\* none.
LEMMA RegisterStep ==
    ASSUME TypeOK, OwnsUnlessBroken, [Next]_vars
    PROVE  [Register!RegisterNext]_(Register!registerVars)
<1> USE DEF At, Places
<1>1. ASSUME NEW p \in Contenders, Acquire(p) \/ GiveUp(p) \/ Work(p) \/ Crash(p)
      PROVE  [Register!RegisterNext]_(Register!registerVars)
  <2>0. ASSUME NEW to \in Places, Go(p, to) PROVE pc'[p] = to
    BY <2>0 DEF Go, TypeOK
  <2> DEFINE Removed == broken' \in {broken, TRUE}
  <2>r. ASSUME RemoveLock(p) PROVE Removed
    <3>1. CASE UNCHANGED <<lockFile, broken>>
      BY <3>1
    <3>2. CASE broken' = (broken \/ (owner \notin {None, p} /\ pc[owner] \in Critical))
      BY <3>2, Zenon DEF TypeOK
    <3> QED
      BY <2>r, <3>1, <3>2 DEF RemoveLock
  <2>1. CASE TryCreate(p)
    BY <2>1, GoesOn DEF TryCreate, Value
  <2>2. CASE FillLock(p)     BY <2>2, GoesOn DEF FillLock, Value
  <2>3. CASE ReadLock(p)     BY <2>3, GoesOn DEF ReadLock, lockFile, Value
  <2>4. CASE StatLock(p)     BY <2>4, GoesOn DEF StatLock, lockFile, Value
  <2>5. CASE Reclaim(p)
    <3>1. Stage'[p] = Stage[p]
      BY <2>5 DEF Reclaim, Stage, Go, TypeOK
    <3> QED
      BY <2>5, <2>r, <3>1, GoesOn DEF Reclaim, Value
  <2>6. CASE Retry(p)        BY <2>6, GoesOn DEF Retry, Value
  <2>7. CASE GiveUp(p)       BY <2>7, GoesOn DEF GiveUp, Value
  <2>8. CASE Load(p)
    <3>1. CASE content # Blank
      <4>1. Stage' = [Stage EXCEPT ![p] = "read"] /\ Stage[p] = "new"
        BY <2>8, <3>1 DEF Load, Stage, Go, TypeOK
      <4>2. Register!Read(p)
        BY <2>8, <3>1, <4>1 DEF Load, Register!Read, Value
      <4> QED
        BY <4>2 DEF Register!RegisterNext
    <3>2. CASE content = Blank
      <4>1. Stage' = [Stage EXCEPT ![p] = "over"] /\ Stage[p] = "new"
        BY <2>8, <3>2 DEF Load, Stage, Go, TypeOK
      <4>2. Register!Leave(p)
        BY <2>8, <3>2, <4>1 DEF Load, Register!Leave, Value
      <4> QED
        BY <4>2 DEF Register!RegisterNext
    <3> QED
      BY <3>1, <3>2
  <2>9. CASE CreateStore(p)
    <3>1. CASE content = Absent
      BY <2>9, <3>1, GoesOn DEF CreateStore, Value
    <3>2. CASE content # Absent
      BY <2>9, <3>2, GoesOn DEF CreateStore, Value
    <3> QED
      BY <3>1, <3>2
  <2>14. CASE WriteStore(p)
    <3>1. CASE content' = p
      <4>1. Value = base[p] /\ Value' = p
        BY <2>14, <3>1, FileLockAssumption DEF WriteStore, OwnsUnlessBroken, Value
      <4> QED
        BY <2>14, <4>1, WritesOnce DEF WriteStore, Register!RegisterNext
    <3>2. CASE content' = content
      BY <2>14, <3>2, GoesOn DEF WriteStore, Value
    <3> QED
      BY <2>14, <3>1, <3>2 DEF WriteStore
  <2>10. CASE CheckHash(p)   BY <2>10, GoesOn DEF CheckHash, Value
  <2>11. CASE Replace(p)
    <3>1. CASE content' = p
      <4>1. (Value = base[p] \/ broken) /\ Value' = p
        BY <2>11, <3>1, FileLockAssumption
           DEF Replace, OwnsUnlessBroken, Critical, Locked, Value
      <4> QED
        BY <2>11, <4>1, WritesOnce DEF Replace, Register!RegisterNext
    <3>2. CASE content' = content
      BY <2>11, <3>2, GoesOn DEF Replace, Value
    <3> QED
      BY <2>11, <3>1, <3>2 DEF Replace
  <2>12. CASE Release(p)
    <3>1. Stage'[p] = Stage[p]
      BY <2>12 DEF Release, Stage, Go, TypeOK
    <3> QED
      BY <2>12, <2>r, <3>1, GoesOn DEF Release, Value
  <2>13. CASE Crash(p)       BY <2>13, GoesOn DEF Crash, Value
  <2> QED
    BY <1>1, <2>1, <2>2, <2>3, <2>4, <2>5, <2>6, <2>7, <2>8, <2>9, <2>10, <2>11, <2>12, <2>13, <2>14 DEF Acquire, Work
<1>2. CASE UNCHANGED vars
  BY <1>2 DEF vars, Stage, Value, Register!registerVars
<1> QED
  BY <1>1, <1>2 DEF Next

\* Loads and writes implement a compare-and-swap register that is void once a
\* lock was broken: whatever the number of writers, wherever one dies, and
\* whether owners stall and removals fail or not.
THEOREM ImplementsRegister == Spec => IsARegister
<1>1. Init => Register!RegisterInit
  BY FileLockAssumption DEF Init, Register!RegisterInit, Stage, Value
<1>2. TypeOK /\ OwnsUnlessBroken /\ [Next]_vars => [Register!RegisterNext]_(Register!registerVars)
  BY RegisterStep
<1> QED
  BY <1>1, <1>2, TypeCorrect, Owns, PTL DEF Spec, IsARegister, Register!RegisterSpec

-----------------------------------------------------------------------------
(* Two writes.  One that finds a lock it may remove has met that of the     *)
(* other, which has ended by then and does not come back.                   *)

Ended == {"done", "dead"}

TwoInv ==
    /\ ~broken
    /\ \A p \in Contenders : owner = p => pc[p] \in Critical \cup Ended
    /\ \A p, q \in Contenders :
          p # q => /\ pc[p] \in {"read", "stat"} => pc[q] \in Critical \cup Ended
                   /\ pc[p] = "reclaim" => pc[q] \in Ended

LEMMA TwoStep ==
    ASSUME ~MayStall, \A p, q, r \in Contenders : p = q \/ q = r \/ p = r,
           TypeOK, OwnsUnlessBroken, TwoInv, [Next]_vars
    PROVE  TwoInv'
<1> USE FileLockAssumption DEF TypeOK, TwoInv, Ended, Critical, At, Go
<1>1. ASSUME NEW p \in Contenders, Acquire(p) \/ GiveUp(p) \/ Work(p) \/ Crash(p) PROVE TwoInv'
  <2>r. ASSUME RemoveLock(p), pc[p] \in {"reclaim", "release"}
        PROVE  ~broken' /\ owner' \in {owner, None}
    BY <2>r DEF RemoveLock, lockFile, OwnsUnlessBroken
  <2>1. CASE TryCreate(p)
    <3>1. CASE owner = None
      BY <2>1, <3>1 DEF TryCreate
    <3>2. CASE owner # None
      BY <2>1, <3>2 DEF TryCreate
    <3> QED
      BY <3>1, <3>2
  <2>2. CASE FillLock(p)     BY <2>2 DEF FillLock
  <2>3. CASE ReadLock(p)     BY <2>3 DEF ReadLock, MayLookOld, lockFile
  <2>4. CASE StatLock(p)     BY <2>4 DEF StatLock, MayLookOld, lockFile, OwnsUnlessBroken
  <2>5. CASE Reclaim(p)      BY <2>5, <2>r DEF Reclaim
  <2>6. CASE Retry(p)        BY <2>6 DEF Retry, lockFile
  <2>7. CASE GiveUp(p)       BY <2>7 DEF GiveUp, lockFile
  <2>8. CASE Load(p)         BY <2>8 DEF Load, lockFile
  <2>9. CASE CreateStore(p)  BY <2>9 DEF CreateStore, lockFile
  <2>14. CASE WriteStore(p)   BY <2>14 DEF WriteStore, lockFile
  <2>10. CASE CheckHash(p)   BY <2>10 DEF CheckHash, lockFile
  <2>11. CASE Replace(p)     BY <2>11 DEF Replace, lockFile
  <2>12. CASE Release(p)     BY <2>12, <2>r DEF Release
  <2>13. CASE Crash(p)       BY <2>13 DEF Crash, lockFile
  <2> QED
    BY <1>1, <2>1, <2>2, <2>3, <2>4, <2>5, <2>6, <2>7, <2>8, <2>9, <2>10, <2>11, <2>12, <2>13, <2>14 DEF Acquire, Work
<1>2. CASE UNCHANGED vars
  BY <1>2 DEF vars
<1> QED
  BY <1>1, <1>2 DEF Next

\* Two writes alone, whose owners do not hold the lock for half a minute, never
\* break each other's lock, wherever one dies and whether removals fail or not;
\* so neither overwrites the other silently.  It takes a third, as the
\* configuration FileLockOverwrite shows.
THEOREM TwoWritesAreSafe ==
    ASSUME ~MayStall, \A p, q, r \in Contenders : p = q \/ q = r \/ p = r
    PROVE  Spec => NeverOverwritesSilently
<1> DEFINE Swap == \A p \in Contenders : Value' = p /\ Value # p => Value = base[p] \/ broken
           Kept == \A p \in Contenders : Value' = p /\ Value # p => Value = base[p]
<1>1. Init => TwoInv
  BY FileLockAssumption DEF Init, TwoInv, Critical, Ended
<1>2. TypeOK /\ OwnsUnlessBroken /\ TwoInv /\ [Next]_vars => TwoInv'
  BY TwoStep
<1>3. TwoInv /\ [Swap]_vars => [Kept]_vars
  BY DEF TwoInv
<1> QED
  BY <1>1, <1>2, <1>3, TypeCorrect, Owns, Swaps, PTL DEF Spec, SwapsUnlessBroken, NeverOverwritesSilently
=============================================================================
