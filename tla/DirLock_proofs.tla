--------------------------- MODULE DirLock_proofs ---------------------------
(***************************************************************************)
(* Proofs about DirLock, for any contenders and any inodes.  What concerns *)
(* the owner of the lock is proved provided that a live contender does not *)
(* stall for the grace between creating and filling its owner file: an     *)
(* empty file that old is reclaimed.                                       *)
(***************************************************************************)
EXTENDS DirLock, TLAPS

-----------------------------------------------------------------------------
(* Types.                                                                   *)

LEMMA InitTyped == Init => TypeOK
  BY DEF Init, TypeOK, Places

LEMMA StepTyped == TypeOK /\ [Next]_vars => TypeOK'
  <1>. SUFFICES ASSUME TypeOK, [Next]_vars PROVE TypeOK'
    OBVIOUS
  <1>. USE DEF TypeOK
  <1>. DEFINE GoesOn(p) == \E to \in Places : Go(p, to)
  <1>1. \A p \in Contenders : GoesOn(p) => pc' \in [Contenders -> Places]
    BY DEF Go
  <1>2. ASSUME NEW p \in Contenders, Acquire(p) PROVE TypeOK'
    <2>1. CASE Mkdir(p)
      <3>1. GoesOn(p)
        BY <2>1 DEF Mkdir, Places
      <3>. QED BY <1>1, <2>1, <3>1 DEF Mkdir, local
    <2>2. CASE StatCreated(p)
      <3>1. GoesOn(p)
        BY <2>2 DEF StatCreated, Places
      <3>. QED BY <1>1, <2>2, <3>1 DEF StatCreated, NoChange
    <2>3. CASE CreateOwner(p)
      <3>1. GoesOn(p)
        BY <2>3 DEF CreateOwner, Places
      <3>. QED BY <1>1, <2>3, <3>1 DEF CreateOwner, local
    <2>4. CASE FillOwner(p)
      <3>1. GoesOn(p)
        BY <2>4 DEF FillOwner, Places
      <3>. QED BY <1>1, <2>4, <3>1 DEF FillOwner, local
    <2>5. CASE StatAgain(p) \/ ListOwners(p) \/ GiveUp(p)
      <3>1. GoesOn(p)
        BY <2>5 DEF StatAgain, ListOwners, GiveUp, Places
      <3>. QED BY <1>1, <2>5, <3>1 DEF StatAgain, ListOwners, GiveUp, NoChange, local
    <2>6. CASE RemoveOwn(p)
      <3>1. GoesOn(p)
        BY <2>6 DEF RemoveOwn, Places
      <3>. QED BY <1>1, <2>6, <3>1 DEF RemoveOwn, Remove, local
    <2>7. CASE RmdirOwn(p)
      <3>1. GoesOn(p)
        BY <2>7 DEF RmdirOwn, Places
      <3>. QED BY <1>1, <2>7, <3>1 DEF RmdirOwn, Rmdir, local
    <2>. QED BY <1>2, <2>1, <2>2, <2>3, <2>4, <2>5, <2>6, <2>7 DEF Acquire
  <1>3. ASSUME NEW p \in Contenders, Reclaim(p) PROVE TypeOK'
    <2>1. CASE Observe(p)
      <3>1. GoesOn(p)
        BY <2>1 DEF Observe, Places
      <3>. QED BY <1>1, <2>1, <3>1 DEF Observe, NoChange
    <2>2. CASE Clear(p)
      BY <2>2 DEF Clear, NoChange
    <2>3. CASE Refuse(p) \/ StartRemoving(p)
      <3>1. GoesOn(p)
        BY <2>3 DEF Refuse, StartRemoving, Places
      <3>. QED BY <1>1, <2>3, <3>1 DEF Refuse, StartRemoving, NoChange, local
    <2>4. CASE RemoveSeen(p)
      BY <2>4 DEF RemoveSeen, Remove
    <2>5. CASE RmdirSeen(p)
      <3>1. GoesOn(p)
        BY <2>5 DEF RmdirSeen, Places
      <3>. QED BY <1>1, <2>5, <3>1 DEF RmdirSeen, Rmdir, local
    <2>. QED BY <1>3, <2>1, <2>2, <2>3, <2>4, <2>5 DEF Reclaim
  <1>4. ASSUME NEW p \in Contenders, Crash(p) PROVE TypeOK'
    <2>1. GoesOn(p)
      BY <1>4 DEF Crash, Places
    <2>. QED BY <1>1, <1>4, <2>1 DEF Crash, NoChange, local
  <1>5. CASE UNCHANGED vars
    BY <1>5 DEF vars, local
  <1>. QED BY <1>2, <1>3, <1>4, <1>5 DEF Next

\* Every variable keeps its type, and owner files only lie in a directory.
THEOREM TypeCorrect == Spec => []TypeOK
  BY InitTyped, StepTyped, PTL DEF Spec

-----------------------------------------------------------------------------
(* Mutual exclusion.  The holder's file is in place because only the dead   *)
(* are cleared for removal; and who finds the holder's file backs out.      *)

OnlyTheDeadAreCleared ==
    \A p \in Contenders :
       /\ At(p, "judge") => \A q \in cleared[p] : Dead(q)
       /\ At(p, "remove") => \A q \in seen[p] : Dead(q)

WrittenIsFilled ==
    \A p \in Contenders :
       (At(p, "filled") \/ At(p, "checking")) /\ p \in owners => p \in filled

LockInv ==
    /\ TypeOK
    /\ OnlyTheDeadAreCleared
    /\ WrittenIsFilled
    /\ LiveOwnerKeepsItsFile

LEMMA InitLocked == Init => LockInv
  <1>. SUFFICES ASSUME Init PROVE LockInv
    OBVIOUS
  <1>. QED BY InitTyped DEF Init, LockInv, OnlyTheDeadAreCleared, WrittenIsFilled,
       LiveOwnerKeepsItsFile, Inside, At

LEMMA StepLocked == ~MayStall /\ LockInv /\ [Next]_vars => LockInv'
  <1>. SUFFICES ASSUME ~MayStall, LockInv, [Next]_vars PROVE LockInv'
    OBVIOUS
  <1>0. TypeOK /\ TypeOK'
    BY StepTyped DEF LockInv
  <1>. USE <1>0 DEF LockInv, At, Dead
  <1>. DEFINE DoneWell == /\ OnlyTheDeadAreCleared'
                          /\ WrittenIsFilled'
                          /\ LiveOwnerKeepsItsFile'
  <1>. SUFFICES DoneWell
    OBVIOUS
  <1>. USE DEF OnlyTheDeadAreCleared, WrittenIsFilled, LiveOwnerKeepsItsFile, Inside, TypeOK
  <1>1. ASSUME NEW p \in Contenders, Acquire(p) PROVE DoneWell
    <2>1. CASE Mkdir(p)
      BY <2>1 DEF Mkdir, Go, local
    <2>2. CASE StatCreated(p)
      BY <2>2 DEF StatCreated, Go, NoChange
    <2>3. CASE CreateOwner(p)
      BY <2>3 DEF CreateOwner, Go, local
    <2>4. CASE FillOwner(p)
      BY <2>4 DEF FillOwner, Go, local
    <2>5. CASE StatAgain(p) \/ GiveUp(p)
      BY <2>5 DEF StatAgain, GiveUp, Go, NoChange, local
    <2>6. CASE ListOwners(p)
      BY <2>6 DEF ListOwners, OnlyMine, Go, NoChange, local
    <2>7. CASE RemoveOwn(p)
      BY <2>7 DEF RemoveOwn, Remove, Go, local
    <2>8. CASE RmdirOwn(p)
      BY <2>8 DEF RmdirOwn, Rmdir, Go, local
    <2>. QED BY <1>1, <2>1, <2>2, <2>3, <2>4, <2>5, <2>6, <2>7, <2>8 DEF Acquire
  <1>2. ASSUME NEW p \in Contenders, Reclaim(p) PROVE DoneWell
    <2>1. CASE Observe(p)
      BY <2>1 DEF Observe, Go, NoChange
    <2>2. CASE Clear(p)
      BY <2>2 DEF Clear, MayBeReclaimable, NoChange
    <2>3. CASE Refuse(p) \/ StartRemoving(p)
      BY <2>3 DEF Refuse, StartRemoving, Go, NoChange, local
    <2>4. CASE RemoveSeen(p)
      BY <2>4 DEF RemoveSeen, Remove
    <2>5. CASE RmdirSeen(p)
      BY <2>5 DEF RmdirSeen, Rmdir, Go, local
    <2>. QED BY <1>2, <2>1, <2>2, <2>3, <2>4, <2>5 DEF Reclaim
  <1>3. ASSUME NEW p \in Contenders, Crash(p) PROVE DoneWell
    BY <1>3 DEF Crash, Go, NoChange, local
  <1>4. CASE UNCHANGED vars
    BY <1>4 DEF vars, local
  <1>. QED BY <1>1, <1>2, <1>3, <1>4 DEF Next

\* "A live owner is never reclaimed no matter how long we have waited": whoever
\* is inside finds its own, filled owner file in place until it releases.
THEOREM LiveOwnerIsSafe ==
    ASSUME ~MayStall
    PROVE  Spec => []LiveOwnerKeepsItsFile
  <1>1. LockInv => LiveOwnerKeepsItsFile
    BY DEF LockInv
  <1>2. LockInv /\ [Next]_vars => LockInv'
    BY StepLocked
  <1>. QED BY <1>1, <1>2, InitLocked, PTL DEF Spec

LEMMA StepExcludes == LockInv /\ [Next]_vars => [Lock!LockNext]_Inside
  <1>. SUFFICES ASSUME LockInv, [Next]_vars, Inside' # Inside PROVE Lock!LockNext
    OBVIOUS
  <1>. USE DEF LockInv, TypeOK, At, Inside
  <1>1. ASSUME NEW p \in Contenders, ListOwners(p) PROVE Lock!LockNext
    <2>1. owners = {p} /\ pc' = [pc EXCEPT ![p] = "hold"]
      BY <1>1 DEF ListOwners, OnlyMine, Go
    <2>2. Inside = {}
      BY <1>1, <2>1 DEF ListOwners, LiveOwnerKeepsItsFile
    <2>3. Inside' = {p}
      BY <2>1, <2>2
    <2>. QED BY <2>2, <2>3 DEF Lock!LockNext, Lock!Enter
  <1>2. ASSUME NEW p \in Contenders, RemoveOwn(p) \/ Crash(p) PROVE Lock!LockNext
    <2>1. PICK to \in Places \ {"hold"} : pc' = [pc EXCEPT ![p] = to]
      BY <1>2 DEF RemoveOwn, Crash, Go, Places
    <2>2. Inside' = Inside \ {p}
      BY <2>1
    <2>. QED BY <2>2 DEF Lock!LockNext, Lock!Exit
  <1>3. ASSUME NEW p \in Contenders, NEW to \in Places \ {"hold"}, ~At(p, "hold"), Go(p, to)
        PROVE  FALSE
    BY <1>3 DEF Go
  <1>4. ASSUME pc' = pc PROVE FALSE
    BY <1>4
  <1>5. ASSUME NEW p \in Contenders, Acquire(p) PROVE Lock!LockNext
    BY <1>1, <1>2, <1>3, <1>5 DEF Acquire, Mkdir, StatCreated, CreateOwner, FillOwner,
       StatAgain, RmdirOwn, GiveUp, Places
  <1>6. ASSUME NEW p \in Contenders, Reclaim(p) PROVE Lock!LockNext
    BY <1>3, <1>4, <1>6 DEF Reclaim, Observe, Clear, Refuse, StartRemoving, RemoveSeen,
       RmdirSeen, Places
  <1>7. ~UNCHANGED vars
    BY <1>4 DEF vars
  <1>. QED BY <1>2, <1>5, <1>6, <1>7 DEF Next

\* The directory lock implements the advisory lock: nobody enters while
\* somebody is inside, whoever crashes, reclaims, or swaps directories.
THEOREM Exclusion ==
    ASSUME ~MayStall
    PROVE  Spec => ExcludesEachOther
  <1>1. Init => Lock!LockInit
    BY DEF Init, Lock!LockInit, Inside, At
  <1>2. LockInv /\ [Next]_vars => LockInv' /\ [Lock!LockNext]_Inside
    BY StepLocked, StepExcludes
  <1>. QED BY <1>1, <1>2, InitLocked, PTL DEF Spec, ExcludesEachOther, Lock!LockSpec
-----------------------------------------------------------------------------
(* Nothing is left behind.  This holds with stalls too.                     *)

\* Contenders that created a directory and have not answered for it yet,
\* alive or dead.
Owing == {p \in Contenders :
             pc[p] \in {"made", "stated", "created", "filled", "checking", "hold",
                        "backout", "rmdir", "leave", "dead"}}

\* An owner file belongs to somebody who will remove it before its rmdir, and
\* a directory stands only as long as somebody owes that rmdir: a refused one
\* leaves it to the owner of the file it met.
LeftToSomebody ==
    /\ \A p \in owners : p \in Owing /\ pc[p] \notin {"made", "stated", "rmdir", "leave"}
    /\ dir # None => Owing # {}

LEMMA StepLeft == TypeOK /\ LeftToSomebody /\ [Next]_vars => LeftToSomebody'
  <1>. SUFFICES ASSUME TypeOK, LeftToSomebody, [Next]_vars PROVE LeftToSomebody'
    OBVIOUS
  <1>. USE DEF TypeOK, LeftToSomebody, Owing, At, Go, local, NoChange
  <1>1. ASSUME NEW p \in Contenders, Acquire(p) PROVE LeftToSomebody'
    <2>1. CASE Mkdir(p)
      BY <2>1 DEF Mkdir
    <2>2. CASE StatCreated(p)
      BY <2>2 DEF StatCreated
    <2>3. CASE CreateOwner(p)
      BY <2>3 DEF CreateOwner
    <2>4. CASE FillOwner(p)
      BY <2>4 DEF FillOwner
    <2>5. CASE StatAgain(p) \/ ListOwners(p)
      BY <2>5 DEF StatAgain, ListOwners
    <2>6. CASE GiveUp(p)
      BY <2>6 DEF GiveUp
    <2>7. CASE RemoveOwn(p)
      BY <2>7 DEF RemoveOwn, Remove
    <2>8. CASE RmdirOwn(p)
      <3>1. p \notin owners
        BY <2>8 DEF RmdirOwn
      <3>2. \A q \in Contenders \ {p} : pc'[q] = pc[q]
        BY <2>8 DEF RmdirOwn
      <3>3. dir' # None => owners # {}
        BY <2>8 DEF RmdirOwn, Rmdir
      <3>4. owners' = owners
        BY <2>8 DEF RmdirOwn, Rmdir
      <3>. QED BY <3>1, <3>2, <3>3, <3>4
    <2>. QED BY <1>1, <2>1, <2>2, <2>3, <2>4, <2>5, <2>6, <2>7, <2>8 DEF Acquire
  <1>2. ASSUME NEW p \in Contenders, Reclaim(p) PROVE LeftToSomebody'
    <2>1. CASE Observe(p)
      BY <2>1 DEF Observe
    <2>2. CASE Clear(p)
      BY <2>2 DEF Clear
    <2>3. CASE Refuse(p) \/ StartRemoving(p)
      BY <2>3 DEF Refuse, StartRemoving
    <2>4. CASE RemoveSeen(p)
      BY <2>4 DEF RemoveSeen, Remove
    <2>5. CASE RmdirSeen(p)
      BY <2>5 DEF RmdirSeen, Rmdir
    <2>. QED BY <1>2, <2>1, <2>2, <2>3, <2>4, <2>5 DEF Reclaim
  <1>3. ASSUME NEW p \in Contenders, Crash(p) PROVE LeftToSomebody'
    BY <1>3 DEF Crash
  <1>4. CASE UNCHANGED vars
    BY <1>4 DEF vars
  <1>. QED BY <1>1, <1>2, <1>3, <1>4 DEF Next

\* "The lock is always removed": once every contender has come to its end, none
\* of them by dying, no lock directory is left, whichever rmdir met a
\* directory that was not empty or somebody else's.
THEOREM NothingIsLeft == Spec => []NoLockLeftBehind
  <1>1. Init => TypeOK /\ LeftToSomebody
    BY InitTyped DEF Init, LeftToSomebody
  <1>2. TypeOK /\ LeftToSomebody /\ [Next]_vars => TypeOK' /\ LeftToSomebody'
    BY StepTyped, StepLeft
  <1>3. LeftToSomebody => NoLockLeftBehind
    BY DEF LeftToSomebody, NoLockLeftBehind, Owing, At
  <1>. QED BY <1>1, <1>2, <1>3, PTL DEF Spec
=============================================================================
