------------------------ MODULE ProviderStore_proofs ------------------------
(***************************************************************************)
(* Proofs about the provider transactions, for every set of requests:      *)
(* type correctness; that no pool is left holding a provider that is gone; *)
(* that a listed provider has its credential, unless an add was not alone  *)
(* with the key; that the key of a provider that is gone is not forgotten, *)
(* unless one was written across a deletion.                               *)
(***************************************************************************)
EXTENDS ProviderStore, TLAPS

\* Every step is one of these.
LEMMA Steps ==
    ASSUME [Next]_vars
    PROVE  \/ \E r \in Requests : Carry(r)
           \/ OtherSave /\ quiet' \in BOOLEAN
           \/ \E r \in Requests : (Ask(r) \/ Fail(r)) /\ quiet' \in BOOLEAN
           \/ UNCHANGED vars
  BY DEF Next, Disturb

\* and keeps track of the overlaps: while none was met, there is none.
LEMMA Tracks ==
    ASSUME [Next]_vars, mixed \in BOOLEAN, crossed \in BOOLEAN
    PROVE  /\ mixed' \in BOOLEAN /\ crossed' \in BOOLEAN
           /\ ~mixed' => ~mixed /\ (AddsRunAlone' \/ UNCHANGED vars)
           /\ ~crossed' => ~crossed /\ (KeysAreWrittenApart' \/ UNCHANGED vars)
<1>1. CASE Track
  BY <1>1, Zenon DEF Track
<1>2. CASE UNCHANGED vars
  BY <1>2 DEF vars
<1> QED
  BY <1>1, <1>2 DEF Next, Disturb, Carry

\* The types of every variable are kept: a request that may swap the store
\* has loaded it.
LEMMA TypeStep == ASSUME TypeOK, [Next]_vars PROVE TypeOK'
<1> USE NoStoreAssumption DEF TypeOK, Stores, Places, Step, Load, history
<1>0. mixed' \in BOOLEAN /\ crossed' \in BOOLEAN
  BY Tracks
<1>1. ASSUME NEW r \in Requests, Carry(r) PROVE TypeOK'
  <2>1. quiet' = quiet
    BY <1>1 DEF Carry
  <2>2. CASE AddKey(r)          BY <1>0, <2>1, <2>2 DEF AddKey
  <2>3. CASE CommitAdd(r)       BY <1>0, <2>1, <2>3 DEF CommitAdd, Listed
  <2>4. CASE UndoAdd(r)         BY <1>0, <2>1, <2>4 DEF UndoAdd
  <2>5. CASE RotateKey(r)       BY <1>0, <2>1, <2>5 DEF RotateKey
  <2>6. CASE Detach(r)          BY <1>0, <2>1, <2>6 DEF Detach
  <2>7. CASE LoadForDelete(r)   BY <1>0, <2>1, <2>7 DEF LoadForDelete
  <2>8. CASE Mark(r)            BY <1>0, <2>1, <2>8 DEF Mark
  <2>9. CASE Unlist(r)          BY <1>0, <2>1, <2>9 DEF Unlist
  <2>10. CASE Verify(r)         BY <1>0, <2>1, <2>10 DEF Verify
  <2>11. CASE RemoveKey(r)      BY <1>0, <2>1, <2>11 DEF RemoveKey
  <2>12. CASE Clear(r)          BY <1>0, <2>1, <2>12 DEF Clear
  <2>13. CASE Conflict(r)       BY <1>0, <2>1, <2>13 DEF Conflict
  <2>14. CASE Resume(r)         BY <1>0, <2>1, <2>14 DEF Resume
  <2> QED
    BY <1>1, <2>2, <2>3, <2>4, <2>5, <2>6, <2>7, <2>8, <2>9, <2>10, <2>11, <2>12, <2>13, <2>14
       DEF Carry, Proceed
<1>2. ASSUME OtherSave, quiet' \in BOOLEAN PROVE TypeOK'
  BY <1>0, <1>2 DEF OtherSave
<1>3. ASSUME NEW r \in Requests, Ask(r) \/ Fail(r), quiet' \in BOOLEAN PROVE TypeOK'
  <2>1. CASE StartAdd(r)        BY <1>0, <1>3, <2>1 DEF StartAdd
  <2>2. CASE StartRotate(r)     BY <1>0, <1>3, <2>2 DEF StartRotate
  <2>3. CASE StartDelete(r)     BY <1>0, <1>3, <2>3 DEF StartDelete
  <2>4. CASE AddFails(r)        BY <1>0, <1>3, <2>4 DEF AddFails
  <2>5. CASE AddRejected(r)     BY <1>0, <1>3, <2>5 DEF AddRejected
  <2>6. CASE DeleteFails(r)     BY <1>0, <1>3, <2>6 DEF DeleteFails
  <2>7. CASE Crash(r)           BY <1>0, <1>3, <2>7 DEF Crash
  <2> QED
    BY <1>3, <2>1, <2>2, <2>3, <2>4, <2>5, <2>6, <2>7 DEF Ask, Fail
<1>4. ASSUME UNCHANGED vars PROVE TypeOK'
  BY <1>4 DEF vars
<1> QED
  BY <1>1, <1>2, <1>3, <1>4, Steps

\* Type correctness of the transactions.
THEOREM TypeCorrect == Spec => []TypeOK
<1>1. ASSUME Init PROVE TypeOK
  <2>1. store \in Stores
    BY <1>1 DEF Init, Stores, Unlisted
  <2>2. \A r \in Requests : pc[r] = "idle"
    BY <1>1 DEF Init
  <2> QED
    BY <1>1, <2>1, <2>2 DEF Init, TypeOK, Places
<1>2. TypeOK /\ [Next]_vars => TypeOK'
  BY TypeStep
<1> QED
  BY <1>1, <1>2, PTL DEF Spec

-----------------------------------------------------------------------------
(* No ghosts in pools.  The swap that unlists the provider compares with a  *)
(* store that passed the pool gate.                                         *)

PassedTheGate ==
    /\ PoolsHoldNoGhost
    /\ \A r \in Requests : pc[r] \in {"marking", "unlisting"} => ~snap[r].pooled

LEMMA GateStep == ASSUME TypeOK, PassedTheGate, [Next]_vars PROVE PassedTheGate'
<1> USE DEF TypeOK, PassedTheGate, PoolsHoldNoGhost, Stores, Step, Load, Swaps
<1>1. ASSUME NEW r \in Requests, Carry(r) PROVE PassedTheGate'
  <2>1. CASE AddKey(r)          BY <2>1 DEF AddKey
  <2>2. CASE CommitAdd(r)       BY <2>2 DEF CommitAdd, Listed
  <2>3. CASE UndoAdd(r)         BY <2>3 DEF UndoAdd
  <2>4. CASE RotateKey(r)       BY <2>4 DEF RotateKey
  <2>5. CASE Detach(r)          BY <2>5 DEF Detach
  <2>6. CASE LoadForDelete(r)   BY <2>6 DEF LoadForDelete
  <2>7. CASE Mark(r)            BY <2>7 DEF Mark
  <2>8. CASE Unlist(r)          BY <2>8 DEF Unlist
  <2>9. CASE Verify(r)          BY <2>9 DEF Verify
  <2>10. CASE RemoveKey(r)       BY <2>10 DEF RemoveKey
  <2>11. CASE Clear(r)           BY <2>11 DEF Clear
  <2>12. CASE Conflict(r)        BY <2>12 DEF Conflict
  <2>13. CASE Resume(r)          BY <2>13 DEF Resume
  <2> QED
    BY <1>1, <2>1, <2>2, <2>3, <2>4, <2>5, <2>6, <2>7, <2>8, <2>9, <2>10, <2>11, <2>12, <2>13
       DEF Carry, Proceed
<1>2. ASSUME OtherSave PROVE PassedTheGate'
  BY <1>2 DEF OtherSave
<1>3. ASSUME NEW r \in Requests, Ask(r) \/ Fail(r) PROVE PassedTheGate'
  <2>1. CASE StartAdd(r)        BY <2>1 DEF StartAdd
  <2>2. CASE StartRotate(r)     BY <2>2 DEF StartRotate
  <2>3. CASE StartDelete(r)     BY <2>3 DEF StartDelete
  <2>4. CASE AddFails(r)        BY <2>4 DEF AddFails
  <2>5. CASE AddRejected(r)     BY <2>5 DEF AddRejected
  <2>6. CASE DeleteFails(r)     BY <2>6 DEF DeleteFails
  <2>7. CASE Crash(r)           BY <2>7 DEF Crash
  <2> QED
    BY <1>3, <2>1, <2>2, <2>3, <2>4, <2>5, <2>6, <2>7 DEF Ask, Fail
<1>4. ASSUME UNCHANGED vars PROVE PassedTheGate'
  BY <1>4 DEF vars
<1> QED
  BY <1>1, <1>2, <1>3, <1>4, Steps

\* Whatever is deleted, added, rotated and saved at the same time, and
\* wherever a process dies: no pool is left holding a provider that is gone.
THEOREM NoGhosts == Spec => []PoolsHoldNoGhost
<1>1. Init => PassedTheGate
  BY DEF Init, PassedTheGate, PoolsHoldNoGhost, Unlisted
<1>2. TypeOK /\ PassedTheGate /\ [Next]_vars => PassedTheGate'
  BY GateStep
<1>3. PassedTheGate => PoolsHoldNoGhost
  BY DEF PassedTheGate
<1> QED
  BY <1>1, <1>2, <1>3, TypeCorrect, PTL DEF Spec

-----------------------------------------------------------------------------
(* The key of a listed provider.  Whoever may remove it has seen that the   *)
(* provider is gone, and as long as adds are alone nobody brings it back.   *)

KeyBeforeEntry ==
    /\ ListedHasCredential
    /\ \A r \in Requests :
          /\ pc[r] \in {"discovering", "adding", "undo", "verifying", "removing"} => ~store.listed
          /\ pc[r] = "adding" => credential
          /\ pc[r] = "marking" /\ ~snap[r].listed => ~store.listed

LEMMA KeyStep ==
    ASSUME TypeOK, KeyBeforeEntry, AddsRunAlone, [Next]_vars
    PROVE  KeyBeforeEntry'
<1> USE DEF TypeOK, KeyBeforeEntry, AddsRunAlone, ListedHasCredential, Stores, Step, Load, Swaps
<1>1. ASSUME NEW r \in Requests, Carry(r) PROVE KeyBeforeEntry'
  <2>1. CASE AddKey(r)          BY <2>1 DEF AddKey
  <2>2. CASE CommitAdd(r)       BY <2>2 DEF CommitAdd, Listed
  <2>3. CASE UndoAdd(r)         BY <2>3 DEF UndoAdd
  <2>4. CASE RotateKey(r)       BY <2>4 DEF RotateKey
  <2>5. CASE Detach(r)          BY <2>5 DEF Detach
  <2>6. CASE LoadForDelete(r)   BY <2>6 DEF LoadForDelete
  <2>7. CASE Mark(r)            BY <2>7 DEF Mark
  <2>8. CASE Unlist(r)          BY <2>8 DEF Unlist
  <2>9. CASE Verify(r)          BY <2>9 DEF Verify
  <2>10. CASE RemoveKey(r)       BY <2>10 DEF RemoveKey
  <2>11. CASE Clear(r)           BY <2>11 DEF Clear
  <2>12. CASE Conflict(r)        BY <2>12 DEF Conflict
  <2>13. CASE Resume(r)          BY <2>13 DEF Resume
  <2> QED
    BY <1>1, <2>1, <2>2, <2>3, <2>4, <2>5, <2>6, <2>7, <2>8, <2>9, <2>10, <2>11, <2>12, <2>13
       DEF Carry, Proceed
<1>2. ASSUME OtherSave PROVE KeyBeforeEntry'
  BY <1>2 DEF OtherSave
<1>3. ASSUME NEW r \in Requests, Ask(r) \/ Fail(r) PROVE KeyBeforeEntry'
  <2>1. CASE StartAdd(r)        BY <2>1 DEF StartAdd
  <2>2. CASE StartRotate(r)     BY <2>2 DEF StartRotate
  <2>3. CASE StartDelete(r)     BY <2>3 DEF StartDelete
  <2>4. CASE AddFails(r)        BY <2>4 DEF AddFails
  <2>5. CASE AddRejected(r)     BY <2>5 DEF AddRejected
  <2>6. CASE DeleteFails(r)     BY <2>6 DEF DeleteFails
  <2>7. CASE Crash(r)           BY <2>7 DEF Crash
  <2> QED
    BY <1>3, <2>1, <2>2, <2>3, <2>4, <2>5, <2>6, <2>7 DEF Ask, Fail
<1>4. ASSUME UNCHANGED vars PROVE KeyBeforeEntry'
  BY <1>4 DEF vars
<1> QED
  BY <1>1, <1>2, <1>3, <1>4, Steps

KeyInv == ~mixed => AddsRunAlone /\ KeyBeforeEntry

\* However many requests overlap, wherever a process dies and whatever write
\* fails: a listed provider has its credential, as long as no add ran beside
\* another add or beside a request about to remove the key.  Beside those it is
\* false: ListedHasCredential is refuted by TLC.
THEOREM ListedIsUsable == Spec => []ListedHasCredentialApart
<1>1. Init => KeyInv
  BY DEF Init, KeyInv, AddsRunAlone, KeyBeforeEntry, ListedHasCredential, Unlisted
<1>2. TypeOK /\ KeyInv /\ [Next]_vars => KeyInv'
  <2> SUFFICES ASSUME TypeOK, KeyInv, [Next]_vars, ~mixed' PROVE (AddsRunAlone /\ KeyBeforeEntry)'
    BY DEF KeyInv
  <2>1. ~mixed /\ (AddsRunAlone' \/ UNCHANGED vars)
    BY Tracks DEF TypeOK
  <2>2. AddsRunAlone /\ KeyBeforeEntry
    BY <2>1 DEF KeyInv
  <2>3. AddsRunAlone'
    BY <2>1, <2>2 DEF AddsRunAlone, vars
  <2> QED
    BY <2>2, <2>3, KeyStep
<1>3. KeyInv => ListedHasCredentialApart
  BY DEF KeyInv, KeyBeforeEntry, ListedHasCredentialApart
<1> QED
  BY <1>1, <1>2, <1>3, TypeCorrect, PTL DEF Spec

-----------------------------------------------------------------------------
(* The key of a provider that is gone.  It is in the journal, unless a       *)
(* request is still adding it or has left it behind.  A rotation meets an   *)
(* entry; whoever takes the entry off finds the journal in place, or no key *)
(* any more; the journal is cleared after the key.                          *)

RememberedInv ==
    /\ credential /\ ~store.listed =>
          pending \/ leftover \/ \E r \in Requests : pc[r] \in {"adding", "undo"}
    /\ \A r \in Requests :
          /\ pc[r] = "rotating" => store.listed
          /\ pc[r] = "unlisting" => pending \/ ~credential
          /\ pc[r] = "clearing" => ~credential

LEMMA RememberedStep ==
    ASSUME TypeOK, RememberedInv, KeysAreWrittenApart, KeysAreWrittenApart', [Next]_vars
    PROVE  RememberedInv'
<1> USE DEF TypeOK, RememberedInv, KeysAreWrittenApart, Stores, Step, Load, history
<1>1. ASSUME NEW r \in Requests, Carry(r) PROVE RememberedInv'
  <2>1. CASE AddKey(r)          BY <2>1 DEF AddKey
  <2>2. CASE CommitAdd(r)       BY <2>2 DEF CommitAdd, Listed
  <2>3. CASE UndoAdd(r)         BY <2>3 DEF UndoAdd
  <2>4. CASE RotateKey(r)       BY <2>4 DEF RotateKey
  <2>5. CASE Detach(r)          BY <2>5 DEF Detach
  <2>6. CASE LoadForDelete(r)   BY <2>6 DEF LoadForDelete
  <2>7. CASE Mark(r)            BY <2>7 DEF Mark
  <2>8. CASE Unlist(r)          BY <2>8 DEF Unlist
  <2>9. CASE Verify(r)          BY <2>9 DEF Verify
  <2>10. CASE RemoveKey(r)       BY <2>10 DEF RemoveKey
  <2>11. CASE Clear(r)           BY <2>11 DEF Clear
  <2>12. CASE Conflict(r)        BY <2>12 DEF Conflict
  <2>13. CASE Resume(r)          BY <2>13 DEF Resume
  <2> QED
    BY <1>1, <2>1, <2>2, <2>3, <2>4, <2>5, <2>6, <2>7, <2>8, <2>9, <2>10, <2>11, <2>12, <2>13
       DEF Carry, Proceed
<1>2. ASSUME OtherSave PROVE RememberedInv'
  BY <1>2 DEF OtherSave
<1>3. ASSUME NEW r \in Requests, Ask(r) \/ Fail(r) PROVE RememberedInv'
  <2>1. CASE StartAdd(r)        BY <2>1 DEF StartAdd
  <2>2. CASE StartRotate(r)     BY <2>2 DEF StartRotate
  <2>3. CASE StartDelete(r)     BY <2>3 DEF StartDelete
  <2>4. CASE AddFails(r)        BY <2>4 DEF AddFails
  <2>5. CASE AddRejected(r)     BY <2>5 DEF AddRejected
  <2>6. CASE DeleteFails(r)     BY <2>6 DEF DeleteFails
  <2>7. CASE Crash(r)           BY <2>7 DEF Crash
  <2> QED
    BY <1>3, <2>1, <2>2, <2>3, <2>4, <2>5, <2>6, <2>7 DEF Ask, Fail
<1>4. ASSUME UNCHANGED vars PROVE RememberedInv'
  BY <1>4 DEF vars
<1> QED
  BY <1>1, <1>2, <1>3, <1>4, Steps

ApartInv == ~crossed => KeysAreWrittenApart /\ RememberedInv

\* However many requests overlap, wherever a process dies and whatever write
\* fails: the credential of a provider that is gone is in the delete journal, or
\* an add left it behind, as long as no rotation wrote its key and no add was
\* about to be saved while another request took the provider off the store or the
\* deletion off the journal.
THEOREM NoKeyForgotten == Spec => []KeyIsRemembered
<1>1. Init => ApartInv
  BY DEF Init, ApartInv, KeysAreWrittenApart, RememberedInv
<1>2. TypeOK /\ ApartInv /\ [Next]_vars => ApartInv'
  <2> SUFFICES ASSUME TypeOK, ApartInv, [Next]_vars, ~crossed'
               PROVE  (KeysAreWrittenApart /\ RememberedInv)'
    BY DEF ApartInv
  <2>1. ~crossed /\ (KeysAreWrittenApart' \/ UNCHANGED vars)
    BY Tracks DEF TypeOK
  <2>2. KeysAreWrittenApart /\ RememberedInv
    BY <2>1 DEF ApartInv
  <2>3. KeysAreWrittenApart'
    BY <2>1, <2>2 DEF KeysAreWrittenApart, vars
  <2> QED
    BY <2>2, <2>3, RememberedStep
<1>3. ApartInv => KeyIsRemembered
  BY DEF ApartInv, RememberedInv, KeyIsRemembered
<1> QED
  BY <1>1, <1>2, <1>3, TypeCorrect, PTL DEF Spec
=============================================================================
