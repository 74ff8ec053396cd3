---------------------------- MODULE AdvisoryLock ----------------------------
(***************************************************************************)
(* What both locks of src/src/store/atomic-write.mjs promise to the        *)
(* functions they run: nobody enters while somebody is inside.             *)
(***************************************************************************)

CONSTANT Contenders     \* calls of the lock helper, in any process

VARIABLE inside         \* the contenders whose function is running

LockInit == inside = {}

Enter(p) == inside = {} /\ inside' = {p}

Exit(p) == p \in inside /\ inside' = inside \ {p}

LockNext == \E p \in Contenders : Enter(p) \/ Exit(p)

LockSpec == LockInit /\ [][LockNext]_inside
=============================================================================
