----------------------------- MODULE MCDirLock -----------------------------
(***************************************************************************)
(* DirLock with three contenders: one that died or is inside, one that     *)
(* reclaims, and one that comes in between; and two inodes, so that a      *)
(* directory can be replaced by another one or by one that looks the same. *)
(***************************************************************************)
EXTENDS DirLock, TLC

CONSTANTS c1, c2, c3, i1, i2

MCContenders == {c1, c2, c3}
MCInodes == {i1, i2}
LockSymmetry == Permutations(MCContenders) \cup Permutations(MCInodes)
=============================================================================
