------------------------------ MODULE NoValue ------------------------------
(***************************************************************************)
(* What a variable holds that holds nothing: null and undefined.  Modules  *)
(* with proofs in common share it.                                         *)
(***************************************************************************)
CONSTANT None
=============================================================================
