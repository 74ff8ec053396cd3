-------------------------- MODULE MCRoutingHistory --------------------------
(***************************************************************************)
(* RoutingHistory over the instances of MCRouting.                         *)
(***************************************************************************)
EXTENDS RoutingHistory, MCRouting
=============================================================================
