-------------------------- MODULE MCRoutingStrikes --------------------------
(***************************************************************************)
(* RoutingStrikes over the instances of MCRouting.                         *)
(***************************************************************************)
EXTENDS RoutingStrikes, MCRouting
=============================================================================
