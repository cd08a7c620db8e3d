------------------------------ MODULE MCTopology ------------------------------
(***************************************************************************)
(* Two speakers and a group on two subnets.                                *)
(***************************************************************************)
EXTENDS Topology, TLC
=============================================================================
