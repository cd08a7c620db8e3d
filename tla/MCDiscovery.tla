------------------------------ MODULE MCDiscovery ------------------------------
(***************************************************************************)
(* One entry set up, unloaded and reloaded in a process that stops.        *)
(***************************************************************************)
EXTENDS Discovery, TLC
=============================================================================
