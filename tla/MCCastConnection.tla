--------------------------- MODULE MCCastConnection ---------------------------
(***************************************************************************)
(* One entity, its socket thread and the thread of a group.                *)
(***************************************************************************)
EXTENDS CastConnection, TLC
=============================================================================
