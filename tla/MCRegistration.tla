---------------------------- MODULE MCRegistration ----------------------------
(***************************************************************************)
(* A speaker and a dynamic group over reloads of the entry.                *)
(***************************************************************************)
EXTENDS Registration, TLC
=============================================================================
