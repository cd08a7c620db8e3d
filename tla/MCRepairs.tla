------------------------------- MODULE MCRepairs -------------------------------
(***************************************************************************)
(* The repair manager of one entry through reloads, restarts and crashes.  *)
(***************************************************************************)
EXTENDS Repairs, TLC
=============================================================================
