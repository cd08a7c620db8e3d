---------------------------- MODULE MCMediaPlayer ----------------------------
(***************************************************************************)
(* One media player entity: concurrent service calls and what their        *)
(* callers are told, its device, timers.                                   *)
(***************************************************************************)
EXTENDS CallerErrors, TLC
=============================================================================
