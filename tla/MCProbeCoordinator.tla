-------------------------- MODULE MCProbeCoordinator --------------------------
(***************************************************************************)
(* Probes, playback and the circuit breaker of one device.                 *)
(***************************************************************************)
EXTENDS ProbeCoordinator, TLC
=============================================================================
