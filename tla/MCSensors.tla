------------------------------- MODULE MCSensors -------------------------------
(***************************************************************************)
(* The sensors of one device over records enough to open and close its     *)
(* circuit.                                                                *)
(***************************************************************************)
EXTENDS Sensors, TLC
=============================================================================
