-------------------------- MODULE MCMediaResolution --------------------------
(***************************************************************************)
(* Speakers, options flows, and calls with URLs of this instance, of the   *)
(* speakers' override and of a radio station.                              *)
(***************************************************************************)
EXTENDS MediaResolution, TLC

\* One tab of the options flow, and one speaker, is like another.
Alike == Permutations(Flows) \cup Permutations(Devices)
=============================================================================
