-------------------------- MODULE MCDeliveryLedger --------------------------
(***************************************************************************)
(* The ledger alone, under every order of calls its handlers allow.        *)
(***************************************************************************)
EXTENDS DeliveryLedger, TLC

Interchangeable == Permutations(Contents)
=============================================================================
