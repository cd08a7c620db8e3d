------------------------------ MODULE OptionsFlow ------------------------------
(***************************************************************************)
(* The options flow (config_flow.py) as far as it edits the per-device URL *)
(* overrides. Home Assistant lets several flows of one entry run at once,  *)
(* in two tabs or by two users; each edits a copy of the options that it   *)
(* takes when its first form is submitted, and writes the copy back whole  *)
(* when it finishes. What the other fields hold is what the user submits.  *)
(***************************************************************************)

CONSTANTS
    Devices,    \* devices, as the keys of the overrides
    Bases,      \* base URLs that normalize_override accepts
    Flows,      \* bound: options flows open at once
    None        \* no override, no flow

ASSUME OptionsAssumption == None \notin Bases

VARIABLES
    overrides,  \* entry.options["url_overrides"]
    flow,       \* the options flows
    intended,   \* ghost: the overrides after the edits of all finished flows, in order
    raced       \* ghost: devices written back by a flow that had not seen their last edit

optionsVars == <<overrides, flow, intended, raced>>

Overrides == [Devices -> Bases \cup {None}]

\* options: _options; edited: the devices submitted; unseen: ghost, the devices other
\* flows edited since the copy was taken.
Flow == [options : Overrides, edited : SUBSET Devices, unseen : SUBSET Devices]

-----------------------------------------------------------------------------

\* _async_finish: data and options in one update.
FinishWith(f, options, edited) ==
    /\ overrides' = options
    /\ intended' = [d \in Devices |-> IF d \in edited THEN options[d] ELSE intended[d]]
    /\ raced' = (raced \cup flow[f].unseen) \ edited
    /\ flow' = [g \in Flows |->
         CASE g = f          -> None
           [] flow[g] = None -> None
           [] OTHER          -> [flow[g] EXCEPT !.unseen = @ \cup edited]]

\* async_step_init, submitted with "edit overrides": the copy is taken.
\* Slip: from the health fields alone.
FromHealthAlone == [d \in Devices |-> None]
FromEntry == overrides

Begin(f) ==
    /\ flow[f] = None
    /\ flow' = [flow EXCEPT ![f] = [options |-> FromEntry, edited |-> {}, unseen |-> {}]]
    /\ UNCHANGED <<overrides, intended, raced>>

\* async_step_init without it: copied and written in the same step.
SubmitOnly(f) ==
    /\ flow[f] = None
    /\ overrides' = FromEntry
    /\ UNCHANGED <<flow, intended, raced>>

\* async_step_url_overrides: an empty URL removes the override, an invalid one only
\* shows the form again, which is no step.
Submitted(f, d, base) == [flow[f].options EXCEPT ![d] = base]

AddAnother(f, d, base) ==
    /\ flow[f] # None
    /\ flow' = [flow EXCEPT ![f] =
         [options |-> Submitted(f, d, base), edited |-> @.edited \cup {d}, unseen |-> @.unseen]]
    /\ UNCHANGED <<overrides, intended, raced>>

Finish(f, d, base) ==
    /\ flow[f] # None
    /\ FinishWith(f, Submitted(f, d, base), flow[f].edited \cup {d})

\* The user closes the dialog.
Abandon(f) ==
    /\ flow[f] # None
    /\ flow' = [flow EXCEPT ![f] = None]
    /\ UNCHANGED <<overrides, intended, raced>>

OptionsInit ==
    /\ overrides = [d \in Devices |-> None]
    /\ flow = [f \in Flows |-> None]
    /\ intended = overrides
    /\ raced = {}

OptionsNext ==
    \E f \in Flows :
       \/ Begin(f) \/ SubmitOnly(f) \/ Abandon(f)
       \/ \E d \in Devices, base \in Bases \cup {None} : AddAnother(f, d, base) \/ Finish(f, d, base)

OptionsSpec == OptionsInit /\ [][OptionsNext]_optionsVars

-----------------------------------------------------------------------------
(* Properties. *)

OptionsTypeOK ==
    /\ overrides \in Overrides
    /\ intended \in Overrides
    /\ flow \in [Flows -> Flow \cup {None}]
    /\ raced \subseteq Devices

\* The overrides are what the users who finished asked for, last of them first, save
\* for a device whose last edit was overtaken: a flow that began before it and finished
\* after it writes the old value back (_async_finish).
OnlyRacesLoseEdits == \A d \in Devices \ raced : overrides[d] = intended[d]
=============================================================================
