----------------------------- MODULE Registration -----------------------------
(***************************************************************************)
(* Which devices of the entry exist: how discovery signals become player   *)
(* entities and dynamic groups, how added_cast_devices keeps a device from *)
(* being added twice, and what set-ups and unloads of the entry leave      *)
(* behind (media_player.py, __init__.py).                                  *)
(*                                                                         *)
(* Home Assistant's part is external: a platform adds an entity in a task  *)
(* and rejects one whose unique id is live, and an unload removes the      *)
(* entities of the platform of the present set-up. The dispatcher calls    *)
(* the handlers in the order they were connected.                          *)
(***************************************************************************)
EXTENDS Naturals, Sequences, FiniteSets

CONSTANTS
    Players,        \* uuids of speakers, displays and groups that become entities
    DynamicGroups,  \* uuids of dynamic groups, which do not
    AllowLists,     \* values of the uuid option; the empty list admits everything
    MaxSetUps,      \* bound: set-ups of the entry
    MaxObjects      \* bound: entities and groups ever created

Devices == Players \cup DynamicGroups

ASSUME RegistrationAssumption ==
    /\ Players \cap DynamicGroups = {}
    /\ AllowLists \subseteq SUBSET Devices
    /\ MaxSetUps \in Nat /\ MaxObjects \in Nat

VARIABLES
    entry,      \* state of the config entry
    wanted,     \* the uuid option
    accepts,    \* per set-up: the option its discovery handler was made with
    added,      \* runtime_data.added_cast_devices
    objects,    \* the CastDevice objects, oldest first
    strayed     \* ghost: groups removed twice over, or alive at an unload

registrationVars == <<entry, wanted, accepts, added, objects, strayed>>

\* via: the set-up whose platform adds the object, 0 for a group. tearDowns: how
\* many calls of _async_tear_down wait for the disconnect.
CastDevice ==
    [uuid : Devices, via : Nat, state : {"adding", "live", "gone"}, tearDowns : Nat]

Alive(o) == objects[o].state # "gone"

SetUps == DOMAIN accepts

Admits(list, u) == list = {} \/ u \in list

-----------------------------------------------------------------------------
(* Discovery. *)

\* Slip: a device that is known is created again.
CreateAnyway(u) == TRUE
IsNew(u) == u \notin added

\* The handlers of every set-up so far are connected: none is disconnected on unload.
\* All read the runtime data of the present one, so the first to admit the device
\* claims it and the others find it added.
FirstToAdmit(g, u) ==
    Admits(accepts[g], u) /\ \A h \in SetUps : Admits(accepts[h], u) => g <= h

\* _async_create_cast_device: a group connects by itself, an entity goes through the
\* platform of the handler.
Created(u, g) ==
    IF u \in DynamicGroups
    THEN [uuid |-> u, via |-> 0, state |-> "live", tearDowns |-> 0]
    ELSE [uuid |-> u, via |-> g, state |-> "adding", tearDowns |-> 0]

\* Without runtime data the handlers raise.
Discovered(u) ==
    /\ entry # "not_loaded"
    /\ IsNew(u)
    /\ Len(objects) < MaxObjects
    /\ added' = added \cup {u}
    /\ \E g \in SetUps : FirstToAdmit(g, u) /\ objects' = Append(objects, Created(u, g))
    /\ UNCHANGED <<entry, wanted, accepts, strayed>>

\* The platform's task: a live entity of the same unique id makes it drop the new one.
AddEntity(o) ==
    /\ objects[o].state = "adding"
    /\ objects' = [objects EXCEPT ![o].state =
         IF \E p \in DOMAIN objects :
               objects[p].uuid = objects[o].uuid /\ objects[p].state = "live"
         THEN "gone" ELSE "live"]
    /\ UNCHANGED <<entry, wanted, accepts, added, strayed>>

-----------------------------------------------------------------------------
(* Tear-down. *)

\* The user deletes the device: its entity is removed.
DeleteDevice(o) ==
    /\ entry = "loaded"
    /\ objects[o].uuid \in Players
    /\ objects[o].state = "live" /\ objects[o].tearDowns = 0
    /\ objects' = [objects EXCEPT ![o].tearDowns = 1]
    /\ UNCHANGED <<entry, wanted, accepts, added, strayed>>

\* SIGNAL_CAST_REMOVED without services left: every object of the group that is
\* still connected to the signal starts a tear-down, also one that is in one.
Hears(o, u) == objects[o].uuid = u /\ objects[o].state = "live"

Removed(u) ==
    /\ entry # "not_loaded"
    /\ u \in DynamicGroups
    /\ \E o \in DOMAIN objects : Hears(o, u)
    /\ \A o \in DOMAIN objects : Hears(o, u) => objects[o].tearDowns < 2
    /\ objects' = [o \in DOMAIN objects |->
         IF Hears(o, u) THEN [objects[o] EXCEPT !.tearDowns = @ + 1] ELSE objects[o]]
    /\ strayed' = IF \E o \in DOMAIN objects : objects[o].uuid = u /\ objects[o].tearDowns > 0
                  THEN strayed \cup {u} ELSE strayed
    /\ UNCHANGED <<entry, wanted, accepts, added>>

\* Slip: the uuid stays in the set.
StaysAdded(u) == added
NoLongerAdded(u) == added \ {u}

\* _async_tear_down after the disconnect. A uuid that is not in the set, or an entry
\* without runtime data, raises before the handlers are disconnected; an entity is
\* gone all the same.
EndTearDown(o) ==
    LET u == objects[o].uuid
        raises == entry = "not_loaded" \/ u \notin added
    IN  /\ objects[o].tearDowns > 0
        /\ added' = IF raises THEN added ELSE NoLongerAdded(u)
        /\ objects' = [objects EXCEPT
             ![o].tearDowns = @ - 1,
             ![o].state = IF raises /\ u \in DynamicGroups THEN @ ELSE "gone"]
        /\ UNCHANGED <<entry, wanted, accepts, strayed>>

-----------------------------------------------------------------------------
(* The entry. *)

ChangeAllowList(list) ==
    /\ list # wanted
    /\ wanted' = list
    /\ UNCHANGED <<entry, accepts, added, objects, strayed>>

\* New runtime data, and one more discovery handler.
SetUpEntry ==
    /\ entry = "not_loaded"
    /\ Len(accepts) < MaxSetUps
    /\ entry' = "loaded"
    /\ accepts' = Append(accepts, wanted)
    /\ added' = {}
    /\ UNCHANGED <<wanted, objects, strayed>>

\* async_unload_platforms: the present platform removes its entities, once it has
\* added those it was given; groups are nobody's.
OfPlatform(o) == objects[o].via = Len(accepts) /\ objects[o].state = "live"

BeginUnload ==
    /\ entry = "loaded"
    /\ \A o \in DOMAIN objects : objects[o].state # "adding"
    /\ entry' = "unloading"
    /\ objects' = [o \in DOMAIN objects |->
         IF OfPlatform(o) THEN [objects[o] EXCEPT !.tearDowns = 1] ELSE objects[o]]
    /\ UNCHANGED <<wanted, accepts, added, strayed>>

\* Discovery is stopped and the runtime data dropped once the platforms are unloaded.
EndUnload ==
    /\ entry = "unloading"
    /\ \A o \in DOMAIN objects : OfPlatform(o) => objects[o].tearDowns = 0
    /\ entry' = "not_loaded"
    /\ added' = {}
    /\ strayed' = strayed \cup
         {u \in DynamicGroups : \E o \in DOMAIN objects : Hears(o, u)}
    /\ UNCHANGED <<wanted, accepts, objects>>

-----------------------------------------------------------------------------

RegistrationInit ==
    /\ entry = "not_loaded"
    /\ wanted \in AllowLists
    /\ accepts = <<>>
    /\ added = {}
    /\ objects = <<>>
    /\ strayed = {}

ObjectStep(o) == AddEntity(o) \/ DeleteDevice(o) \/ EndTearDown(o)

EntryStep ==
    \/ SetUpEntry
    \/ BeginUnload
    \/ EndUnload
    \/ \E list \in AllowLists : ChangeAllowList(list)

RegistrationNext ==
    \/ EntryStep
    \/ \E u \in Devices : Discovered(u) \/ Removed(u)
    \/ \E o \in DOMAIN objects : ObjectStep(o)

RegistrationSpec == RegistrationInit /\ [][RegistrationNext]_registrationVars

-----------------------------------------------------------------------------
(* Properties. *)

RegistrationTypeOK ==
    /\ entry \in {"not_loaded", "loaded", "unloading"}
    /\ wanted \in AllowLists
    /\ accepts \in Seq(AllowLists)
    /\ added \subseteq Devices
    /\ objects \in Seq(CastDevice)
    /\ strayed \subseteq DynamicGroups

\* A uuid that is in the set has an object that is alive or about to be: a device is
\* never shut out by a claim nobody holds, "so that it can dynamically be re-added
\* again" (media_player.py:242-246), whatever races between removals, discoveries and
\* unloads.
ClaimedIsHeld ==
    \A u \in added : \E o \in DOMAIN objects : objects[o].uuid = u /\ Alive(o)

\* A dynamic group has one object and so one connection, unless it was removed again
\* while its tear-down waited for the disconnect or lived through an unload
\* (_async_create_cast_device, DynamicCastGroup).
OneObjectPerGroup ==
    \A u \in DynamicGroups \ strayed : \A o, p \in DOMAIN objects :
       Hears(o, u) /\ Hears(p, u) => o = p
=============================================================================
