-------------------------- MODULE RegistrationProofs --------------------------
(***************************************************************************)
(* Proofs about the devices of the entry, for any number of devices,       *)
(* set-ups and objects: a claim in added_cast_devices always has a holder, *)
(* and a dynamic group one object at a time.                               *)
(***************************************************************************)
EXTENDS Registration, TLAPS

\* Groups are nobody's platform's, and without runtime data nothing is claimed.
EntryKnown ==
    /\ entry = "not_loaded" => added = {}
    /\ entry # "not_loaded" => Len(accepts) > 0
    /\ \A o \in DOMAIN objects :
          objects[o].uuid \in DynamicGroups => objects[o].via = 0 /\ objects[o].state # "adding"

\* A group that did not stray is claimed while it is alive, and is torn down once.
GroupsClaimed ==
    \A u \in DynamicGroups \ strayed : \A o \in DOMAIN objects :
       objects[o].uuid = u =>
          /\ Alive(o) => u \in added
          /\ objects[o].tearDowns > 0 => Alive(o) /\ objects[o].tearDowns = 1

RegistrationInv ==
    /\ RegistrationTypeOK
    /\ ClaimedIsHeld
    /\ EntryKnown
    /\ GroupsClaimed
    /\ OneObjectPerGroup

USE RegistrationAssumption

-----------------------------------------------------------------------------
(* Types. *)

\* A changed object is an object again.
LEMMA ChangedObject ==
    ASSUME NEW x \in CastDevice, NEW s \in {"adding", "live", "gone"}, NEW n \in Nat
    PROVE  /\ [x EXCEPT !.state = s] \in CastDevice
           /\ [x EXCEPT !.tearDowns = n] \in CastDevice
           /\ [x EXCEPT !.tearDowns = n, !.state = s] \in CastDevice
BY DEF CastDevice

\* And so is the sequence it is in.
LEMMA ChangedSequence ==
    ASSUME NEW T, NEW s \in Seq(T), NEW i \in DOMAIN s, NEW x \in T
    PROVE  [s EXCEPT ![i] = x] \in Seq(T)
OBVIOUS

\* Types, for what happens to one object.
LEMMA ObjectType ==
    ASSUME RegistrationTypeOK, NEW o \in DOMAIN objects, ObjectStep(o)
    PROVE  RegistrationTypeOK'
<1>1. objects[o] \in CastDevice
  BY DEF RegistrationTypeOK
<1>2. CASE AddEntity(o)
  <2> DEFINE s == IF \E p \in DOMAIN objects :
                        objects[p].uuid = objects[o].uuid /\ objects[p].state = "live"
                  THEN "gone" ELSE "live"
             new == [objects[o] EXCEPT !.state = s]
  <2>1. new \in CastDevice
    BY <1>1, ChangedObject
  <2>2. objects' = [objects EXCEPT ![o] = new]
    BY <1>2 DEF AddEntity
  <2>3. objects' \in Seq(CastDevice)
    <3> HIDE DEF new
    <3> QED BY <2>1, <2>2, ChangedSequence DEF RegistrationTypeOK
  <2> QED BY <1>2, <2>3 DEF AddEntity, RegistrationTypeOK
<1>3. CASE DeleteDevice(o)
  <2>1. [objects[o] EXCEPT !.tearDowns = 1] \in CastDevice
    BY <1>1, ChangedObject
  <2>2. objects' = [objects EXCEPT ![o] = [objects[o] EXCEPT !.tearDowns = 1]]
    BY <1>3 DEF DeleteDevice
  <2> QED BY <1>3, <2>1, <2>2, ChangedSequence DEF DeleteDevice, RegistrationTypeOK
<1>4. CASE EndTearDown(o)
  <2> DEFINE raises == entry = "not_loaded" \/ objects[o].uuid \notin added
             left == objects[o].tearDowns - 1
             after == IF raises /\ objects[o].uuid \in DynamicGroups THEN objects[o].state
                      ELSE "gone"
             new == [objects[o] EXCEPT !.tearDowns = left, !.state = after]
  <2>1. left \in Nat /\ after \in {"adding", "live", "gone"}
    BY <1>1, <1>4 DEF EndTearDown, CastDevice
  <2>2. new \in CastDevice
    BY <1>1, <2>1, ChangedObject
  <2>3. objects' = [objects EXCEPT ![o] = new]
    BY <1>1, <1>4 DEF EndTearDown, RegistrationTypeOK
  <2>4. objects' \in Seq(CastDevice)
    <3> HIDE DEF new
    <3> QED BY <2>2, <2>3, ChangedSequence DEF RegistrationTypeOK
  <2>5. added' \subseteq Devices
    BY <1>4 DEF EndTearDown, NoLongerAdded, RegistrationTypeOK
  <2> QED BY <1>4, <2>4, <2>5 DEF EndTearDown, RegistrationTypeOK
<1> QED BY <1>2, <1>3, <1>4 DEF ObjectStep

\* Types, for discovery and removal.
LEMMA DeviceType ==
    ASSUME RegistrationTypeOK, NEW u \in Devices, Discovered(u) \/ Removed(u)
    PROVE  RegistrationTypeOK'
<1>1. CASE Discovered(u)
  <2>1. PICK g \in SetUps : objects' = Append(objects, Created(u, g))
    BY <1>1 DEF Discovered
  <2>2. Created(u, g) \in CastDevice
    <3>1. g \in Nat
      BY <2>1 DEF SetUps, RegistrationTypeOK
    <3> QED BY <3>1 DEF Created, CastDevice
  <2>3. objects' \in Seq(CastDevice)
    BY <2>1, <2>2 DEF RegistrationTypeOK
  <2>4. added' \subseteq Devices
    BY <1>1 DEF Discovered, RegistrationTypeOK
  <2> QED BY <1>1, <2>3, <2>4 DEF Discovered, RegistrationTypeOK
<1>2. CASE Removed(u)
  <2>1. objects' \in Seq(CastDevice)
    <3>1. ASSUME NEW o \in DOMAIN objects
          PROVE  objects'[o] \in CastDevice
      <4>1. o \in DOMAIN objects
        BY <1>2, <3>1 DEF Removed
      <4>2. objects[o] \in CastDevice
        BY <4>1 DEF RegistrationTypeOK
      <4>3. objects[o].tearDowns + 1 \in Nat
        BY <4>2 DEF CastDevice
      <4> QED BY <1>2, <4>1, <4>2, <4>3, ChangedObject DEF Removed
    <3>2. DOMAIN objects' = 1 .. Len(objects) /\ Len(objects) \in Nat
      BY <1>2 DEF Removed, RegistrationTypeOK
    <3>3. objects' = [o \in 1 .. Len(objects) |-> objects'[o]]
      BY <1>2, <3>2 DEF Removed
    <3> QED BY <3>1, <3>2, <3>3 DEF RegistrationTypeOK
  <2>2. strayed' \subseteq DynamicGroups
    BY <1>2 DEF Removed, RegistrationTypeOK
  <2> QED BY <1>2, <2>1, <2>2 DEF Removed, RegistrationTypeOK
<1> QED BY <1>1, <1>2

\* Types, for the entry.
LEMMA EntryType ==
    ASSUME RegistrationTypeOK, EntryStep
    PROVE  RegistrationTypeOK'
<1>1. CASE SetUpEntry
  BY <1>1 DEF SetUpEntry, RegistrationTypeOK
<1>2. CASE BeginUnload
  <2>1. ASSUME NEW o \in DOMAIN objects
        PROVE  objects'[o] \in CastDevice
    <3>1. objects[o] \in CastDevice
      BY <2>1 DEF RegistrationTypeOK
    <3> QED BY <1>2, <3>1, ChangedObject DEF BeginUnload
  <2>2. DOMAIN objects' = 1 .. Len(objects) /\ Len(objects) \in Nat
    BY <1>2 DEF BeginUnload, RegistrationTypeOK
  <2>3. objects' = [o \in 1 .. Len(objects) |-> objects'[o]]
    BY <1>2, <2>2 DEF BeginUnload
  <2>4. objects' \in Seq(CastDevice)
    BY <2>1, <2>2, <2>3 DEF RegistrationTypeOK
  <2> QED BY <1>2, <2>4 DEF BeginUnload, RegistrationTypeOK
<1>3. CASE EndUnload
  BY <1>3 DEF EndUnload, RegistrationTypeOK
<1>4. ASSUME NEW list \in AllowLists, ChangeAllowList(list)
      PROVE  RegistrationTypeOK'
  BY <1>4 DEF ChangeAllowList, RegistrationTypeOK
<1> QED BY <1>1, <1>2, <1>3, <1>4 DEF EntryStep

\* The types of the registration hold throughout.
LEMMA RegistrationTypes ==
    RegistrationTypeOK /\ [RegistrationNext]_registrationVars => RegistrationTypeOK'
<1>1. ASSUME RegistrationTypeOK, UNCHANGED registrationVars PROVE RegistrationTypeOK'
  BY <1>1 DEF RegistrationTypeOK, registrationVars
<1> QED BY <1>1, ObjectType, DeviceType, EntryType DEF RegistrationNext

\* An object's step leaves the others alone, and its own uuid and platform.
LEMMA ObjectChange ==
    ASSUME RegistrationTypeOK, NEW o \in DOMAIN objects, ObjectStep(o)
    PROVE  /\ DOMAIN objects' = DOMAIN objects
           /\ \A p \in DOMAIN objects \ {o} : objects'[p] = objects[p]
           /\ \A p \in DOMAIN objects :
                 /\ objects'[p].uuid = objects[p].uuid /\ objects'[p].via = objects[p].via
                 /\ objects'[p].state = "adding" => objects[p].state = "adding"
<1>1. objects[o] \in CastDevice
  BY DEF RegistrationTypeOK
<1>2. CASE AddEntity(o)
  BY <1>1, <1>2 DEF AddEntity, CastDevice
<1>3. CASE DeleteDevice(o)
  BY <1>1, <1>3 DEF DeleteDevice, CastDevice
<1>4. CASE EndTearDown(o)
  BY <1>1, <1>4 DEF EndTearDown, CastDevice
<1> QED BY <1>2, <1>3, <1>4 DEF ObjectStep

-----------------------------------------------------------------------------
(* A claim has a holder. *)

\* What one object goes through keeps every claim held: whoever ends, gives up its
\* claim, leaves it to the live entity of the same uuid, or had lost it before.
LEMMA ObjectHolds ==
    ASSUME RegistrationTypeOK, ClaimedIsHeld, EntryKnown,
           NEW o \in DOMAIN objects, ObjectStep(o)
    PROVE  ClaimedIsHeld'
<1> SUFFICES ASSUME NEW u \in added'
             PROVE  \E p \in DOMAIN objects' : objects'[p].uuid = u /\ objects'[p].state # "gone"
  BY DEF ClaimedIsHeld, Alive
<1>1. /\ DOMAIN objects' = DOMAIN objects
      /\ \A p \in DOMAIN objects : objects'[p].uuid = objects[p].uuid
      /\ \A p \in DOMAIN objects \ {o} : objects'[p] = objects[p]
  BY ObjectChange
<1>2. u \in added
  BY DEF ObjectStep, AddEntity, DeleteDevice, EndTearDown, NoLongerAdded
<1>3. PICK p \in DOMAIN objects : objects[p].uuid = u /\ objects[p].state # "gone"
  BY <1>2 DEF ClaimedIsHeld, Alive
<1>4. CASE AddEntity(o)
  <2>1. CASE \E q \in DOMAIN objects : objects[q].uuid = objects[o].uuid /\ objects[q].state = "live"
    BY <1>1, <1>3, <1>4, <2>1 DEF AddEntity, RegistrationTypeOK, CastDevice
  <2>2. CASE ~ \E q \in DOMAIN objects : objects[q].uuid = objects[o].uuid /\ objects[q].state = "live"
    BY <1>1, <1>3, <1>4, <2>2 DEF AddEntity, RegistrationTypeOK, CastDevice
  <2> QED BY <2>1, <2>2
<1>5. CASE DeleteDevice(o)
  BY <1>1, <1>3, <1>5 DEF DeleteDevice, RegistrationTypeOK, CastDevice
<1>6. CASE EndTearDown(o)
  <2>1. u # objects[o].uuid
    BY <1>2, <1>6 DEF EndTearDown, NoLongerAdded, EntryKnown
  <2>2. p \in DOMAIN objects \ {o}
    BY <1>3, <2>1
  <2> QED BY <1>1, <1>3, <2>2
<1> QED BY <1>4, <1>5, <1>6 DEF ObjectStep

\* Discovery makes the holder of the claim it takes, and a removal only begins.
LEMMA DeviceHolds ==
    ASSUME RegistrationTypeOK, ClaimedIsHeld, NEW u \in Devices, Discovered(u) \/ Removed(u)
    PROVE  ClaimedIsHeld'
<1> SUFFICES ASSUME NEW w \in added'
             PROVE  \E p \in DOMAIN objects' : objects'[p].uuid = w /\ objects'[p].state # "gone"
  BY DEF ClaimedIsHeld, Alive
<1>1. CASE Discovered(u)
  <2>1. PICK g \in SetUps : objects' = Append(objects, Created(u, g))
    BY <1>1 DEF Discovered
  <2>2. Created(u, g).uuid = u /\ Created(u, g).state # "gone"
    BY DEF Created
  <2>3. CASE w = u
    <3> DEFINE new == Len(objects) + 1
    <3>1. new \in DOMAIN objects' /\ objects'[new] = Created(u, g)
      BY <2>1 DEF RegistrationTypeOK
    <3> QED BY <2>2, <2>3, <3>1
  <2>4. CASE w # u
    <3>1. PICK p \in DOMAIN objects : objects[p].uuid = w /\ objects[p].state # "gone"
      BY <1>1, <2>4 DEF Discovered, ClaimedIsHeld, Alive
    <3>2. p \in DOMAIN objects' /\ objects'[p] = objects[p]
      BY <2>1 DEF RegistrationTypeOK
    <3> QED BY <3>1, <3>2
  <2> QED BY <2>3, <2>4
<1>2. CASE Removed(u)
  <2>1. PICK p \in DOMAIN objects : objects[p].uuid = w /\ objects[p].state # "gone"
    BY <1>2 DEF Removed, ClaimedIsHeld, Alive
  <2>2. p \in DOMAIN objects' /\ objects[p] \in CastDevice
    BY <1>2 DEF Removed, RegistrationTypeOK
  <2>3. objects'[p].uuid = objects[p].uuid /\ objects'[p].state = objects[p].state
    BY <1>2, <2>2 DEF Removed, CastDevice
  <2> QED BY <2>1, <2>2, <2>3
<1> QED BY <1>1, <1>2

\* The entry begins tear-downs, or drops every claim.
LEMMA EntryHolds ==
    ASSUME RegistrationTypeOK, ClaimedIsHeld, EntryStep
    PROVE  ClaimedIsHeld'
<1> SUFFICES ASSUME NEW w \in added'
             PROVE  \E p \in DOMAIN objects' : objects'[p].uuid = w /\ objects'[p].state # "gone"
  BY DEF ClaimedIsHeld, Alive
<1>1. w \in added /\ (BeginUnload \/ UNCHANGED objects)
  BY DEF EntryStep, SetUpEntry, BeginUnload, EndUnload, ChangeAllowList
<1>2. PICK p \in DOMAIN objects : objects[p].uuid = w /\ objects[p].state # "gone"
  BY <1>1 DEF ClaimedIsHeld, Alive
<1>3. CASE UNCHANGED objects
  BY <1>2, <1>3
<1>4. CASE BeginUnload
  <2>1. p \in DOMAIN objects' /\ objects[p] \in CastDevice
    BY <1>4 DEF BeginUnload, RegistrationTypeOK
  <2>2. objects'[p].uuid = objects[p].uuid /\ objects'[p].state = objects[p].state
    BY <1>4, <2>1 DEF BeginUnload, CastDevice
  <2> QED BY <1>2, <2>1, <2>2
<1> QED BY <1>1, <1>3, <1>4

-----------------------------------------------------------------------------
(* What the entry knows. *)

\* Groups stay nobody's platform's, and claims end with the runtime data.
LEMMA EntryKnowledge ==
    ASSUME RegistrationTypeOK, EntryKnown, RegistrationNext
    PROVE  EntryKnown'
<1>1. ASSUME NEW o \in DOMAIN objects, ObjectStep(o)
      PROVE  EntryKnown'
  <2>1. UNCHANGED <<entry, accepts>> /\ added' \subseteq added
    BY <1>1 DEF ObjectStep, AddEntity, DeleteDevice, EndTearDown, NoLongerAdded
  <2> QED BY <1>1, <2>1, ObjectChange DEF EntryKnown
<1>2. ASSUME NEW u \in Devices, Discovered(u)
      PROVE  EntryKnown'
  <2>1. PICK g \in SetUps : objects' = Append(objects, Created(u, g))
    BY <1>2 DEF Discovered
  <2>2. u \in DynamicGroups => Created(u, g).via = 0 /\ Created(u, g).state # "adding"
    BY DEF Created
  <2>3. Created(u, g).uuid = u
    BY DEF Created
  <2>4. \A o \in DOMAIN objects' :
           \/ objects'[o] = Created(u, g)
           \/ o \in DOMAIN objects /\ objects'[o] = objects[o]
    BY <2>1 DEF RegistrationTypeOK
  <2>5. UNCHANGED <<entry, accepts>> /\ entry # "not_loaded"
    BY <1>2 DEF Discovered
  <2> QED BY <2>2, <2>3, <2>4, <2>5 DEF EntryKnown
<1>3. ASSUME NEW u \in Devices, Removed(u)
      PROVE  EntryKnown'
  <2>1. DOMAIN objects' = DOMAIN objects
    BY <1>3 DEF Removed
  <2>2. \A p \in DOMAIN objects :
           /\ objects'[p].uuid = objects[p].uuid /\ objects'[p].via = objects[p].via
           /\ objects'[p].state = objects[p].state
    BY <1>3 DEF Removed, RegistrationTypeOK, CastDevice
  <2> QED BY <1>3, <2>1, <2>2 DEF EntryKnown, Removed
<1>4. CASE BeginUnload
  <2>1. DOMAIN objects' = DOMAIN objects
    BY <1>4 DEF BeginUnload
  <2>2. \A p \in DOMAIN objects :
           /\ objects'[p].uuid = objects[p].uuid /\ objects'[p].via = objects[p].via
           /\ objects'[p].state = objects[p].state
    BY <1>4 DEF BeginUnload, RegistrationTypeOK, CastDevice
  <2> QED BY <1>4, <2>1, <2>2 DEF EntryKnown, BeginUnload
<1>5. CASE SetUpEntry
  BY <1>5 DEF EntryKnown, SetUpEntry, RegistrationTypeOK
<1>6. CASE EndUnload
  BY <1>6 DEF EntryKnown, EndUnload
<1>7. ASSUME NEW list \in AllowLists, ChangeAllowList(list)
      PROVE  EntryKnown'
  BY <1>7 DEF EntryKnown, ChangeAllowList
<1> QED BY <1>1, <1>2, <1>3, <1>4, <1>5, <1>6, <1>7 DEF RegistrationNext, EntryStep

-----------------------------------------------------------------------------
(* One object per group. *)

\* A group's object is never waiting for a platform.
LEMMA GroupIsLive ==
    ASSUME RegistrationTypeOK, EntryKnown, NEW o \in DOMAIN objects,
           objects[o].uuid \in DynamicGroups, Alive(o)
    PROVE  objects[o].state = "live"
<1>1. objects[o] \in CastDevice
  BY DEF RegistrationTypeOK
<1> QED BY <1>1 DEF EntryKnown, Alive, CastDevice

\* What one object of a group that did not stray goes through: only its tear-down,
\* which finds the claim and ends the object.
LEMMA GroupTearDown ==
    ASSUME RegistrationInv, NEW o \in DOMAIN objects, ObjectStep(o),
           objects[o].uuid \in DynamicGroups \ strayed
    PROVE  objects'[o].state = "gone" /\ objects'[o].tearDowns = 0
<1>1. objects[o] \in CastDevice
  BY DEF RegistrationInv, RegistrationTypeOK
<1>2. EndTearDown(o)
  BY DEF ObjectStep, AddEntity, DeleteDevice, RegistrationInv, EntryKnown, RegistrationAssumption
<1>3. Alive(o) /\ objects[o].tearDowns = 1
  BY <1>1, <1>2 DEF EndTearDown, RegistrationInv, GroupsClaimed
<1>4. objects[o].uuid \in added /\ entry # "not_loaded"
  BY <1>3 DEF RegistrationInv, GroupsClaimed, EntryKnown
<1> DEFINE new == [objects[o] EXCEPT !.tearDowns = @ - 1, !.state = "gone"]
<1>5. objects' = [objects EXCEPT ![o] = new]
  BY <1>1, <1>2, <1>4 DEF EndTearDown, RegistrationInv, RegistrationTypeOK
<1>6. new.state = "gone" /\ new.tearDowns = 0
  BY <1>1, <1>3 DEF CastDevice
<1> QED BY <1>5, <1>6

\* An object's step leaves the groups that did not stray claimed, one object each.
LEMMA ObjectGroups ==
    ASSUME RegistrationInv, NEW o \in DOMAIN objects, ObjectStep(o)
    PROVE  GroupsClaimed' /\ OneObjectPerGroup'
<1> USE DEF RegistrationInv
<1>1. strayed' = strayed /\ added \ {objects[o].uuid} \subseteq added'
  BY DEF ObjectStep, AddEntity, DeleteDevice, EndTearDown, NoLongerAdded
<1>2. ASSUME NEW u \in DynamicGroups \ strayed, NEW p \in DOMAIN objects,
             objects[p].uuid = u
      PROVE  \/ objects'[p].state = "gone" /\ objects'[p].tearDowns = 0
             \/ objects'[p] = objects[p] /\ (Alive(p) => u \in added')
  <2>1. CASE p = o
    BY <1>2, <2>1, GroupTearDown
  <2>2. CASE p # o /\ objects[o].uuid # u
    BY <1>1, <1>2, <2>2, ObjectChange DEF GroupsClaimed
  <2>3. CASE p # o /\ objects[o].uuid = u
    <3>1. Alive(o)
      <4>1. EndTearDown(o)
        BY <1>2, <2>3 DEF ObjectStep, AddEntity, DeleteDevice, EntryKnown, RegistrationAssumption
      <4> QED BY <1>2, <2>3, <4>1 DEF EndTearDown, GroupsClaimed
    <3>2. objects[o].state = "live"
      BY <1>2, <2>3, <3>1, GroupIsLive
    <3>3. Alive(p) => objects[p].state = "live"
      BY <1>2, GroupIsLive
    <3>4. ~ Alive(p)
      BY <1>2, <2>3, <3>2, <3>3 DEF OneObjectPerGroup, Hears
    <3> QED BY <2>3, <3>4, ObjectChange
  <2> QED BY <2>1, <2>2, <2>3
<1>3. \A p \in DOMAIN objects : objects'[p].uuid = objects[p].uuid
  BY ObjectChange
<1>4. DOMAIN objects' = DOMAIN objects
  BY ObjectChange
<1>5. GroupsClaimed'
  <2> SUFFICES ASSUME NEW u \in DynamicGroups \ strayed, NEW p \in DOMAIN objects,
                      objects[p].uuid = u
               PROVE  /\ objects'[p].state # "gone" => u \in added'
                      /\ objects'[p].tearDowns > 0 =>
                           objects'[p].state # "gone" /\ objects'[p].tearDowns = 1
    BY <1>1, <1>3, <1>4 DEF GroupsClaimed, Alive
  <2> QED BY <1>2 DEF GroupsClaimed, Alive
<1>6. OneObjectPerGroup'
  BY <1>1, <1>2, <1>3, <1>4 DEF OneObjectPerGroup, Hears
<1> QED BY <1>5, <1>6

\* A group is discovered only while nothing of it is alive.
LEMMA DiscoveredGroups ==
    ASSUME RegistrationInv, NEW u \in Devices, Discovered(u)
    PROVE  GroupsClaimed' /\ OneObjectPerGroup'
<1> USE DEF RegistrationInv
<1>1. PICK g \in SetUps : objects' = Append(objects, Created(u, g))
  BY DEF Discovered
<1>2. Created(u, g).uuid = u /\ Created(u, g).tearDowns = 0
  BY DEF Created
<1>3. strayed' = strayed /\ added' = added \cup {u} /\ u \notin added
  BY DEF Discovered, IsNew
<1> DEFINE new == Len(objects) + 1
<1>4. /\ DOMAIN objects' = DOMAIN objects \cup {new} /\ new \notin DOMAIN objects
      /\ objects'[new] = Created(u, g)
      /\ \A p \in DOMAIN objects : objects'[p] = objects[p]
  BY <1>1 DEF RegistrationTypeOK
<1>5. \A w \in DynamicGroups \ strayed : \A p \in DOMAIN objects :
         objects[p].uuid = w /\ w = u => objects[p].state = "gone"
  BY <1>3 DEF GroupsClaimed, Alive
<1> HIDE DEF new
<1>6. GroupsClaimed'
  <2> SUFFICES ASSUME NEW w \in DynamicGroups \ strayed, NEW p \in DOMAIN objects',
                      objects'[p].uuid = w
               PROVE  /\ objects'[p].state # "gone" => w \in added'
                      /\ objects'[p].tearDowns > 0 =>
                           objects'[p].state # "gone" /\ objects'[p].tearDowns = 1
    BY <1>3 DEF GroupsClaimed, Alive
  <2>1. CASE p = new
    BY <1>2, <1>3, <1>4, <2>1
  <2>2. CASE p \in DOMAIN objects
    BY <1>3, <1>4, <2>2 DEF GroupsClaimed, Alive
  <2> QED BY <1>4, <2>1, <2>2
<1>7. OneObjectPerGroup'
  <2> SUFFICES ASSUME NEW w \in DynamicGroups \ strayed,
                      NEW p \in DOMAIN objects', NEW q \in DOMAIN objects',
                      objects'[p].uuid = w, objects'[p].state = "live",
                      objects'[q].uuid = w, objects'[q].state = "live"
               PROVE  p = q
    BY <1>3 DEF OneObjectPerGroup, Hears
  <2>1. CASE w = u
    BY <1>4, <1>5, <2>1
  <2>2. CASE w # u
    BY <1>2, <1>4, <2>2 DEF OneObjectPerGroup, Hears
  <2> QED BY <2>1, <2>2
<1> QED BY <1>6, <1>7

\* A second removal before the first tear-down is over strays the group; a first one
\* only begins the tear-down.
LEMMA RemovedGroups ==
    ASSUME RegistrationInv, NEW u \in Devices, Removed(u)
    PROVE  GroupsClaimed' /\ OneObjectPerGroup'
<1> USE DEF RegistrationInv
<1>1. DOMAIN objects' = DOMAIN objects /\ added' = added /\ strayed \subseteq strayed'
  BY DEF Removed
<1>2. ASSUME NEW p \in DOMAIN objects
      PROVE  /\ objects'[p].uuid = objects[p].uuid /\ objects'[p].state = objects[p].state
             /\ objects[p].uuid # u => objects'[p] = objects[p]
             /\ \/ objects'[p] = objects[p]
                \/ /\ objects[p].state = "live"
                   /\ objects'[p].tearDowns = objects[p].tearDowns + 1
  <2>1. objects[p] \in CastDevice
    BY DEF RegistrationTypeOK
  <2> QED BY <2>1 DEF Removed, Hears, CastDevice
<1>3. u \in strayed' \/ \A p \in DOMAIN objects : objects[p].uuid = u => objects[p].tearDowns = 0
  <2>1. ASSUME NEW p \in DOMAIN objects PROVE objects[p].tearDowns \in Nat
    <3>1. objects[p] \in CastDevice
      BY DEF RegistrationTypeOK
    <3> QED BY <3>1 DEF CastDevice
  <2> QED BY <2>1 DEF Removed
<1>4. GroupsClaimed'
  <2> SUFFICES ASSUME NEW w \in DynamicGroups \ strayed', NEW p \in DOMAIN objects,
                      objects[p].uuid = w
               PROVE  /\ objects'[p].state # "gone" => w \in added
                      /\ objects'[p].tearDowns > 0 =>
                           objects'[p].state # "gone" /\ objects'[p].tearDowns = 1
    BY <1>1, <1>2 DEF GroupsClaimed, Alive
  <2>1. CASE w # u
    BY <1>1, <1>2, <2>1 DEF GroupsClaimed, Alive
  <2>2. CASE w = u
    BY <1>1, <1>2, <1>3, <2>2 DEF GroupsClaimed, Alive
  <2> QED BY <2>1, <2>2
<1>5. OneObjectPerGroup'
  BY <1>1, <1>2 DEF OneObjectPerGroup, Hears
<1> QED BY <1>4, <1>5

\* The entry never ends a group: one that is alive when it unloads has strayed.
LEMMA EntryGroups ==
    ASSUME RegistrationInv, EntryStep
    PROVE  GroupsClaimed' /\ OneObjectPerGroup'
<1> USE DEF RegistrationInv
<1>1. CASE SetUpEntry
  BY <1>1 DEF SetUpEntry, EntryKnown, GroupsClaimed, OneObjectPerGroup, Hears, Alive
<1>2. CASE BeginUnload
  <2>1. DOMAIN objects' = DOMAIN objects /\ added' = added /\ strayed' = strayed
    BY <1>2 DEF BeginUnload
  <2>2. ASSUME NEW p \in DOMAIN objects
        PROVE  /\ objects'[p].uuid = objects[p].uuid
               /\ objects[p].uuid \in DynamicGroups => objects'[p] = objects[p]
    <3>1. objects[p] \in CastDevice
      BY DEF RegistrationTypeOK
    <3>2. Len(accepts) > 0
      BY <1>2 DEF BeginUnload, EntryKnown
    <3> QED BY <1>2, <3>1, <3>2 DEF BeginUnload, OfPlatform, EntryKnown, CastDevice
  <2>3. GroupsClaimed'
    BY <2>1, <2>2 DEF GroupsClaimed, Alive
  <2>4. OneObjectPerGroup'
    BY <2>1, <2>2 DEF OneObjectPerGroup, Hears
  <2> QED BY <2>3, <2>4
<1>3. CASE EndUnload
  <2>1. UNCHANGED objects /\ strayed \subseteq strayed'
    BY <1>3 DEF EndUnload
  <2>2. \A u \in DynamicGroups \ strayed' : \A p \in DOMAIN objects :
           objects[p].uuid = u => ~ Alive(p)
    BY <1>3, GroupIsLive DEF EndUnload, Hears
  <2>3. GroupsClaimed'
    BY <2>1, <2>2 DEF GroupsClaimed, Alive
  <2>4. OneObjectPerGroup'
    BY <2>1 DEF OneObjectPerGroup, Hears
  <2> QED BY <2>3, <2>4
<1>4. ASSUME NEW list \in AllowLists, ChangeAllowList(list)
      PROVE  GroupsClaimed' /\ OneObjectPerGroup'
  BY <1>4 DEF ChangeAllowList, GroupsClaimed, OneObjectPerGroup, Hears, Alive
<1> QED BY <1>1, <1>2, <1>3, <1>4 DEF EntryStep

-----------------------------------------------------------------------------
(* Theorems. *)

\* The invariant holds throughout.
LEMMA RegistrationInvariant == RegistrationSpec => []RegistrationInv
<1>1. RegistrationInit => RegistrationInv
  BY DEF RegistrationInit, RegistrationInv, RegistrationTypeOK, ClaimedIsHeld, EntryKnown,
         GroupsClaimed, OneObjectPerGroup, Devices
<1>2. ASSUME RegistrationInv, [RegistrationNext]_registrationVars
      PROVE  RegistrationInv'
  <2>1. RegistrationTypeOK'
    BY <1>2, RegistrationTypes DEF RegistrationInv
  <2>2. CASE UNCHANGED registrationVars
    BY <1>2, <2>1, <2>2 DEF RegistrationInv, registrationVars, ClaimedIsHeld, EntryKnown,
         GroupsClaimed, OneObjectPerGroup, Hears, Alive
  <2>3. CASE RegistrationNext
    <3>1. ClaimedIsHeld'
      BY <1>2, <2>3, ObjectHolds, DeviceHolds, EntryHolds DEF RegistrationNext, RegistrationInv
    <3>2. EntryKnown'
      BY <1>2, <2>3, EntryKnowledge DEF RegistrationInv
    <3>3. GroupsClaimed' /\ OneObjectPerGroup'
      BY <1>2, <2>3, ObjectGroups, DiscoveredGroups, RemovedGroups, EntryGroups
         DEF RegistrationNext
    <3> QED BY <2>1, <3>1, <3>2, <3>3 DEF RegistrationInv
  <2> QED BY <1>2, <2>2, <2>3
<1> QED BY <1>1, <1>2, PTL DEF RegistrationSpec

\* A uuid in added_cast_devices has an object that is alive: no device is shut out by
\* a claim nobody holds (_async_create_cast_device, _async_tear_down).
THEOREM ClaimsAreHeld == RegistrationSpec => []ClaimedIsHeld
<1>1. RegistrationInv => ClaimedIsHeld
  BY DEF RegistrationInv
<1> QED BY <1>1, RegistrationInvariant, PTL

\* A dynamic group has one object unless it strayed (DynamicCastGroup).
THEOREM GroupsHaveOneObject == RegistrationSpec => []OneObjectPerGroup
<1>1. RegistrationInv => OneObjectPerGroup
  BY DEF RegistrationInv
<1> QED BY <1>1, RegistrationInvariant, PTL
=============================================================================
