----------------------------- MODULE RepairsProofs -----------------------------
(***************************************************************************)
(* The repair manager keeps its types, forgets no sighting but in a crash, *)
(* and so raises no device as stale that was seen recently, for any        *)
(* devices, groups and templates and any number of sessions.               *)
(***************************************************************************)
EXTENDS Repairs, FiniteSetTheorems, SequenceTheorems, TLAPS

ManagerType ==
    /\ loaded \in BOOLEAN /\ unsaved \in BOOLEAN
    /\ failures \in [Counted -> [Devices -> Nat]]
    /\ stamps \in Stamps /\ store \in Stamps
    /\ stale \subseteq Devices

WorldType ==
    /\ registered \subseteq Devices
    /\ discovered \subseteq Devices /\ posted \subseteq Devices /\ tracked \subseteq Groups
    /\ sighted \in [Devices -> Ages] /\ lost \subseteq Devices
    /\ DOMAIN history = Devices

IssueType == issues \subseteq IssueIds

LEMMA TypeParts == RepairsTypeOK <=> ManagerType /\ WorldType /\ IssueType
  BY DEF RepairsTypeOK, ManagerType, WorldType, IssueType

-----------------------------------------------------------------------------
(* Issues of each kind are issues. *)

LEMMA IssuesAreIssues ==
  /\ \A kind \in Counted \cup {"stale"}, keys \in SUBSET Devices : Issues(kind, keys) \subseteq IssueIds
  /\ \A keys \in SUBSET Groups : Issues("group_spans", keys) \subseteq IssueIds
  /\ \A keys \in SUBSET Templates : Issues("template_error", keys) \subseteq IssueIds
  /\ <<"multihomed">> \in IssueIds
  BY DEF Issues, IssueIds

\* The stamps a check leaves, and what the passing of days makes of them.
LEMMA StampTypes ==
  ASSUME ManagerType
  PROVE  /\ [stamps EXCEPT !.tracked_since = TrackedSince] \in Stamps
         /\ \A s \in Stamps : AgedStamps(s) \in Stamps
         /\ \A d \in Devices : [stamps EXCEPT !.last_seen[d] = "recent"] \in Stamps
         /\ NoStamps \in Stamps
<1>1. TrackedSince \in [Devices -> Ages]
  BY DEF ManagerType, TrackedSince, Stamps, Ages
<1>2. [stamps EXCEPT !.tracked_since = TrackedSince] \in Stamps
  BY <1>1 DEF ManagerType, Stamps
<1>3. \A s \in Stamps : AgedStamps(s) \in Stamps
  BY DEF AgedStamps, Aged, Stamps, Ages
<1>4. \A d \in Devices : [stamps EXCEPT !.last_seen[d] = "recent"] \in Stamps
  BY DEF ManagerType, Stamps, Ages
<1>5. NoStamps \in Stamps
  BY DEF NoStamps, Stamps, Ages
<1>6. QED  BY <1>2, <1>3, <1>4, <1>5

LEMMA RecordKeepsType ==
  ASSUME RepairsTypeOK, NEW d \in Devices, NEW outcome \in DeliveryOutcome, OnRecord(d, outcome)
  PROVE  RepairsTypeOK'
<1>1. ManagerType /\ WorldType /\ IssueType
  BY TypeParts
<1>2. failures' \in [Counted -> [Devices -> Nat]]
  <2>1. CASE outcome \in Counted /\ CountFailure(d, outcome)
    <3>1. failures[outcome] \in [Devices -> Nat] /\ failures[outcome][d] + 1 \in Nat
      BY <1>1, <2>1 DEF ManagerType
    <3>2. failures' = [failures EXCEPT ![outcome][d] = failures[outcome][d] + 1]
      BY <2>1 DEF CountFailure
    <3>3. QED  BY <1>1, <2>1, <3>1, <3>2 DEF ManagerType
  <2>2. CASE failures' = CountsAfterOk(d)
    <3>1. \A kind \in Counted : [failures[kind] EXCEPT ![d] = 0] \in [Devices -> Nat]
      BY <1>1 DEF ManagerType
    <3>2. QED  BY <2>2, <3>1 DEF CountsAfterOk
  <2>3. CASE UNCHANGED failures
    BY <1>1, <2>3 DEF ManagerType
  <2>4. QED  BY <2>1, <2>2, <2>3 DEF OnRecord
<1>3. issues' \subseteq IssueIds
  <2>1. CASE outcome \in Counted /\ CountFailure(d, outcome)
    <3>1. Issues(outcome, {d}) \subseteq IssueIds
      BY <2>1, IssuesAreIssues
    <3>2. QED  BY <1>1, <2>1, <3>1 DEF CountFailure, IssueType
  <2>2. CASE issues' \subseteq issues
    BY <1>1, <2>2 DEF IssueType
  <2>3. QED  BY <2>1, <2>2 DEF OnRecord
<1>4. WorldType'
  BY <1>1 DEF OnRecord, WorldType, topologyVars
<1>5. ManagerType'
  BY <1>1, <1>2 DEF OnRecord, ManagerType, storeVars
<1>6. QED  BY <1>3, <1>4, <1>5 DEF RepairsTypeOK, ManagerType, WorldType

LEMMA RefreshKeepsType ==
  ASSUME RepairsTypeOK, NEW newGroups \in SUBSET Groups, NEW spanning \in SUBSET Groups,
         NEW exposed \in BOOLEAN, Refresh(newGroups, spanning, exposed)
  PROVE  RepairsTypeOK'
<1>1. ManagerType /\ WorldType /\ IssueType
  BY TypeParts
<1>2. Current \subseteq Devices
  BY <1>1 DEF Current, Unseen, WorldType
<1>3. Issues("group_spans", spanning) \subseteq IssueIds /\ Issues("stale", Current) \subseteq IssueIds
  BY <1>2, IssuesAreIssues
<1>4. issues' \subseteq IssueIds
  BY <1>1, <1>3, IssuesAreIssues DEF Refresh, IssueType
<1>5. ManagerType'
  BY <1>1, <1>2, StampTypes DEF Refresh, ManagerType
<1>6. WorldType'
  BY <1>1 DEF Refresh, WorldType, ghostVars
<1>7. QED  BY <1>4, <1>5, <1>6 DEF RepairsTypeOK, ManagerType, WorldType

LEMMA StepKeepsType ==
  ASSUME RepairsTypeOK, [RepairsNext]_repairsVars
  PROVE  RepairsTypeOK'
<1>0. ManagerType /\ WorldType /\ IssueType
  BY TypeParts
<1>1. ASSUME NEW d \in Devices, DeviceDiscovered(d)
      PROVE  RepairsTypeOK'
  BY <1>1 DEF DeviceDiscovered, RepairsTypeOK, managerVars, storeVars, ghostVars
<1>2. ASSUME NEW d \in Devices, DeviceSeen(d)
      PROVE  RepairsTypeOK'
  <2>1. [stamps EXCEPT !.last_seen[d] = "recent"] \in Stamps
    BY <1>0, StampTypes
  <2>2. ManagerType'
    BY <1>0, <1>2, <2>1 DEF DeviceSeen, ManagerType
  <2>3. WorldType'
    BY <1>0, <1>2 DEF DeviceSeen, WorldType, Ages
  <2>4. IssueType'
    BY <1>0, <1>2 DEF DeviceSeen, IssueType
  <2>5. QED  BY <2>2, <2>3, <2>4 DEF RepairsTypeOK, ManagerType, WorldType, IssueType
<1>3. ASSUME NEW d \in Devices, DeviceRegistered(d) \/ RemoveStaleDevice(d)
      PROVE  RepairsTypeOK'
  BY <1>3 DEF DeviceRegistered, RemoveStaleDevice, RepairsTypeOK, managerVars, storeVars,
     topologyVars, ghostVars
<1>4. ASSUME NEW t \in Templates, NEW resolved \in BOOLEAN, TemplateRendered(t, resolved)
      PROVE  RepairsTypeOK'
  <2>1. Issues("template_error", {t}) \subseteq IssueIds
    BY IssuesAreIssues
  <2>2. QED  BY <1>4, <2>1 DEF TemplateRendered, RepairsTypeOK, managerVars, storeVars,
                topologyVars, ghostVars
<1>5. CASE DelayedSave
  BY <1>5 DEF DelayedSave, RepairsTypeOK, managerVars, topologyVars, ghostVars
<1>6. CASE Unload
  BY <1>6 DEF Unload, Flushed, RepairsTypeOK, topologyVars, ghostVars
<1>7. CASE SetUp
  <2>1. NoFailures \in [Counted -> [Devices -> Nat]]
    BY DEF NoFailures
  <2>2. QED  BY <1>7, <2>1 DEF SetUp, Loaded, RepairsTypeOK, storeVars
<1>8. ASSUME NEW inOrder \in BOOLEAN, Restart(inOrder)
      PROVE  RepairsTypeOK'
  <2>1. NoFailures \in [Counted -> [Devices -> Nat]]
    BY DEF NoFailures
  <2>2. NoStamps \in Stamps
    BY <1>0, StampTypes
  <2>3. QED  BY <1>8, <2>1, <2>2 DEF Restart, RepairsTypeOK
<1>9. CASE DaysPass
  <2>1. AgedStamps(stamps) \in Stamps /\ AgedStamps(store) \in Stamps
    BY <1>0, StampTypes DEF ManagerType
  <2>2. [d \in Devices |-> Aged(sighted[d])] \in [Devices -> Ages]
    BY <1>0 DEF WorldType, Aged, Ages
  <2>3. QED  BY <1>9, <2>1, <2>2 DEF DaysPass, RepairsTypeOK, topologyVars
<1>10. CASE UNCHANGED repairsVars
  BY <1>10 DEF RepairsTypeOK, repairsVars, managerVars, storeVars, topologyVars, ghostVars
<1>11. QED
  BY <1>1, <1>2, <1>3, <1>4, <1>5, <1>6, <1>7, <1>8, <1>9, <1>10, RecordKeepsType,
     RefreshKeepsType DEF RepairsNext

LEMMA InitHasType == RepairsInit => RepairsTypeOK
<1>1. NoStamps \in Stamps
  BY DEF NoStamps, Stamps, Ages
<1>2. NoFailures \in [Counted -> [Devices -> Nat]]
  BY DEF NoFailures
<1>3. [d \in Devices |-> "never"] \in [Devices -> Ages]
  BY DEF Ages
<1>4. QED  BY <1>1, <1>2, <1>3 DEF RepairsInit, RepairsTypeOK

\* Counters, stamps, candidates, store and issues keep their types through records,
\* sightings, checks, saves, reloads, restarts and crashes (issues.py:54-279).
THEOREM RepairsTypeCorrect == RepairsSpec => []RepairsTypeOK
<1>1. RepairsInit => RepairsTypeOK
  BY InitHasType
<1>2. RepairsTypeOK /\ [RepairsNext]_repairsVars => RepairsTypeOK'
  BY StepKeepsType
<1>3. QED  BY <1>1, <1>2, PTL DEF RepairsSpec

-----------------------------------------------------------------------------
(* Sightings. What a manager knows is true but for crashes; while there is none, *)
(* the same goes for what is stored, and nothing is on its way.                  *)

Truthful(s) == \A d \in Devices : s.last_seen[d] # sighted[d] => d \in lost

SightingsKept ==
    /\ loaded => Truthful(stamps)
    /\ ~loaded => ~unsaved /\ posted = {} /\ Truthful(store)

LEMMA SightingKept ==
  ASSUME RepairsTypeOK, SightingsKept, NEW d \in Devices, DeviceSeen(d)
  PROVE  SightingsKept'
<1>1. stamps.last_seen \in [Devices -> Ages] /\ sighted \in [Devices -> Ages]
  BY DEF RepairsTypeOK, Stamps
<1>2. loaded /\ loaded'
  BY DEF DeviceSeen, SightingsKept
<1>3. ASSUME NEW e \in Devices, stamps'.last_seen[e] # sighted'[e]
      PROVE  e \in lost'
  <2>1. CASE e = d
    BY <1>1, <1>3, <2>1 DEF DeviceSeen, RepairsTypeOK, Stamps
  <2>2. CASE e # d
    BY <1>1, <1>2, <1>3, <2>2 DEF DeviceSeen, SightingsKept, Truthful, RepairsTypeOK, Stamps
  <2>3. QED  BY <2>1, <2>2
<1>4. QED  BY <1>2, <1>3 DEF SightingsKept, Truthful

LEMMA AgeingKeepsTruth ==
  ASSUME DaysPass, NEW s \in Stamps, Truthful(s)
  PROVE  \A d \in Devices : AgedStamps(s).last_seen[d] # sighted'[d] => d \in lost'
  BY DEF DaysPass, AgedStamps, Truthful

LEMMA StepKeepsSightings ==
  ASSUME RepairsTypeOK, SightingsKept, [RepairsNext]_repairsVars
  PROVE  SightingsKept'
<1>1. ASSUME NEW d \in Devices, NEW outcome \in DeliveryOutcome, OnRecord(d, outcome)
      PROVE  SightingsKept'
  BY <1>1 DEF OnRecord, SightingsKept, Truthful
<1>2. ASSUME NEW d \in Devices,
             DeviceDiscovered(d) \/ DeviceRegistered(d) \/ RemoveStaleDevice(d)
      PROVE  SightingsKept'
  BY <1>2 DEF DeviceDiscovered, DeviceRegistered, RemoveStaleDevice, SightingsKept, Truthful,
     managerVars, storeVars, topologyVars, ghostVars
<1>3. ASSUME NEW t \in Templates, NEW resolved \in BOOLEAN, TemplateRendered(t, resolved)
      PROVE  SightingsKept'
  BY <1>3 DEF TemplateRendered, SightingsKept, Truthful, managerVars, storeVars,
     topologyVars, ghostVars
<1>4. ASSUME NEW newGroups \in SUBSET Groups, NEW spanning \in SUBSET Groups,
             NEW exposed \in BOOLEAN, Refresh(newGroups, spanning, exposed)
      PROVE  SightingsKept'
  <2>1. stamps'.last_seen = stamps.last_seen
    BY <1>4 DEF Refresh, RepairsTypeOK, Stamps
  <2>2. QED  BY <1>4, <2>1 DEF Refresh, SightingsKept, Truthful, ghostVars
<1>5. CASE DelayedSave
  BY <1>5 DEF DelayedSave, SightingsKept, Truthful, managerVars, topologyVars, ghostVars
<1>6. CASE Unload
  BY <1>6 DEF Unload, Flushed, SightingsKept, Truthful, topologyVars, ghostVars
<1>7. CASE SetUp
  BY <1>7 DEF SetUp, Loaded, SightingsKept, Truthful, storeVars
<1>8. ASSUME NEW inOrder \in BOOLEAN, Restart(inOrder)
      PROVE  SightingsKept'
  <2>1. /\ ~loaded' /\ ~unsaved' /\ posted' = {} /\ sighted' = sighted
        /\ lost' = {d \in Devices : store'.last_seen[d] # sighted[d]}
    BY <1>8 DEF Restart
  <2>2. QED  BY <2>1 DEF SightingsKept, Truthful
<1>9. CASE DaysPass
  <2>1. stamps \in Stamps /\ store \in Stamps
    BY DEF RepairsTypeOK
  <2>2. ASSUME NEW s \in Stamps, Truthful(s)
        PROVE  \A d \in Devices : AgedStamps(s).last_seen[d] # sighted'[d] => d \in lost'
    BY <1>9, <2>2, AgeingKeepsTruth
  <2>3. loaded => \A d \in Devices : stamps'.last_seen[d] # sighted'[d] => d \in lost'
    BY <1>9, <2>1, <2>2 DEF DaysPass, SightingsKept
  <2>4. ~loaded => \A d \in Devices : store'.last_seen[d] # sighted'[d] => d \in lost'
    BY <1>9, <2>1, <2>2 DEF DaysPass, SightingsKept
  <2>5. UNCHANGED <<loaded, unsaved, posted>>
    BY <1>9 DEF DaysPass, topologyVars
  <2>6. QED  BY <2>3, <2>4, <2>5 DEF SightingsKept, Truthful
<1>10. CASE UNCHANGED repairsVars
  BY <1>10 DEF SightingsKept, Truthful, repairsVars, managerVars, storeVars, topologyVars,
     ghostVars
<1>11. QED
  BY <1>1, <1>2, <1>3, <1>4, <1>5, <1>6, <1>7, <1>8, <1>9, <1>10, SightingKept
     DEF RepairsNext

LEMMA AlwaysKept == RepairsSpec => []SightingsKept
<1>1. RepairsInit => SightingsKept
  BY DEF RepairsInit, SightingsKept, Truthful, NoStamps
<1>2. RepairsTypeOK /\ SightingsKept /\ [RepairsNext]_repairsVars => SightingsKept'
  BY StepKeepsSightings
<1>3. QED  BY <1>1, <1>2, RepairsTypeCorrect, PTL DEF RepairsSpec

\* A loaded manager knows the last sighting of every device through saves, reloads
\* and orderly restarts; only a crash takes one away (issues.py:72-124).
THEOREM SightingsAreRemembered == RepairsSpec => []SightingsRemembered
<1>1. SightingsKept => SightingsRemembered
  BY DEF SightingsKept, Truthful, SightingsRemembered
<1>2. QED  BY <1>1, AlwaysKept, PTL

-----------------------------------------------------------------------------
(* Stale issues come only from a check, and a check raises only what it found. *)

LEMMA OnlyRefreshRaisesStale ==
  ASSUME NEW d \in Devices, [RepairsNext]_repairsVars,
         <<"stale", d>> \in issues' \ issues
  PROVE  /\ d \in Current
         /\ loaded
<1>1. ASSUME NEW e \in Devices, NEW outcome \in DeliveryOutcome, OnRecord(e, outcome)
      PROVE  FALSE
  <2>1. <<"stale", d>> \notin Issues(outcome, {e}) \/ outcome \notin Counted
    BY DEF Issues, Counted
  <2>2. QED  BY <1>1, <2>1 DEF OnRecord, CountFailure
<1>2. ASSUME NEW t \in Templates, NEW resolved \in BOOLEAN, TemplateRendered(t, resolved)
      PROVE  FALSE
  <2>1. <<"stale", d>> \notin Issues("template_error", {t})
    BY DEF Issues
  <2>2. QED  BY <1>2, <2>1 DEF TemplateRendered
<1>3. ASSUME NEW newGroups \in SUBSET Groups, NEW spanning \in SUBSET Groups,
             NEW exposed \in BOOLEAN, Refresh(newGroups, spanning, exposed)
      PROVE  d \in Current /\ loaded
  <2>1. <<"stale", d>> \notin Issues("group_spans", spanning)
    BY DEF Issues
  <2>2. <<"stale", d>> # <<"multihomed">>
    OBVIOUS
  <2>3. <<"stale", d>> \in Issues("stale", Current)
    BY <1>3, <2>1, <2>2 DEF Refresh
  <2>4. QED  BY <1>3, <2>3 DEF Issues, Refresh
<1>4. ASSUME NEW e \in Devices,
             DeviceDiscovered(e) \/ DeviceSeen(e) \/ DeviceRegistered(e) \/ RemoveStaleDevice(e)
      PROVE  FALSE
  BY <1>4 DEF DeviceDiscovered, DeviceSeen, DeviceRegistered, RemoveStaleDevice
<1>5. CASE DelayedSave \/ Unload \/ SetUp \/ DaysPass
  BY <1>5 DEF DelayedSave, Unload, SetUp, DaysPass
<1>6. ASSUME NEW inOrder \in BOOLEAN, Restart(inOrder)
      PROVE  FALSE
  BY <1>6 DEF Restart
<1>7. CASE UNCHANGED repairsVars
  BY <1>7 DEF repairsVars
<1>8. QED  BY <1>1, <1>2, <1>3, <1>4, <1>5, <1>6, <1>7 DEF RepairsNext

LEMMA FoundIsUnseen ==
  ASSUME RepairsTypeOK, SightingsKept, loaded, NEW d \in Current
  PROVE  sighted[d] # "recent" \/ d \in lost
<1>1. d \in Devices /\ Reference(d) = "old"
  BY DEF Current, Unseen, RepairsTypeOK
<1>2. CASE stamps.last_seen[d] # "never"
  <2>1. stamps.last_seen[d] = "old"
    BY <1>1, <1>2 DEF Reference
  <2>2. QED  BY <1>1, <2>1 DEF SightingsKept, Truthful
<1>3. CASE stamps.last_seen[d] = "never"
  BY <1>1, <1>3 DEF SightingsKept, Truthful
<1>4. QED  BY <1>2, <1>3

\* No device seen within STALE_DEVICE_DAYS is raised as stale, in whatever session,
\* unless a crash took its last sighting (issues.py:224-279).
THEOREM StaleDevicesAreUnseen == RepairsSpec => StaleMeansUnseen
<1>1. RepairsTypeOK /\ SightingsKept /\ [RepairsNext]_repairsVars =>
        [\A d \in Devices :
           <<"stale", d>> \in issues' \ issues => sighted[d] # "recent" \/ d \in lost]_repairsVars
  BY OnlyRefreshRaisesStale, FoundIsUnseen
<1>2. QED  BY <1>1, RepairsTypeCorrect, AlwaysKept, PTL DEF RepairsSpec, StaleMeansUnseen

-----------------------------------------------------------------------------
(* Failure issues. A counter counts the failures since the last ok or reload,  *)
(* the issue those since any reload: appending a record changes both alike.    *)

Marks == Counted \cup {"ok", "other", "reload"}

Failed(log, i, j, kind) == {k \in i..j : log[k] = kind}

\* n failures of the kind since position i, where the counting began.
CountsFrom(log, i, kind, n) ==
    /\ i = 1 \/ log[i - 1] \in {"ok", "reload"}
    /\ \A k \in i..Len(log) : log[k] \notin {"ok", "reload"}
    /\ n = Cardinality(Failed(log, i, Len(log), kind))

CountsRun(log, kind, n) == \E i \in 1..(Len(log) + 1) : CountsFrom(log, i, kind, n)

LEMMA FailedIsFinite ==
  ASSUME NEW log, NEW kind, NEW i \in Nat, NEW j \in Nat
  PROVE  /\ IsFiniteSet(Failed(log, i, j, kind))
         /\ Cardinality(Failed(log, i, j, kind)) \in Nat
         /\ \A T \in SUBSET Failed(log, i, j, kind) :
               IsFiniteSet(T) /\ Cardinality(T) <= Cardinality(Failed(log, i, j, kind))
<1>1. IsFiniteSet(i..j)
  BY FS_Interval
<1>2. Failed(log, i, j, kind) \in SUBSET (i..j)
  BY DEF Failed
<1>3. IsFiniteSet(Failed(log, i, j, kind))
  BY <1>1, <1>2, FS_Subset
<1>4. QED  BY <1>3, FS_CardinalityType, FS_Subset

\* The failures between two positions, before and after one more mark.
LEMMA FailedAfterAppend ==
  ASSUME NEW log \in Seq(Marks), NEW x \in Marks, NEW kind \in Counted,
         NEW i \in 1..(Len(log) + 1)
  PROVE  LET longer == Append(log, x)
         IN  /\ Len(longer) = Len(log) + 1
             /\ longer[Len(log) + 1] = x
             /\ \A k \in 1..Len(log) : longer[k] = log[k]
             /\ \A j \in 1..Len(log) : Failed(longer, i, j, kind) = Failed(log, i, j, kind)
             /\ Failed(longer, i, Len(log) + 1, kind) =
                   Failed(log, i, Len(log), kind) \cup (IF x = kind THEN {Len(log) + 1} ELSE {})
<1> DEFINE longer == Append(log, x)
<1>1. /\ Len(longer) = Len(log) + 1 /\ longer[Len(log) + 1] = x
      /\ \A k \in 1..Len(log) : longer[k] = log[k]
  BY AppendProperties
<1>2. Len(log) \in Nat
  BY LenProperties
<1>3. \A j \in 1..Len(log) : Failed(longer, i, j, kind) = Failed(log, i, j, kind)
  BY <1>1, <1>2 DEF Failed
<1>4. i..(Len(log) + 1) = (i..Len(log)) \cup {Len(log) + 1}
  BY <1>2
<1>5. \A k \in i..Len(log) : longer[k] = log[k]
  BY <1>1, <1>2
<1>6. Failed(longer, i, Len(log) + 1, kind) =
        Failed(log, i, Len(log), kind) \cup (IF x = kind THEN {Len(log) + 1} ELSE {})
  BY <1>1, <1>4, <1>5, Zenon DEF Failed
<1>7. QED  BY <1>1, <1>3, <1>6

\* An ok or a reload starts the count anew.
LEMMA ReloadStartsCount ==
  ASSUME NEW log \in Seq(Marks), NEW x \in {"ok", "reload"}, NEW kind \in Counted
  PROVE  CountsRun(Append(log, x), kind, 0)
<1> DEFINE longer == Append(log, x)
<1>0. Len(log) \in Nat /\ x \in Marks
  BY LenProperties DEF Marks
<1>1. Len(longer) = Len(log) + 1 /\ longer[Len(log) + 1] = x
  BY <1>0, AppendProperties
<1>2. (Len(log) + 2)..(Len(log) + 1) = {} /\ (Len(log) + 2) - 1 = Len(log) + 1
  BY <1>0
<1>3. Failed(longer, Len(log) + 2, Len(longer), kind) = {}
  BY <1>1, <1>2 DEF Failed
<1>4. longer[(Len(log) + 2) - 1] \in {"ok", "reload"}
  BY <1>1, <1>2
<1>5. \A k \in (Len(log) + 2)..Len(longer) : longer[k] \notin {"ok", "reload"}
  BY <1>1, <1>2
<1>6. CountsFrom(longer, Len(log) + 2, kind, 0)
  BY <1>3, <1>4, <1>5, FS_EmptySet, Zenon DEF CountsFrom
<1>7. Len(log) + 2 \in 1..(Len(longer) + 1)
  BY <1>0, <1>1
<1>8. QED  BY <1>6, <1>7 DEF CountsRun

LEMMA RunAfterAppend ==
  ASSUME NEW log \in Seq(Marks), NEW x \in Marks, NEW kind \in Counted, NEW n,
         CountsRun(log, kind, n)
  PROVE  CountsRun(Append(log, x), kind,
                   IF x \in {"ok", "reload"} THEN 0 ELSE IF x = kind THEN n + 1 ELSE n)
<1> DEFINE longer == Append(log, x)
<1>0. Len(log) \in Nat
  BY LenProperties
<1>1. CASE x \in {"ok", "reload"}
  BY <1>1, ReloadStartsCount
<1>2. CASE x \notin {"ok", "reload"}
  <2>1. PICK i \in 1..(Len(log) + 1) : CountsFrom(log, i, kind, n)
    BY DEF CountsRun
  <2>2. /\ Len(longer) = Len(log) + 1 /\ longer[Len(log) + 1] = x
        /\ \A k \in 1..Len(log) : longer[k] = log[k]
        /\ Failed(longer, i, Len(log) + 1, kind) =
              Failed(log, i, Len(log), kind) \cup (IF x = kind THEN {Len(log) + 1} ELSE {})
    BY FailedAfterAppend
  <2>3. i \in 1..(Len(longer) + 1) /\ (i = 1 \/ longer[i - 1] \in {"ok", "reload"})
    BY <1>0, <2>1, <2>2 DEF CountsFrom
  <2>4. \A k \in i..Len(longer) : longer[k] \notin {"ok", "reload"}
    BY <1>0, <1>2, <2>1, <2>2 DEF CountsFrom
  <2>5. Len(log) + 1 \notin Failed(log, i, Len(log), kind)
    BY <1>0 DEF Failed
  <2>6. Cardinality(Failed(longer, i, Len(longer), kind)) = IF x = kind THEN n + 1 ELSE n
    BY <1>0, <2>1, <2>2, <2>5, FailedIsFinite, FS_AddElement DEF CountsFrom
  <2>7. QED  BY <1>2, <2>3, <2>4, <2>6 DEF CountsRun, CountsFrom
<1>3. QED  BY <1>1, <1>2

EnoughAt(log, i, j, kind) ==
    /\ \A k \in i..j : log[k] # "reload"
    /\ \A k \in i..Len(log) : log[k] # "ok"
    /\ Cardinality(Failed(log, i, j, kind)) >= FETCH_FAILURES_BEFORE_ISSUE

\* An issue's condition after one more mark.
LEMMA EnoughAfterAppend ==
  ASSUME NEW log \in Seq(Marks), NEW x \in Marks, NEW kind \in Counted
  PROVE  /\ x = "ok" => ~FailedEnough(Append(log, x), kind)
         /\ x # "ok" /\ FailedEnough(log, kind) => FailedEnough(Append(log, x), kind)
         /\ x \notin {kind, "ok"} /\ FailedEnough(Append(log, x), kind) => FailedEnough(log, kind)
<1> DEFINE longer == Append(log, x)
           last == Len(log) + 1
<1>1. /\ Len(log) \in Nat /\ Len(longer) = last
      /\ longer[last] = x /\ \A k \in 1..Len(log) : longer[k] = log[k]
  BY AppendProperties, LenProperties
<1>2. /\ FailedEnough(log, kind) <=> \E i, j \in 1..Len(log) : EnoughAt(log, i, j, kind)
      /\ FailedEnough(longer, kind) <=> \E i, j \in 1..last : EnoughAt(longer, i, j, kind)
  <2>1. DOMAIN log = 1..Len(log) /\ DOMAIN longer = 1..last
    BY AppendProperties, LenProperties, <1>1
  <2>2. QED  BY <2>1, Zenon DEF FailedEnough, EnoughAt, Failed
<1>3. \A i \in 1..last :
        /\ \A j \in 1..Len(log) : Failed(longer, i, j, kind) = Failed(log, i, j, kind)
        /\ x # kind => Failed(longer, i, last, kind) = Failed(log, i, Len(log), kind)
  <2>1. ASSUME NEW i \in 1..last
        PROVE  /\ \A j \in 1..Len(log) : Failed(longer, i, j, kind) = Failed(log, i, j, kind)
               /\ Failed(longer, i, last, kind) =
                     Failed(log, i, Len(log), kind) \cup (IF x = kind THEN {last} ELSE {})
    BY FailedAfterAppend
  <2>2. QED  BY <2>1
<1> HIDE DEF longer
<1>4. ASSUME x = "ok"
      PROVE  ~FailedEnough(longer, kind)
  <2>1. \A i, j \in 1..last : ~EnoughAt(longer, i, j, kind)
    BY <1>1, <1>4 DEF EnoughAt
  <2>2. QED  BY <1>2, <2>1
<1>5. ASSUME x # "ok", FailedEnough(log, kind)
      PROVE  FailedEnough(longer, kind)
  <2>1. PICK i \in 1..Len(log), j \in 1..Len(log) : EnoughAt(log, i, j, kind)
    BY <1>2, <1>5
  <2>2. i \in 1..last /\ j \in 1..last /\ Failed(longer, i, j, kind) = Failed(log, i, j, kind)
    BY <1>1, <1>3
  <2>3. /\ \A k \in i..j : longer[k] # "reload"
        /\ \A k \in i..Len(longer) : longer[k] # "ok"
    BY <1>1, <1>5, <2>1 DEF EnoughAt
  <2>4. EnoughAt(longer, i, j, kind)
    BY <2>1, <2>2, <2>3 DEF EnoughAt
  <2>5. QED  BY <1>2, <2>2, <2>4
<1>6. ASSUME x \notin {kind, "ok"}, FailedEnough(longer, kind)
      PROVE  FailedEnough(log, kind)
  <2>1. PICK i \in 1..last, j \in 1..last : EnoughAt(longer, i, j, kind)
    BY <1>2, <1>6
  <2>2. Cardinality(Failed(longer, i, j, kind)) # 0
    BY <2>1, RepairsAssumption DEF EnoughAt
  <2>3. Failed(longer, i, j, kind) # {}
    BY <2>2, FS_EmptySet
  <2>4. PICK k \in i..j : longer[k] = kind
    BY <2>3 DEF Failed
  <2>5. k \in 1..Len(log) /\ i \in 1..Len(log)
    BY <1>1, <1>6, <2>4
  <2>6. \A m \in i..Len(log) : longer[m] = log[m] /\ longer[m] # "ok"
    BY <1>1, <2>1, <2>5 DEF EnoughAt
  <2>7. CASE j = last
    <3>1. Failed(longer, i, j, kind) = Failed(log, i, Len(log), kind)
      BY <1>3, <1>6, <2>7
    <3>2. \A m \in i..Len(log) : log[m] # "reload"
      BY <1>1, <2>1, <2>5, <2>6, <2>7 DEF EnoughAt
    <3>3. EnoughAt(log, i, Len(log), kind)
      BY <2>1, <2>6, <3>1, <3>2 DEF EnoughAt
    <3>4. Len(log) \in 1..Len(log)
      BY <1>1, <2>5
    <3>5. QED  BY <1>2, <2>5, <3>3, <3>4
  <2>8. CASE j # last
    <3>1. j \in 1..Len(log)
      BY <1>1, <2>8
    <3>2. Failed(longer, i, j, kind) = Failed(log, i, j, kind)
      BY <1>3, <3>1
    <3>3. \A m \in i..j : log[m] # "reload"
      BY <1>1, <2>1, <2>5, <3>1 DEF EnoughAt
    <3>4. EnoughAt(log, i, j, kind)
      BY <2>1, <2>6, <3>2, <3>3 DEF EnoughAt
    <3>5. QED  BY <1>2, <2>5, <3>1, <3>4
  <2>9. QED  BY <2>7, <2>8
<1>7. QED  BY <1>4, <1>5, <1>6 DEF longer

\* One more failure makes enough exactly if there were or it is the last one missing.
LEMMA OneMoreFailure ==
  ASSUME NEW log \in Seq(Marks), NEW kind \in Counted, NEW n, CountsRun(log, kind, n)
  PROVE  FailedEnough(Append(log, kind), kind) <=>
            FailedEnough(log, kind) \/ n + 1 >= FETCH_FAILURES_BEFORE_ISSUE
<1> DEFINE longer == Append(log, kind)
           last == Len(log) + 1
<1>0. kind \in Marks /\ kind \notin {"ok", "reload"}
  BY DEF Marks, Counted
<1>1. /\ Len(log) \in Nat /\ Len(longer) = last
      /\ longer[last] = kind /\ \A k \in 1..Len(log) : longer[k] = log[k]
  BY <1>0, AppendProperties, LenProperties
<1>2. /\ FailedEnough(log, kind) <=> \E i, j \in 1..Len(log) : EnoughAt(log, i, j, kind)
      /\ FailedEnough(longer, kind) <=> \E i, j \in 1..last : EnoughAt(longer, i, j, kind)
  <2>1. DOMAIN log = 1..Len(log) /\ DOMAIN longer = 1..last
    BY <1>0, AppendProperties, LenProperties, <1>1
  <2>2. QED  BY <2>1, Zenon DEF FailedEnough, EnoughAt, Failed
<1>3. PICK start \in 1..last : CountsFrom(log, start, kind, n)
  BY DEF CountsRun
<1>4. ASSUME NEW i \in 1..last
      PROVE  /\ \A j \in 1..Len(log) : Failed(longer, i, j, kind) = Failed(log, i, j, kind)
             /\ Failed(longer, i, last, kind) = Failed(log, i, Len(log), kind) \cup {last}
  BY <1>0, FailedAfterAppend
<1>5. n \in Nat /\ Cardinality(Failed(longer, start, last, kind)) = n + 1
  <2>1. last \notin Failed(log, start, Len(log), kind)
    BY <1>1 DEF Failed
  <2>2. QED  BY <1>1, <1>3, <1>4, <2>1, FailedIsFinite, FS_AddElement DEF CountsFrom
<1>6. FailedEnough(log, kind) => FailedEnough(longer, kind)
  BY <1>0, EnoughAfterAppend
<1> HIDE DEF longer
<1>7. ASSUME n + 1 >= FETCH_FAILURES_BEFORE_ISSUE
      PROVE  FailedEnough(longer, kind)
  <2>1. \A k \in start..last : longer[k] \notin {"ok", "reload"}
    BY <1>0, <1>1, <1>3 DEF CountsFrom
  <2>2. EnoughAt(longer, start, last, kind)
    BY <1>1, <1>5, <1>7, <2>1 DEF EnoughAt
  <2>3. last \in 1..last
    BY <1>1
  <2>4. QED  BY <1>2, <2>2, <2>3
<1>8. ASSUME FailedEnough(longer, kind)
      PROVE  FailedEnough(log, kind) \/ n + 1 >= FETCH_FAILURES_BEFORE_ISSUE
  <2>1. PICK i \in 1..last, j \in 1..last : EnoughAt(longer, i, j, kind)
    BY <1>2, <1>8
  <2>2. CASE j = last
    <3>1. start <= i
      <4>1. SUFFICES ASSUME i < start PROVE FALSE
        BY <1>1
      <4>2. start - 1 \in i..Len(log) /\ log[start - 1] \in {"ok", "reload"}
        BY <1>1, <1>3, <4>1 DEF CountsFrom
      <4>3. longer[start - 1] \in {"ok", "reload"} /\ start - 1 \in i..last
        BY <1>1, <4>2
      <4>4. QED  BY <1>1, <2>1, <2>2, <4>3 DEF EnoughAt
    <3>2. Failed(longer, i, last, kind) \in SUBSET Failed(longer, start, last, kind)
      BY <1>1, <3>1 DEF Failed
    <3>3. Cardinality(Failed(longer, i, last, kind)) <= n + 1
      BY <1>1, <1>5, <3>2, FailedIsFinite
    <3>4. Cardinality(Failed(longer, i, last, kind)) \in Nat
      BY <1>1, FailedIsFinite
    <3>5. QED  BY <1>5, <2>1, <2>2, <3>3, <3>4, RepairsAssumption DEF EnoughAt
  <2>3. CASE j # last
    <3>1. j \in 1..Len(log) /\ Failed(longer, i, j, kind) = Failed(log, i, j, kind)
      BY <1>1, <1>4, <2>3
    <3>2. Cardinality(Failed(longer, i, j, kind)) # 0
      BY <2>1, RepairsAssumption DEF EnoughAt
    <3>3. Failed(longer, i, j, kind) # {}
      BY <3>2, FS_EmptySet
    <3>4. i \in 1..Len(log)
      BY <1>1, <3>1, <3>3 DEF Failed
    <3>5. /\ \A m \in i..j : log[m] # "reload"
          /\ \A m \in i..Len(log) : log[m] # "ok"
      BY <1>1, <2>1, <3>1, <3>4 DEF EnoughAt
    <3>6. EnoughAt(log, i, j, kind)
      BY <2>1, <3>1, <3>5 DEF EnoughAt
    <3>7. QED  BY <1>2, <3>1, <3>4, <3>6
  <2>4. QED  BY <2>2, <2>3
<1>9. QED  BY <1>6, <1>7, <1>8 DEF longer

CountersRun == \A d \in Devices, kind \in Counted : CountsRun(history[d], kind, failures[kind][d])

IssuesFollow ==
    /\ history \in [Devices -> Seq(Marks)]
    /\ loaded => CountersRun
    /\ FailureIssuesMatchLog

LEMMA NothingFailed ==
  ASSUME NEW kind \in Counted
  PROVE  CountsRun(<<>>, kind, 0) /\ ~FailedEnough(<<>>, kind)
<1>1. 1..0 = {} /\ Len(<<>>) = 0 /\ DOMAIN <<>> = {}
  OBVIOUS
<1>2. Failed(<<>>, 1, 0, kind) = {}
  BY <1>1 DEF Failed
<1>3. CountsFrom(<<>>, 1, kind, 0)
  BY <1>1, <1>2, FS_EmptySet, Zenon DEF CountsFrom
<1>4. CountsRun(<<>>, kind, 0)
  BY <1>1, <1>3 DEF CountsRun
<1>5. QED  BY <1>1, <1>4, Zenon DEF FailedEnough

\* What one record does to the counter and the issue of one kind.
LEMMA RecordMovesBoth ==
  ASSUME RepairsTypeOK, IssuesFollow, NEW d \in Devices, NEW outcome \in DeliveryOutcome,
         OnRecord(d, outcome), NEW kind \in Counted
  PROVE  /\ CountsRun(history'[d], kind, failures'[kind][d])
         /\ <<kind, d>> \in issues' <=> FailedEnough(history'[d], kind)
<1> DEFINE log == history[d]
           mark == Noted(outcome)
<1>1. /\ log \in Seq(Marks) /\ mark \in Marks /\ mark # "reload"
      /\ history'[d] = Append(log, mark)
  BY DEF IssuesFollow, OnRecord, Noted, Marks, Counted
<1>2. /\ CountsRun(log, kind, failures[kind][d])
      /\ <<kind, d>> \in issues <=> FailedEnough(log, kind)
  BY DEF IssuesFollow, CountersRun, FailureIssuesMatchLog, OnRecord
<1>3. CountsRun(Append(log, mark), kind,
                IF mark \in {"ok", "reload"} THEN 0
                ELSE IF mark = kind THEN failures[kind][d] + 1 ELSE failures[kind][d])
  BY <1>1, <1>2, RunAfterAppend
<1>4. failures \in [Counted -> [Devices -> Nat]]
  BY DEF RepairsTypeOK
<1>5. kind \notin {"ok", "reload"}
  BY DEF Counted
<1>6. CASE outcome = kind /\ CountFailure(d, outcome)
  <2>1. mark = kind
    BY <1>6 DEF Noted
  <2>2. failures'[kind][d] = failures[kind][d] + 1
    BY <1>4, <1>6 DEF CountFailure
  <2>3. <<kind, d>> \in Issues(kind, {d})
    BY DEF Issues
  <2>4. <<kind, d>> \in issues' <=>
           <<kind, d>> \in issues \/ failures[kind][d] + 1 >= FETCH_FAILURES_BEFORE_ISSUE
    BY <1>6, <2>3 DEF CountFailure
  <2>5. FailedEnough(Append(log, kind), kind) <=>
           FailedEnough(log, kind) \/ failures[kind][d] + 1 >= FETCH_FAILURES_BEFORE_ISSUE
    BY <1>1, <1>2, OneMoreFailure
  <2>6. QED  BY <1>1, <1>2, <1>3, <1>5, <2>1, <2>2, <2>4, <2>5
<1>7. CASE outcome \in Counted \ {kind} /\ CountFailure(d, outcome)
  <2>1. mark = outcome /\ mark # kind /\ mark # "ok"
    BY <1>7 DEF Noted, Counted
  <2>2. failures'[kind][d] = failures[kind][d]
    BY <1>4, <1>7 DEF CountFailure
  <2>3. <<kind, d>> \notin Issues(outcome, {d})
    BY <1>7 DEF Issues
  <2>4. <<kind, d>> \in issues' <=> <<kind, d>> \in issues
    BY <1>7, <2>3 DEF CountFailure
  <2>5. QED  BY <1>1, <1>2, <1>3, <2>1, <2>2, <2>4, EnoughAfterAppend
<1>8. CASE outcome = "ok" /\ failures' = CountsAfterOk(d) /\ issues' = issues \ (Counted \X {d})
  <2>1. mark = "ok"
    BY <1>8 DEF Noted
  <2>2. failures'[kind][d] = 0
    BY <1>4, <1>8 DEF CountsAfterOk
  <2>3. <<kind, d>> \notin issues'
    BY <1>8
  <2>4. ~FailedEnough(Append(log, mark), kind)
    BY <1>1, <2>1, EnoughAfterAppend
  <2>5. QED  BY <1>1, <1>3, <2>1, <2>2, <2>3, <2>4
<1>9. CASE outcome \notin Counted \cup {"ok"} /\ UNCHANGED <<failures, issues>>
  <2>1. mark = "other" /\ mark # kind
    BY <1>9 DEF Noted, Counted
  <2>2. QED  BY <1>1, <1>2, <1>3, <1>9, <2>1, EnoughAfterAppend
<1>10. QED  BY <1>6, <1>7, <1>8, <1>9 DEF OnRecord

\* And to those of other devices: nothing.
LEMMA RecordLeavesOthers ==
  ASSUME RepairsTypeOK, IssuesFollow, NEW d \in Devices, NEW outcome \in DeliveryOutcome,
         OnRecord(d, outcome), NEW e \in Devices \ {d}, NEW kind \in Counted
  PROVE  /\ failures'[kind][e] = failures[kind][e] /\ history'[e] = history[e]
         /\ <<kind, e>> \in issues' <=> <<kind, e>> \in issues
<1>1. history'[e] = history[e]
  BY DEF OnRecord, IssuesFollow
<1>2. failures \in [Counted -> [Devices -> Nat]]
  BY DEF RepairsTypeOK
<1>3. CASE outcome \in Counted /\ CountFailure(d, outcome)
  <2>1. <<kind, e>> \notin Issues(outcome, {d})
    BY DEF Issues
  <2>2. QED  BY <1>1, <1>2, <1>3, <2>1 DEF CountFailure
<1>4. CASE failures' = CountsAfterOk(d) /\ issues' = issues \ (Counted \X {d})
  BY <1>1, <1>2, <1>4 DEF CountsAfterOk
<1>5. CASE UNCHANGED <<failures, issues>>
  BY <1>1, <1>5
<1>6. QED  BY <1>3, <1>4, <1>5 DEF OnRecord

LEMMA RecordKeepsIssues ==
  ASSUME RepairsTypeOK, IssuesFollow, NEW d \in Devices, NEW outcome \in DeliveryOutcome,
         OnRecord(d, outcome)
  PROVE  IssuesFollow'
<1>1. history' \in [Devices -> Seq(Marks)]
  <2>1. Append(history[d], Noted(outcome)) \in Seq(Marks)
    BY AppendProperties DEF IssuesFollow, Noted, Marks
  <2>2. QED  BY <2>1 DEF OnRecord, IssuesFollow
<1>2. loaded
  BY DEF OnRecord
<1>3. ASSUME NEW e \in Devices, NEW kind \in Counted
      PROVE  /\ CountsRun(history'[e], kind, failures'[kind][e])
             /\ <<kind, e>> \in issues' <=> FailedEnough(history'[e], kind)
  <2>1. CASE e = d
    BY <2>1, RecordMovesBoth
  <2>2. CASE e # d
    <3>1. /\ CountsRun(history[e], kind, failures[kind][e])
          /\ <<kind, e>> \in issues <=> FailedEnough(history[e], kind)
      BY <1>2 DEF IssuesFollow, CountersRun, FailureIssuesMatchLog
    <3>2. QED  BY <2>2, <3>1, RecordLeavesOthers
  <2>3. QED  BY <2>1, <2>2
<1>4. QED  BY <1>1, <1>3 DEF IssuesFollow, CountersRun, FailureIssuesMatchLog

\* A reload starts the counters anew and leaves the issues.
LEMMA SetUpKeepsIssues ==
  ASSUME IssuesFollow, SetUp
  PROVE  IssuesFollow'
<1>1. "reload" \in Marks
  BY DEF Marks
<1>2. ASSUME NEW d \in Devices
      PROVE  /\ history'[d] \in Seq(Marks)
             /\ \/ history'[d] = history[d] /\ history[d] = <<>>
                \/ history'[d] = Append(history[d], "reload")
  <2>1. history[d] \in Seq(Marks) /\ history'[d] = NoteReload(history[d])
    BY DEF IssuesFollow, SetUp
  <2>2. QED  BY <1>1, <2>1, AppendProperties DEF NoteReload
<1>3. ASSUME NEW d \in Devices, NEW kind \in Counted
      PROVE  /\ CountsRun(history'[d], kind, 0)
             /\ FailedEnough(history'[d], kind) <=> FailedEnough(history[d], kind)
  <2>1. CASE history'[d] = history[d] /\ history[d] = <<>>
    BY <2>1, NothingFailed
  <2>2. CASE history'[d] = Append(history[d], "reload")
    <3>1. history[d] \in Seq(Marks) /\ kind # "reload"
      BY DEF IssuesFollow, Counted
    <3>2. CountsRun(history'[d], kind, 0)
      BY <1>1, <2>2, <3>1, ReloadStartsCount
    <3>3. QED  BY <1>1, <2>2, <3>1, <3>2, EnoughAfterAppend
  <2>3. QED  BY <1>2, <2>1, <2>2
<1>4. \A d \in Devices, kind \in Counted : failures'[kind][d] = 0
  BY DEF SetUp, NoFailures
<1>5. history' \in [Devices -> Seq(Marks)]
  BY <1>2 DEF SetUp
<1>6. issues' = issues
  BY DEF SetUp
<1>7. QED
  BY <1>3, <1>4, <1>5, <1>6 DEF IssuesFollow, CountersRun, FailureIssuesMatchLog

LEMMA RestartKeepsIssues ==
  ASSUME NEW inOrder \in BOOLEAN, Restart(inOrder)
  PROVE  IssuesFollow'
<1>1. /\ ~loaded' /\ issues' = {} /\ history' = [d \in Devices |-> <<>>]
  BY DEF Restart
<1>2. <<>> \in Seq(Marks)
  OBVIOUS
<1>3. QED  BY <1>1, <1>2, NothingFailed DEF IssuesFollow, FailureIssuesMatchLog

\* Every other step leaves counters, log and failure issues alone.
Elsewhere ==
    /\ UNCHANGED <<failures, history>>
    /\ loaded' => loaded
    /\ \A kind \in Counted, d \in Devices : <<kind, d>> \in issues' <=> <<kind, d>> \in issues

LEMMA OthersKeepIssues ==
  ASSUME IssuesFollow, Elsewhere
  PROVE  IssuesFollow'
  BY DEF IssuesFollow, Elsewhere, CountersRun, FailureIssuesMatchLog

LEMMA OtherIssues ==
  ASSUME NEW kind \in Counted, NEW d \in Devices
  PROVE  /\ \A keys : <<kind, d>> \notin Issues("stale", keys)
         /\ \A keys : <<kind, d>> \notin Issues("group_spans", keys)
         /\ \A keys : <<kind, d>> \notin Issues("template_error", keys)
         /\ <<kind, d>> # <<"multihomed">>
  BY DEF Issues, Counted

LEMMA StepKeepsIssues ==
  ASSUME RepairsTypeOK, IssuesFollow, [RepairsNext]_repairsVars
  PROVE  IssuesFollow'
<1>1. ASSUME NEW d \in Devices, DeviceDiscovered(d) \/ DeviceRegistered(d)
      PROVE  Elsewhere
  BY <1>1 DEF DeviceDiscovered, DeviceRegistered, Elsewhere, managerVars, ghostVars
<1>2. ASSUME NEW d \in Devices, DeviceSeen(d)
      PROVE  Elsewhere
  BY <1>2, OtherIssues DEF DeviceSeen, Elsewhere
<1>3. ASSUME NEW d \in Devices, RemoveStaleDevice(d)
      PROVE  Elsewhere
  BY <1>3, OtherIssues DEF RemoveStaleDevice, Elsewhere, managerVars, ghostVars
<1>4. ASSUME NEW t \in Templates, NEW resolved \in BOOLEAN, TemplateRendered(t, resolved)
      PROVE  Elsewhere
  BY <1>4, OtherIssues DEF TemplateRendered, Elsewhere, managerVars, ghostVars
<1>5. ASSUME NEW newGroups \in SUBSET Groups, NEW spanning \in SUBSET Groups,
             NEW exposed \in BOOLEAN, Refresh(newGroups, spanning, exposed)
      PROVE  Elsewhere
  BY <1>5, OtherIssues DEF Refresh, Elsewhere, ghostVars
<1>6. CASE DelayedSave \/ Unload \/ DaysPass
  BY <1>6, OthersKeepIssues DEF DelayedSave, Unload, DaysPass, Elsewhere, managerVars, ghostVars
<1>7. CASE UNCHANGED repairsVars
  BY <1>7, OthersKeepIssues DEF repairsVars, managerVars, ghostVars, Elsewhere
<1>8. QED
  BY <1>1, <1>2, <1>3, <1>4, <1>5, <1>6, <1>7, RecordKeepsIssues, SetUpKeepsIssues,
     RestartKeepsIssues, OthersKeepIssues DEF RepairsNext

\* A failure issue is open exactly when the log since the restart holds enough
\* failures of its kind since the last ok, with no reload between them, for any
\* threshold, devices and number of reloads (issues.py:126-167).
THEOREM FailureIssuesFollowLog == RepairsSpec => []FailureIssuesMatchLog
<1>1. RepairsInit => IssuesFollow
  <2>1. <<>> \in Seq(Marks)
    OBVIOUS
  <2>2. QED  BY <2>1, NothingFailed DEF RepairsInit, IssuesFollow, CountersRun,
                FailureIssuesMatchLog, NoFailures
<1>2. RepairsTypeOK /\ IssuesFollow /\ [RepairsNext]_repairsVars => IssuesFollow'
  BY StepKeepsIssues
<1>3. IssuesFollow => FailureIssuesMatchLog
  BY DEF IssuesFollow
<1>4. QED  BY <1>1, <1>2, <1>3, RepairsTypeCorrect, PTL DEF RepairsSpec
=============================================================================
