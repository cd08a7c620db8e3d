-------------------------------- MODULE Repairs --------------------------------
(***************************************************************************)
(* Repair issues and stale devices (issues.py, repairs.py): a listener of  *)
(* the delivery ledger with counters of its own, the sightings of devices  *)
(* it persists, and the issue registry, which outlives the manager when    *)
(* the entry is reloaded but not when Home Assistant restarts.             *)
(*                                                                         *)
(* A point in time is abstracted to its age: within STALE_DEVICE_DAYS or   *)
(* beyond it. Saving is delayed by 30 s, so nothing is left unsaved for    *)
(* that many days.                                                         *)
(***************************************************************************)
EXTENDS DeliveryOutcomes, Integers, Sequences, FiniteSets

CONSTANTS
    Devices,                        \* uuids; the registry entry of one has the same name
    Groups,                         \* speaker groups of the topology
    Templates,                      \* texts of announced templates
    FETCH_FAILURES_BEFORE_ISSUE,
    MaxRecords                      \* bound: records and reloads noted per device

ASSUME RepairsAssumption ==
    /\ FETCH_FAILURES_BEFORE_ISSUE \in Nat \ {0}
    /\ MaxRecords \in Nat

VARIABLES
    loaded,      \* the entry is set up: a manager is attached to the ledger
    failures,    \* consecutive_fetch_failures and consecutive_unreachable
    stamps,      \* last_seen and tracked_since
    stale,       \* devices with a StaleCandidate
    store,       \* what .storage/cast.health holds
    unsaved,     \* a delayed save is scheduled
    issues,      \* the issue registry
    registered,  \* devices of the entry in the device registry
    discovered,  \* topology.infos
    posted,      \* discovery responses on their way from the discovery thread
    tracked,     \* topology.groups
    sighted,     \* ghost: the age of the last response a manager handled
    lost,        \* ghost: devices whose last response a crash wiped out
    history      \* ghost: per device, the outcomes logged since the restart

managerVars == <<loaded, failures, stamps, stale>>
storeVars == <<store, unsaved>>
topologyVars == <<discovered, posted, tracked>>
ghostVars == <<sighted, lost, history>>
repairsVars == <<managerVars, storeVars, issues, registered, topologyVars, ghostVars>>

Ages == {"never", "recent", "old"}

Stamps == [last_seen : [Devices -> Ages], tracked_since : [Devices -> Ages]]

\* Outcomes with a counter and an issue of their own.
Counted == {"fetch_failed", "unreachable"}

IssueIds ==
    (Counted \cup {"stale"}) \X Devices \cup {"group_spans"} \X Groups
        \cup {"template_error"} \X Templates \cup {<<"multihomed">>}

Issues(kind, keys) == {kind} \X keys

NoFailures == [kind \in Counted |-> [d \in Devices |-> 0]]

NoStamps == [last_seen |-> [d \in Devices |-> "never"],
             tracked_since |-> [d \in Devices |-> "never"]]

-----------------------------------------------------------------------------
(* What the ledger and the announce action report. *)

\* An ok resets both counters. Slip: only that of the failed fetches.
FetchCountReset(d) == [failures EXCEPT !["fetch_failed"][d] = 0]
CountsAfterOk(d) ==
    [kind \in Counted |-> [failures[kind] EXCEPT ![d] = 0]]

CountFailure(d, outcome) ==
    LET count == failures[outcome][d] + 1
    IN  /\ failures' = [failures EXCEPT ![outcome][d] = count]
        /\ issues' = IF count >= FETCH_FAILURES_BEFORE_ISSUE
                     THEN issues \cup Issues(outcome, {d}) ELSE issues

Noted(outcome) == IF outcome \in Counted \cup {"ok"} THEN outcome ELSE "other"

\* Every other outcome leaves counters and issues alone.
OnRecord(d, outcome) ==
    /\ loaded
    /\ Len(history[d]) < MaxRecords
    /\ history' = [history EXCEPT ![d] = Append(@, Noted(outcome))]
    /\ \/ outcome \in Counted /\ CountFailure(d, outcome)
       \/ /\ outcome = "ok"
          /\ failures' = CountsAfterOk(d)
          /\ issues' = issues \ (Counted \X {d})
       \/ outcome \notin Counted \cup {"ok"} /\ UNCHANGED <<failures, issues>>
    /\ UNCHANGED <<loaded, stamps, stale, storeVars, registered, topologyVars, sighted, lost>>

\* A rendered template clears the issue of the same text, a failed one raises it.
TemplateRendered(t, resolved) ==
    /\ loaded
    /\ issues' = IF resolved THEN issues \ Issues("template_error", {t})
                 ELSE issues \cup Issues("template_error", {t})
    /\ UNCHANGED <<managerVars, storeVars, registered, topologyVars, ghostVars>>

-----------------------------------------------------------------------------
(* Sightings. *)

\* The discovery thread posts its calls into the loop in this order: the topology
\* first, the manager next, then whatever creates the device's registry entry.
DeviceDiscovered(d) ==
    /\ loaded
    /\ discovered' = discovered \cup {d}
    /\ posted' = posted \cup {d}
    /\ UNCHANGED <<managerVars, storeVars, issues, registered, tracked, ghostVars>>

DeviceSeen(d) ==
    /\ d \in posted
    /\ posted' = posted \ {d}
    /\ stamps' = [stamps EXCEPT !.last_seen[d] = "recent"]
    /\ sighted' = [sighted EXCEPT ![d] = "recent"]
    /\ lost' = lost \ {d}
    /\ unsaved' = TRUE
    /\ issues' = issues \ Issues("stale", stale \cap {d})
    /\ stale' = stale \ {d}
    /\ UNCHANGED <<loaded, failures, store, registered, discovered, tracked, history>>

DeviceRegistered(d) ==
    /\ loaded
    /\ d \in discovered \ registered
    /\ registered' = registered \cup {d}
    /\ UNCHANGED <<managerVars, storeVars, issues, topologyVars, ghostVars>>

-----------------------------------------------------------------------------
(* The checks of a probe cycle. *)

Unseen == registered \ discovered

TrackedSince ==
    [d \in Devices |->
        IF d \in Unseen /\ stamps.tracked_since[d] = "never" THEN "recent"
        ELSE stamps.tracked_since[d]]

\* The last sighting counts, the first check only without one. Slip: the reverse.
FirstTracked(d) == TrackedSince[d]
Reference(d) ==
    IF stamps.last_seen[d] # "never" THEN stamps.last_seen[d] ELSE TrackedSince[d]

Current == {d \in Unseen : Reference(d) = "old"}

\* async_check_topology and async_check_stale. The topology keeps every group it
\* ever saw; exposed: two adapters, and internal_url on Automatic.
Refresh(newGroups, spanning, exposed) ==
    /\ loaded
    /\ tracked' = tracked \cup newGroups
    /\ spanning \subseteq tracked'
    /\ stamps' = [stamps EXCEPT !.tracked_since = TrackedSince]
    /\ unsaved' = TRUE
    /\ stale' = Current
    /\ issues' =
        ((issues \ (Issues("group_spans", tracked' \ spanning)
                      \cup Issues("stale", stale \ Current)
                      \cup {<<"multihomed">>}))
            \cup Issues("group_spans", spanning) \cup Issues("stale", Current))
            \cup {id \in {<<"multihomed">>} : exposed}
    /\ UNCHANGED <<loaded, failures, store, registered, discovered, posted, ghostVars>>

\* The fix flow of repairs.py, confirmed by the user.
RemoveStaleDevice(d) ==
    /\ <<"stale", d>> \in issues
    /\ registered' = registered \ {d}
    /\ issues' = issues \ Issues("stale", {d})
    /\ UNCHANGED <<managerVars, storeVars, topologyVars, ghostVars>>

-----------------------------------------------------------------------------
(* Saving, unloading, restarting. *)

DelayedSave ==
    /\ unsaved
    /\ store' = stamps
    /\ unsaved' = FALSE
    /\ UNCHANGED <<managerVars, issues, registered, topologyVars, ghostVars>>

\* async_flush. Slip: unloading leaves it to the delayed save it cancels.
NotFlushed == store
Flushed == stamps

\* What discovery posted runs during the many awaits of unloading.
Unload ==
    /\ loaded
    /\ posted = {}
    /\ loaded' = FALSE
    /\ store' = Flushed
    /\ unsaved' = FALSE
    /\ UNCHANGED <<failures, stamps, stale, issues, registered, topologyVars, ghostVars>>

\* async_setup_entry: new tracker, new manager, async_load.
Loaded == store

NoteReload(log) == IF log = <<>> THEN log ELSE Append(log, "reload")

SetUp ==
    /\ ~loaded
    /\ \A d \in Devices : Len(history[d]) < MaxRecords
    /\ loaded' = TRUE
    /\ failures' = NoFailures
    /\ stamps' = Loaded
    /\ stale' = {}
    /\ discovered' = {}
    /\ tracked' = {}
    /\ history' = [d \in Devices |-> NoteReload(history[d])]
    /\ UNCHANGED <<storeVars, issues, registered, posted, sighted, lost>>

\* Home Assistant ends, in order (a delayed save is written) or not. The issues are
\* not persistent; the entry is set up again by SetUp.
Restart(inOrder) ==
    /\ loaded' = FALSE
    /\ store' = IF inOrder /\ unsaved THEN stamps ELSE store
    /\ unsaved' = FALSE
    /\ issues' = {}
    /\ posted' = {}
    /\ lost' = {d \in Devices : store'.last_seen[d] # sighted[d]}
    /\ history' = [d \in Devices |-> <<>>]
    /\ failures' = NoFailures
    /\ stamps' = NoStamps
    /\ stale' = {}
    /\ discovered' = {}
    /\ tracked' = {}
    /\ UNCHANGED <<registered, sighted>>

Aged(age) == IF age = "recent" THEN "old" ELSE age
AgedStamps(s) == [last_seen |-> [d \in Devices |-> Aged(s.last_seen[d])],
                  tracked_since |-> [d \in Devices |-> Aged(s.tracked_since[d])]]

\* STALE_DEVICE_DAYS pass, by which time whatever was posted or to be saved is.
DaysPass ==
    /\ ~unsaved
    /\ posted = {}
    /\ stamps' = AgedStamps(stamps)
    /\ store' = AgedStamps(store)
    /\ sighted' = [d \in Devices |-> Aged(sighted[d])]
    /\ UNCHANGED <<loaded, failures, stale, unsaved, issues, registered, topologyVars, lost,
                   history>>

-----------------------------------------------------------------------------

RepairsInit ==
    /\ loaded = TRUE
    /\ failures = NoFailures
    /\ stamps = NoStamps
    /\ stale = {}
    /\ store = NoStamps
    /\ unsaved = FALSE
    /\ issues = {}
    /\ registered \in SUBSET Devices
    /\ discovered = {}
    /\ posted = {}
    /\ tracked = {}
    /\ sighted = [d \in Devices |-> "never"]
    /\ lost = {}
    /\ history = [d \in Devices |-> <<>>]

RepairsNext ==
    \/ \E d \in Devices :
        \/ \E outcome \in DeliveryOutcome : OnRecord(d, outcome)
        \/ DeviceDiscovered(d)
        \/ DeviceSeen(d)
        \/ DeviceRegistered(d)
        \/ RemoveStaleDevice(d)
    \/ \E t \in Templates, resolved \in BOOLEAN : TemplateRendered(t, resolved)
    \/ \E newGroups, spanning \in SUBSET Groups, exposed \in BOOLEAN :
        Refresh(newGroups, spanning, exposed)
    \/ DelayedSave
    \/ Unload
    \/ SetUp
    \/ \E inOrder \in BOOLEAN : Restart(inOrder)
    \/ DaysPass

RepairsSpec == RepairsInit /\ [][RepairsNext]_repairsVars

-----------------------------------------------------------------------------
(* Properties. *)

\* Types: what a manager keeps, loads and saves, and the issues there can be.
RepairsTypeOK ==
    /\ loaded \in BOOLEAN /\ unsaved \in BOOLEAN
    /\ failures \in [Counted -> [Devices -> Nat]]
    /\ stamps \in Stamps /\ store \in Stamps
    /\ stale \subseteq Devices /\ registered \subseteq Devices
    /\ issues \subseteq IssueIds
    /\ discovered \subseteq Devices /\ posted \subseteq Devices /\ tracked \subseteq Groups
    /\ sighted \in [Devices -> Ages] /\ lost \subseteq Devices
    /\ DOMAIN history = Devices

\* Failures of one kind in records i to j, with no reload between and no ok since i.
FailedEnough(log, kind) ==
    \E i, j \in DOMAIN log :
        /\ \A k \in i..j : log[k] # "reload"
        /\ \A k \in i..Len(log) : log[k] # "ok"
        /\ Cardinality({k \in i..j : log[k] = kind}) >= FETCH_FAILURES_BEFORE_ISSUE

\* A failure issue is open exactly when the log holds enough failures of its kind
\* since the last ok, whatever other outcomes lie between them, through any number of
\* reloads of the entry, which reset the counters of async_on_record and leave the issue
\* (issues.py:126). The documents want them in a row: FailuresInARow.
FailureIssuesMatchLog ==
    \A d \in Devices, kind \in Counted :
        <<kind, d>> \in issues <=> FailedEnough(history[d], kind)

\* Through sightings, checks, saves, reloads and orderly restarts the manager knows
\* when it last saw a device; only a crash within the delay of a save loses a
\* sighting (issues.py:72-124).
SightingsRemembered ==
    loaded => \A d \in Devices : stamps.last_seen[d] # sighted[d] => d \in lost

\* A device seen within STALE_DEVICE_DAYS is not raised as stale, in this session or
\* a later one, but for a sighting lost in a crash (issues.py:224-279).
StaleMeansUnseen ==
    [][\A d \in Devices :
        <<"stale", d>> \in issues' \ issues => sighted[d] # "recent" \/ d \in lost]_repairsVars

(* What the documents say and the code does not do. *)

\* "Two consecutive `fetch_failed` outcomes for a device (any source)" (DESIGN.md:254),
\* "after two in a row" (docs/troubleshooting.md:75-76): of the outcomes that have a
\* counter, the last ones before an issue is raised are all of its kind.
Telling(log) == SelectSeq(log, LAMBDA outcome : outcome \in Counted \cup {"ok"})

FailuresInARow ==
    [][\A d \in Devices, kind \in Counted :
        <<kind, d>> \in issues' \ issues =>
           LET log == Telling(history'[d])
           IN  \A k \in Len(log) - FETCH_FAILURES_BEFORE_ISSUE + 1 .. Len(log) :
                  log[k] = kind]_repairsVars
=============================================================================
