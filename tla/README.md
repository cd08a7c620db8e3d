# A TLA+ model of the Cast integration

`custom_components/cast` is a fork of Home Assistant's Google Cast integration
that adds *delivery monitoring*: for every play request it wants one honest
verdict (played, could not be fetched, unreachable, nothing heard), it probes
idle speakers with a silent clip, and it raises repairs from what it learns.
This directory models the part that decides those verdicts and what stands around
it (sensors, repairs, discovery, the devices of the entry and their connections, the
options and what is played), checks it with TLC on small instances and proves its
main properties with TLAPS for all of them.

Contents: [inventory](#the-system) · [modules](#the-modules) ·
[runs](#what-is-checked) · [proofs](#what-is-proved) ·
[disagreements](#where-code-and-documents-disagree) ·
[limits](#what-is-not-modelled) · [plan](#plan).

## The system

Everything runs on Home Assistant's event loop except pychromecast's socket
threads, its discovery threads and the executor jobs that call its blocking
API. A `@callback` runs to completion on the loop; a coroutine may be overtaken
at every `await`; a thread hands its results to the loop with
`call_soon_threadsafe`. That is the source of every hard case below.

| Component | State | Operations | Hard behaviour | Correct when |
| --- | --- | --- | --- | --- |
| **Delivery ledger** `health.py` | per device: `pending` request and its timer, last outcome, counters; one log | begin a request, apply a media status, a failed load, an exception or a record, expire, shut down | timer, status, exception and a newer request race for one verdict; handlers know the request only as "the pending one" | one verdict per request; no timer outlives its request; counters agree with the log |
| **Playback services** `media_player.py` | `_request_source`, the coroutines in flight | `play_media`, `announce`, the tracked `quick_play` behind a 45 s watchdog, socket-thread callbacks | calls of one entity run concurrently and share the flag; a `quick_play` outlives its request | flag follows announcements; an error told has its verdict; calls end |
| **Probe coordinator** `coordinator.py` | `_running`, the probe tasks, `circuit_open_until` | refresh and decide per device, run a probe, quit the app, react to every record | a refresh during a probe, playback during a probe, unload during a probe | a pending probe has its task and no refresh settles it; an open circuit is silent; the circuit is what the log says; probes end |
| **Repairs** `issues.py`, `repairs.py` | its own failure counters, last-seen times (persisted with a delay), stale candidates | record listener, template errors, topology and stale checks, fix flow | counters reset by other rules than the ledger's; issues outlive the manager in a reload, sightings outlive both unless a crash beats the save | failure issues are what the log says; no sighting is forgotten; no recently seen device is stale |
| **Discovery** `discovery.py` | a process-wide lock, the browser, its stop listener | set-up in the executor, callbacks from discovery threads, stop on unload or on Home Assistant's stop event | stop event racing an unload, unload racing set-up | one browser, under the lock; the lock is lost, and with it discovery, only by a job that an unload overtook |
| **Cast connection** `media_player.py`, `helpers.py` | chromecast object, status listener, availability | connect, disconnect, invalidate, socket callbacks | availability written from two threads; both invalidate; removal during a connect | what the entity shows agrees with its connection once neither thread is in the middle of a step; disconnecting ends |
| **Devices and dynamic groups** `media_player.py`, `__init__.py` | `added_cast_devices`, the `CastDevice` objects, the discovery handlers of all set-ups so far | create on discovery, tear down on removal, device deletion and unload | tear-downs await the disconnect: removals, discoveries and reloads overtake them; handlers outlive their set-up | a claim has a live object; a dynamic group has one object |
| **Topology** `topology.py` | discovery records, networks, groups, mismatch | record a discovery, recompute on a refresh | records outlive their device, addresses are used again | the leader is the true one unless a record is stale; issue and sensors follow |
| **Options flow** `config_flow.py` and **URL overrides** `urls.py` | the entry's options; the copy each open flow holds | edit, finish, abandon; rewrite a URL | two flows each write their whole copy back; a play request awaits while options change | an edit is lost to a race only; a request is rebased, and a stream goes out live, as the last edit says |
| **Playlists** `helpers.py` and `play_media` | none | parse, choose an item | a stream and a playlist end alike; the fetch fails, the parsers raise what nobody catches | the first item is played under its own title |
| **Sensors** `sensor.py` | what each sensor wrote last | write on the ledger's and the tracker's signals | signalled in the middle of the step that changes the ledger | they show the ledger and the tracker |
| Diagnostics, probe clip view, MAC lookup, Home Assistant Cast view, release scripts | little | presentation and set-up | | |

How they meet: the services and the coordinator *begin* requests in the ledger
and report exceptions to it; the entity forwards the device's callbacks to it;
the ledger calls its listeners (breaker, repairs) inside the step that appends a
record and signals the sensors; each refresh recomputes the topology first, which
writes the ledger's mismatch and signals the sensors; unload detaches the coordinator, then the
repairs, then shuts the ledger down. `PROJECT.json` lists the hazards of each
part at their lines.

## The modules

| Module | Models | Built on |
| --- | --- | --- |
| `DeliveryOutcomes` | outcomes, sources, and the classification of exceptions | |
| `DeliveryPromise` | *abstract*: what a request may become, with no timers, counters or log | `DeliveryOutcomes` |
| `DeliveryLedger` | `health.py`: every handler of the ledger, one action each | `DeliveryOutcomes`; implements `DeliveryPromise` |
| `MediaPlayer` | `play_media`, `announce`, tracking, watchdog, callbacks | extends `DeliveryLedger` |
| `CallerErrors` | the errors callers are told, as a history beside the entity | extends `MediaPlayer` |
| `ProbeCoordinator` | refresh, probe task, breaker, unload, beside all of the above | extends `MediaPlayer` |
| `Repairs` | `issues.py`, `repairs.py`: the record listener, issues, sightings and their storage | `DeliveryOutcomes` |
| `CastConnection` | the connection of one entity between loop, socket thread and group threads | |
| `Discovery` | `discovery.py`: set-up job, unload and stop event around one lock | |
| `Sensors` | what the outcome sensor shows, on each record of the ledger | extends `ProbeCoordinator` |
| `Registration` | devices and dynamic groups of the entry over set-ups and unloads | |
| `OptionsFlow` | options flows that edit the overrides | |
| `PlaylistParsing` | the parsers as functions, and what a playlist means | |
| `MediaResolution` | `async_play_media` up to `quick_play`, beside open options flows | extends `OptionsFlow`, instantiates `PlaylistParsing` |
| `Topology` | the tracker, its sensors and the group issue over a changing network | |
| `...Proofs` | theorems and proofs; `SensorsProofs` those of `MediaPlayer`, `CallerErrors` and `ProbeCoordinator` too, `MediaResolutionProofs` those of `OptionsFlow` and `PlaylistParsing` | extends its module and TLAPS |
| `MC...` | root modules of the runs; the instances are in the `.cfg` files | |

**Ledger.** `pending`, `timers`, `begun`, `health`, `records`, `closed` stand for
`DeviceHealth.pending`, the scheduled `_expire` callbacks, a ghost count that
gives requests an identity, the rest of `DeviceHealth`, the log of the device and
whether `async_shutdown` ran. A handler of the code is one action since it never
awaits; `_resolve` and `_append` are operators the actions share, and a record's
effect on the counters is part of the step that writes it. Left out: identity,
timestamps, error texts, the `url_source` label, and the 50-record limit of the
log, none of which any decision reads. A media status is abstracted to what
`async_media_status` branches on: error, active or other, its content and its
session.

**Media player.** A service call is a record in `call` with a stage: *resolving*
stands for all the awaits of `async_play_media` before the request begins,
*playing* for the executor job. `request_source` is the entity's shared flag.
`quick_play` may return, raise any class of error, know no such app
(`QuickPlayUnsupported`: the caller is told, the ledger is not), or never end; then only
the watchdog ends the call. `CallerErrors` adds what each caller was told. `DeviceReport` lets any status arrive at any time,
including those of old sessions or other media.

**Probe coordinator.** `probe` is the background task of a device (off, playing,
waiting, quitting), with the request it began and the snapshot's `app_idle`;
`circuit` is `circuit_open_until` in ticks left; `scheduled` is "attached to the
ledger and refreshing". The decisions that skip a device change nothing and are
not steps. `OnRecord` conjoins the breaker's reaction to every step, whoever took
it, as the listener call in `_append` does. What the device was at the snapshot
(connected, busy, idle) is left open: any decision the code can reach is possible
in any state.

**Repairs.** `failures`, `stamps`, `stale` are the fields of `RepairManager`,
`store` and `unsaved` its `Store`, `issues` the registry of Home Assistant, which
survives a reload but not a restart. Each method is an action; `OnRecord` takes
any outcome the ledger can log, since the manager hears records only as a listener.
A time stamp is its age, *recent* or *old* by `STALE_DEVICE_DAYS`; `DaysPass` ages
all of them at once and waits for whatever takes only seconds (a delayed save, a
posted call). The ghosts `sighted`, `lost` and `history` say what truly happened.

**Cast connection.** Loop code between two awaits is one action except where the
socket thread shares what it touches: `_invalidate` and connecting are cut in two
there, and `loop` names the coroutine in the middle. `report` is the callback the
socket thread is in, from its decision to report, past the check of `_valid`
(`AdmitReport`), to its effect. The thread reconnects by itself and ends only when
told to, as pychromecast's does; `Chromecast.disconnect` waits for its end.

**Discovery.** Set-ups are numbered, and the number stands for the browser, the
listener and the closure of one set-up. Job, unload and stop listener are cut
into one action per access to the lock, the entry's two fields or the bus. Once an unload
is over, Home Assistant drops the runtime data (`DropRuntimeData`), and a job that assigns
to it then ends with an exception: before it published its browser it keeps the lock.

**Sensors.** `_append` sends the signal after it has written the counters and before it
calls the listeners. `Signal` is therefore conjoined to every step that writes a
record: `Read` takes counters and outcome of the new state and the circuit of the old
one. `platforms` ends with the unload, which removes the sensors before it stops the
coordinator.

**Registration.** `objects` holds every `CastDevice` ever created, with the set-up whose
platform adds it and the number of tear-downs that wait for their disconnect. A
discovery signal runs all handlers in one step; the platform adds the entity in a task
of its own. `EndTearDown` is what follows the disconnect and raises as
`set.remove` does. The ghost `strayed` marks a group whose tear-down was begun twice,
or that was alive when the entry unloaded.

**Options flow and playback.** A flow holds the copy of the options and the ghost
`unseen`, the devices other flows edited since it was taken; `intended` is what the
users asked for. A play request goes through *platforms* (everything awaited before the
override is applied), *fetching* and *handed*. A URL is its base and what its path ends
like; `Hosts` is split by what `is_hass_url` and `get_url` know of them.

**Playlists.** `ParseM3u` folds `ReadLine` over the lines as the loop does. `Means` says
without a loop what a list means: it holds one item for each URL line, in their order
(`InOrder`), each titled by the last `#EXTINF` since the URL before it (`TitledBy`),
unless a line stops the reading. What stops it is told apart by what `play_media` makes of
it: `PlaylistSupported`, `PlaylistError`, or another exception (an interpolation of
`ConfigParser`, a `ValueError` of `urlparse` or of `getint`), which no clause catches.

**Topology.** Speakers move, switch off, join groups and lead them; `infos` keeps one
record per device ever discovered, in dict order, which decides which of two speakers
with one address is the leader. A refresh is one step, since nothing is awaited once it
has the adapters.

*Time* appears only where the code compares durations: 20 s probe watchdog < 30 s
request timer < 35 s probe wait and 45 s call watchdog. The models state the
order as guards (`WatchdogDue`, `DeadlinePassed`, `TimerDone`) and assume that the
event loop does not stall for the seconds between two of them.

*Slips.* An operator marked "slip" models no code. It is a mistake the code could
make, kept beside the right operator; replacing the one by the other makes the
run that `PROJECT.json` names fail, which shows that the property sees it.

## What is checked

The ledger's runs have one device, since no action of it touches two but
`Shutdown`; the proofs cover any number. Each bound limits what is *started*
(requests, unsolicited records), never what ends it.

| Run (`.cfg`) | Bounds | Shows |
| --- | --- | --- |
| `ledger` (`MCDeliveryLedger`) | 3 requests, 2 contents, 1 session, 1 record that settles nothing | the four invariants and `KeepsPromise`. Three requests are the least with a supersede before and after the one looked at; two contents separate "ours" from "other media", one session and none separate stale from fresh |
| `player` (`MCMediaPlayer`) | 2 calls, 2 requests, 1 content, 1 session | the flag, `ToldErrorsHaveVerdicts`, and with the loop's timers fair `EveryRequestSettles` and `PlayingCallsEnd`. Two calls are the least that interfere; a status about no content takes the part of "other media" |
| `probes` (`MCProbeCoordinator`) | 1 call, 2 requests, 2 contents, 1 unsolicited record | `ProbePendingIsAwaited`, `RefreshesSettleNoProbe`, `UsesLedger`, and `ProbesEnd` under fairness: a probe and a play request in every order, and decisions between them |
| `breaker` (`MCSensors`) | 3 requests, one content, no sessions | `OpenCircuitIsSilent`, `CircuitMatchesLog`, `SensorsShowLedger`: two timeouts open the circuit and the third request can close or renew it, with the backoff at its cap (3 ticks) |
| `repairs` (`MCRepairs`) | 1 device, 1 group, 1 template, an issue after 2 failures, 3 records or reloads between restarts | `FailureIssuesMatchLog`, `SightingsRemembered`, `StaleMeansUnseen`: three entries are the least for two failures with an `ok` or a reload between; restarts, crashes and the passing of days are unbounded |
| `connection` (`MCCastConnection`) | none: one entity, one connect, a removal and a stop event, any number of reconnects and reports | the five invariants, and `DisconnectsEnd`, `ConnectionIsShown` under fairness |
| `discovery` (`MCDiscovery`) | 3 set-ups | the three invariants, and `LoadedDiscovers` under fairness: three set-ups are two reloads, so one can meet what an unload that overtook a job left |
| `registration` (`MCRegistration`) | 1 player, 1 dynamic group, 2 allow-lists, 3 set-ups, 4 objects | `ClaimedIsHeld`, `OneObjectPerGroup`: a set-up before and one after the present one, and an object of each kind before and after a tear-down |
| `playback` (`MCMediaResolution`) | 2 devices, 1 override, 2 flows, one host of each kind but look-alikes, 3 lines, 1 title; from the reading of a playlist until its item is taken no flow is open (`AtRest`) | `OnlyRacesLoseEdits`, `RebasedAsEdited`, `LiveAsEdited`, `PlaysFirstItem`: two flows that edit two devices are the least of which one overwrites what the other did to a device it never touched; three lines hold a title, its URL and one more. Once the override is applied nothing reads the options, so a playlist needs no open flow. Devices and flows are symmetric; flows and requests are unbounded |
| `topology` (`MCTopology`) | 2 speakers, 1 group, an address in each subnet, `internal_url` near or a host name | types, `SensorsShowTopology`, `LeaderIsTrue`, `SpanIssueIsTrue`: two speakers are the least that follow one another at an address; moves, records and reloads are unbounded. A device whose host is no IPv4 address (`Names`) does not occur in it |
| `quits` (`MCQuits`), `in_a_row` (`MCInARow`) | as `probes`, as `repairs` | expected violations, see [below](#where-code-and-documents-disagree) |

`CHECK_DEADLOCK FALSE` is set everywhere because the bounded systems may stop:
with its requests or set-ups used up, or its entity disconnected, no one has
anything left to do.

What the less obvious properties mean:

- `TimerDiscipline`: a scheduled timer belongs to the pending request, and a
  pending request has one until the shutdown. Since `_expire` settles "the
  pending request", a stray timer would be the next request's verdict.
- `OneVerdictPerRequest` counts, over the log, the records of each request ever
  begun, which the code cannot do: it has no identity for a request.
- `CountersMatchLog` defines the counters anew over the whole log and compares.
- `KeepsPromise` is refinement: the mapping `Promised` reads each request's fate
  from `pending` and `records`. It implies that verdicts are final and that
  "unknown" is given by a newer request only.
- `ToldErrorsHaveVerdicts`: the errors callers saw and the log agree from then on, but for
  the one error the ledger hears nothing of.
- `ProbePendingIsAwaited`: `_running` covers the whole time a probe is pending,
  so neither supersede nor `async_record` in a refresh can hit it; that they do not is
  `RefreshesSettleNoProbe`, for `skipped_busy`, `unreachable` and the next probe alike.
- `CircuitMatchesLog`: the breaker's state as a function of the log alone.

- `FailureIssuesMatchLog` defines an issue's condition over the log of records and
  reloads; a reload resets the counter and leaves the issue, so it takes both. The
  failures need not be in a row, which the documents say they must: run `in_a_row`.
- `StaleMeansUnseen` spans sessions: what one session saw, the next one's check
  must know, through the delayed save and the flush of an unload.
- `AvailableIsConnected`, `DisconnectedShowsNothing` are what the coordinator's
  snapshot and the state rely on. `ConnectedIsAvailable` makes an exception the
  code has: a connection reported between `start()` and the reset of
  `_attr_available` shows as unavailable until it is made anew.
- `LoneDisconnectSucceeds` allows for a failure when the entity is removed while
  Home Assistant stops: then the two coroutines can take the listener from each
  other.
- `OneBrowser` makes an exception for an unload that overtakes a set-up job: it
  finds no browser, or one not yet started, and the job goes on. `LockHasHolder`
  and `LoadedDiscovers` hold in that case too, unless the job finds the runtime data
  dropped: then the lock is lost (`JobOrphaned`).

- `SensorsShowLedger`: the outcome, the counters and the last record are never behind.
  `circuit_open` is, by design of the order in `_append`, and the property says by how
  much: by the last record, if that was a probe's success or timeout.
- `ClaimedIsHeld`: a uuid in the set without an object would shut its device out for
  good. It holds although tear-downs raise and run twice.
- `OneObjectPerGroup` makes an exception for `strayed` groups: a second removal during
  the first's disconnect, or an unload, which tears no group down, can leave two.
- `RebasedAsEdited` relates what `quick_play` is given to the edits of all flows, across
  the awaits of the request; `OnlyRacesLoseEdits` says which edits survive.
- `LiveAsEdited` says of every HLS URL, at a pinned address, an automatic one or a third
  party's, and rebased or not, whether it goes out as live at once or through the playlist
  parser: the edit decides the address, and the address the way.
- `PlaysFirstItem` compares the parsers with the meaning, and the choice of the item; what
  ends in an exception that is no `PlaylistError` is not sent at all.
- `LeaderIsTrue` says when the computed leader may be relied on: as long as no speaker
  has a record at an address it left.

The type invariants `MediaPlayerTypeOK`, `OptionsTypeOK`, `RegistrationTypeOK`, `RepairsTypeOK`,
`DiscoveryTypeOK` and `CoordinatorTypeOK` and the invariants `OutcomeMatchesCounters` and
`RespondedFollowsOutcome` are proved and not part of a run.

*Fairness.* Weak fairness of the timers and watchdogs (the loop runs what is
scheduled), of the resumption of a task whose wait is over, and of the end of a
probe's `quick_play` and `quit_app`, each awaited behind a watchdog. Never of
devices, of service calls or of refreshes, and of pychromecast only that its socket
thread runs: it finishes a callback, and ends once told to. That and the wait for
it (`Joined`) are strongly fair, because reports and other coroutines interrupt
them any number of times. In `Discovery`, weak fairness of each thread.

## What is proved

Every invariant and every safety property of a step that a passing run checks is also a
theorem: for any devices, contents, sessions, calls, set-ups, speakers and addresses,
playlists of any length, and runs of any length. The assumptions are that `None` is no
content, session, request, call or number, that the breaker's parameters and the issue
threshold are positive, that there is a set-up, that players and dynamic groups are
different uuids, that speakers and groups are different devices, that an address is near,
far or a name and no two of them, and that the hosts of URLs are what they are called.

- `DeliveryLedgerProofs`: `TypeCorrect`, `TimersBelongToPending`,
  `RespondedTellsOutcome`, `OutcomeAgreesWithCounters`, `CountersCountTheLog`,
  `EachRequestOneVerdict`, `LedgerKeepsPromise`.
- `SensorsProofs`, of the entity: `MediaPlayerTypeCorrect`, `EntityUsesLedger`,
  `FlagNeverLeaks`, `ErrorsHaveVerdicts`; of the coordinator:
  `CoordinatorTypeCorrect`, `SystemUsesLedger`, `SystemOneVerdict`, `ProbesAreAwaited`,
  `OpenCircuitsAreSilent`, `RefreshesAreNoVerdicts`, `CircuitFollowsLog`; of the sensors:
  `SensorsFollowLedger`.
- `RepairsProofs`: `RepairsTypeCorrect`, `SightingsAreRemembered`,
  `StaleDevicesAreUnseen`, `FailureIssuesFollowLog`.
- `CastConnectionProofs`: `ConnectionTypeCorrect`, `AvailableHasConnection`,
  `ConnectionHasAvailable`, `DisconnectedIsBlank`, `LoneDisconnectsSucceed`.
- `DiscoveryProofs`: `DiscoveryTypeCorrect`, `LockIsLostOnlyByOrphans`,
  `UnloadsFailOnlyAtStop`, `OneBrowserDiscovers`.
- `RegistrationProofs`: `ClaimsAreHeld`, `GroupsHaveOneObject`.
- `TopologyProofs`: `TopologyTypeCorrect`, `TopologyIsShown`, `LeadersAreTrue`,
  `SpanIssuesAreTrue`.
- `MediaResolutionProofs`: `EditsSurviveWithoutRaces`, `EditsSurvive`,
  `EditsReachPlayback` and `StreamsGoAsEdited` where no host is a look-alike,
  `M3uMeansItsLines`, `PlsMeansItsEntries`, `PlaysTheFirstItem`.

*Argument.* The ledger's eight actions are first reduced to four kinds of step
(begin, resolve, note a record aside, drop a timer), and each invariant is shown
per kind. `TypeOK` and `TimerDiscipline` are inductive; the two log invariants
need type correctness and lemmas on what appending does to
`FailuresSinceSuccess` and `TimeoutRun` (a cardinality grows by one, stays, or
becomes zero). `OneVerdictPerRequest` is not inductive: it is silent on ids not
yet begun, so the proof strengthens it (`Settling`) with "the pending request is the
newest" and "records name only requests begun". The
refinement then follows from the strengthened invariant: a step that changes the
log or `pending` maps to `Ask` or `Answer`, every other one to a stutter.

The composed systems are handled by *projection*: every step of `MediaPlayer` and
`ProbeCoordinator` is a `DeliveryLedger` step or leaves its variables alone
(`UsesLedger`), so each theorem of the ledger is inherited without a new
induction (`SystemOneVerdict`). `ProbesAreAwaited` strengthens the property with
what `_running` means in each phase and uses that only `StartProbe` begins a
request of source "probe". `OpenCircuitsAreSilent` uses the ledger's
settling invariant: a circuit moves only with a record that settles the pending
request, so nothing is pending at the moment it opens.

`RefreshesAreNoVerdicts` needs `ProbesAreAwaited`: a refresh acts only on a device
without a task, so what it settles or supersedes is no probe. `CircuitFollowsLog` shows what one more
record does to the last success and the last arming timeout of the log, and that the
listener, which reads the counter with the record in it, reacts exactly when they change;
the counter's meaning is the ledger's theorem. `SensorsFollowLedger` is one step beyond
it: each record's signal writes what the new log holds and what the breaker held before.
`ErrorsHaveVerdicts` rests on `RequestsGoForward`: the ledger never waits again for a
request it has settled. So an error told after its handler has settled the ledger stays
behind it, and `Settling` gives it a verdict.

In `RepairsProofs`, `SightingsKept` adds to what a loaded manager knows that an
unloaded one left the same in the store with nothing on its way; a stale issue then
comes from a check of a loaded manager alone. For `FailureIssuesFollowLog` the
counter's meaning (`CountsRun`: failures since the last `ok` or reload) goes into
the invariant, and `OneMoreFailure` shows that the counter reaches the threshold
exactly when the log's condition first holds.

In `CastConnectionProofs` the inductive part, `ConnectionInv`, says who may still report:
a report in flight agrees with the socket or was overtaken by its next change
(`ReportsAgree`), and the listener lives as long as the chromecast does but between the
halves of `_invalidate` (`ListenerOutlivesChromecast`). Availability then follows the
socket until the disconnect ends it (`AvailableFollowsSocket`, `EndedByDisconnect`).

In `DiscoveryProofs`, `OneOwner` follows the lock from the job that took it to the
browser in the entry to the unload that took that away: before the stop event at
most one of them exists, so an unload releases only its own lock. `LockIsLostOnlyByOrphans`
needs no such exclusion, only that set-ups yet to come hold nothing and that a job
outlives its entry only if an unload overtook it (`OutlivingIsOvertaken`).
`OneBrowserDiscovers` adds (`SeriesInv`) that, while no unload overtook a job, the last
set-up owns the browser, the fields and the lock until its unload has given them back.

In `RegistrationProofs`, `EntryKnown` says that claims end with the runtime data and that
groups belong to no platform, and `GroupsClaimed` that a group that did not stray is in
the set while it lives and has at most one tear-down. So its tear-down finds the claim
and ends it, and a new discovery finds no older object alive.

In `TopologyProofs`, `TopologyInv` says that a device has one record and that no two
speakers have one address. So two speakers recorded at the address of a group's leader
mean that one of the records is stale; without a stale one, what `hosts_to_uuid` finds
there is the leader. `TopologyIsShown` is about tracker, ledger and sensors, which say
the same: a refresh writes them in one step, and only if they differ.

In `MediaResolutionProofs` the invariant on the options is about the open copies: outside
`unseen` and what the flow itself edited, a copy agrees with the options.
`MediaResolution` leaves those variables to `OptionsFlow`, so the theorem carries over,
and `EditsReachPlayback` and `StreamsGoAsEdited` follow from it in one step: the override
is read in the step that applies it (`ResolvedByOverride`).

The parsers are folds, and their theorems need induction over the lines of a file. The
library's induction rules take an operator, which the provers cannot instantiate, so
`LineByLine` states induction with a set in the place of the predicate and is proved by
the least counterexample (`NatLessThanWellFounded`, `WFMin`). A fold by the largest index
then exists as a function of the set of lines read (`FoldExists`), and its values on
`1 .. k` are the states of the loop (`M3uStates`, `PlsStates`). The loop's invariant
(`M3uKnown`: the items of the first `k` lines in order, and the title that waits for line
`k + 1`; or the first stop) gives the meaning after the last line, and the smallest URL
line gives the item that is played.

*Model-checked only*: the liveness properties `EveryRequestSettles`, `PlayingCallsEnd`,
`ProbesEnd`, `LoadedDiscovers`, `DisconnectsEnd` and `ConnectionIsShown`; fairness and
`ENABLED` are out of the prover's reach.

## Where code and documents disagree

Two of them are runs that TLC must find violated; `PROJECT.json` quotes the lines.

| Run | What happens |
| --- | --- |
| `quits` | a probe reads another request's `ok` as its own and quits the app |
| `in_a_row` | a fetch failure, another failure, a fetch failure: the issue for two "consecutive" ones is raised |

Others follow from the same models and have no run of their own. In the ledger:

- the `quick_play` of a superseded request raises, and the failure is charged to
  whatever is pending now, or to the device (`health.py:454`; `DESIGN.md`, section 5:
  a superseded request is recorded "as `unknown`, not as a failure");
- an exception after the verdict is logged with source `observed` though the
  device reported nothing (`health.py:522`, `docs/troubleshooting.md:15`);
- a template that fails to render settles a pending earlier announcement as
  `template_error` (`health.py:472`, `DESIGN.md:53`);
- of two concurrent announcements the first to end resets the flag, and the other
  is sent as `play_media` (`media_player.py:490`, `DESIGN.md:281`);
- an app nobody knows: the caller is told, the ledger waits and calls it a timeout
  (`media_player.py:1009`, the docstring at `media_player.py:725`);
- the 45 s watchdog of a superseded call makes the younger request a `timeout` inside its
  own 30 s (`health.py:454`, `docs/operations.md:40`);
- a successful announcement does not close the circuit (`coordinator.py:338`,
  `docs/troubleshooting.md:93`);
- the breaker counts timeouts of every source, so one probe timeout may open the
  circuit (`coordinator.py:352`, `DESIGN.md:180`);
- when it opens, the sensor still reads `circuit_open: false` until the next record or
  mismatch (`health.py:628`, `docs/troubleshooting.md:91-92`);
- between a play request and its first status the device looks idle, and a probe
  supersedes the request (`coordinator.py:264`, `CHANGELOG.md:77`).

In connections, devices and the entry:

- an entity removed while it is connecting is connected afterwards
  (`media_player.py:267`, `media_player.py:409`);
- the stop event fires while an unload waits for its listener's removal: the lock is
  released twice (`discovery.py:150`, `discovery.py:138-140`);
- a job that an unload overtook finds no runtime data and dies with the lock held, and
  there is no browser until the restart (`discovery.py:117`, `CHANGELOG.md:65-66`);
- a device responds after a reload and keeps its stale issue, since the new manager has
  no candidate (`issues.py:121`, `DESIGN.md:257`);
- the discovery handler of an earlier set-up goes on admitting what *its* allow-list
  admits, through the platform of its time (`media_player.py:182`,
  `media_player.py:163-164` and `172-173`);
- an unload does not tear dynamic groups down: the object lives on without a claim, and
  the next set-up creates a second one (`__init__.py:98`);
- two removals of a dynamic group during one disconnect: the second tear-down raises, or
  takes the claim of a new object (`media_player.py:244`);
- discovery is stopped after the platforms are unloaded, so a device can be discovered
  in between and is added to a platform that is gone (`__init__.py:98-100`);
- the issue of a group that is not discovered again after a reload stays
  (`issues.py:207`).

In what is played:

- `_is_own_url` compares text by its beginning: a third-party address that goes on after
  this instance's (`Lookalikes`) is rebased (`urls.py:73`, `README.md:41-42`);
- a playlist whose parsing ends in an exception that is no `PlaylistError` is not forwarded,
  and the call fails (`helpers.py:269`, `358`, `375-381`; the comment at
  `media_player.py:1067`);
- an HLS stream that is rebased by an override goes out as a playlist to be parsed,
  without `LIVE` (`media_player.py:1033`, the comment at `media_player.py:1032`);
- items of a playlist are not rebased, though "every Home Assistant URL sent to that
  device" is (`media_player.py:1053`, `docs/troubleshooting.md:62-64`);
- a playlist item's title replaces the caller's whole metadata (`media_player.py:1055`).

## What is not modelled

- What a device does: statuses are arbitrary. So "an `ok` is about this request"
  is not stated; with one content and a reused session it may not be.
- The connection state as the coordinator sees it: whether a probe's
  `RequestFailed` should have been a `fetch_failed`.
- A stalled event loop, and a `quick_play` that raises neither a `HomeAssistantError` nor
  `NotImplementedError`.
- In `ProbeCoordinator`: options, targets coming and going, and the refresh's own
  failure when no URL is configured.
- In `Repairs`: a refresh in flight across an unload, and calls discovery posted
  to a manager already replaced. In `Discovery`: two jobs
  creating the lock at once.
- In `CastConnection`: dictionaries that change while the probe snapshot iterates over
  them.
- In `Registration`: an unload that fails, device rows of the registry, and the sensors'
  own set of added devices, which never shrinks: a device deleted and discovered again
  gets its player back but its sensors only after a reload (`sensor.py:50-52`).
- In `Registration` also: entities disabled in the registry. In `OptionsFlow`: two
  spellings of one uuid as keys of the overrides (`urls.py:51-61`), the fields that are no overrides, whose value is what the user
  submits, and the configuration flow. In `MediaResolution`: a platform that plays the
  media itself, cast apps and media sources, beyond that they end the request or name
  the URL.
- In `Topology`: adapters that come and go, `/24` where no adapter fits, and the
  multihomed issue.
- Last success and its restoration, identity and address fields, which nothing decides
  by.
- Components marked `not_modelled` in `PROJECT.json`.

## Plan

1. *Done*: ledger, its promise, media player, coordinator, sensors; repairs; discovery;
   the cast connection; devices and dynamic groups; options, overrides, playlists and
   what is played; topology.
2. `EntryLifecycle`: set-up, unload and reload over `Discovery`, `Repairs` and
   `Registration`, with a discovery response running through all three.
3. `CastDevice`: sessions of a device, so that "ok is about this request" can be
   stated and its limits shown; composed with `CastConnection` for the snapshot.
4. Proofs, beside those of 2 and 3: the theorems of the entity and of the coordinator for
   the whole of `Sensors`, and `DeliveryPromise` for it.
