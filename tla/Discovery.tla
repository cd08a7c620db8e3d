------------------------------- MODULE Discovery -------------------------------
(***************************************************************************)
(* Who runs the discovery of Cast devices (discovery.py): the set-up job   *)
(* in an executor thread, the unload of the entry in the event loop, and   *)
(* the listener of the stop event in another thread, around one lock of    *)
(* the process and two fields of the entry's runtime data.                 *)
(*                                                                         *)
(* Set-ups are numbered; the number stands for the browser, its stop       *)
(* listener and its stop_discovery function. What setup_internal_discovery *)
(* creates for one set-up nobody else writes, so a thread's code is cut    *)
(* into steps at each access to the lock, the fields and the bus.          *)
(*                                                                         *)
(* Home Assistant deletes the runtime data of an entry it has unloaded. A  *)
(* job the unload overtook then writes to nothing: it fails, and what it   *)
(* holds is not given back.                                                *)
(***************************************************************************)
EXTENDS Naturals, FiniteSets

CONSTANT MaxSetUps      \* bound: set-ups of the entry in the life of the process

ASSUME DiscoveryAssumption == MaxSetUps \in Nat \ {0}

VARIABLES
    entry,      \* state of the config entry
    setUps,     \* set-ups so far
    job,        \* per set-up: where its set-up job is
    lock,       \* the lock is held
    running,    \* browsers that discover
    browser,    \* runtime_data.browser, None: 0
    unsub,      \* runtime_data.unsub_discovery_stop, None: 0
    listeners,  \* stop listeners on the bus
    unload,     \* where async_stop_internal_discovery is, and its local variables
    stopper,    \* per set-up: where the stop listener's stop_discovery is
    stopping,   \* Home Assistant has fired the stop event
    overtaken   \* ghost: an unload began before a set-up job was done

fieldVars == <<browser, unsub>>
discoveryVars ==
    <<entry, setUps, job, lock, running, fieldVars, listeners, unload, stopper, stopping,
      overtaken>>

SetUps == 1..MaxSetUps
None == 0

Idle == [stage |-> "idle", browser |-> None, unsub |-> None]
Unloaded == [Idle EXCEPT !.stage = "unloaded"]

\* The entry keeps its runtime data when its unload fails.
HasRuntimeData == entry # "not_loaded"

Active(b) == job[b] \in {"queued", "acquired", "published", "discovering", "listening"}

-----------------------------------------------------------------------------
(* The entry is set up; its job runs in an executor thread. *)

SetUpEntry ==
    /\ entry = "not_loaded"
    /\ ~stopping
    /\ setUps < MaxSetUps
    /\ setUps' = setUps + 1
    /\ entry' = "loaded"
    /\ browser' = None
    /\ unsub' = None
    /\ job' = [job EXCEPT ![setUps'] = "queued"]
    /\ UNCHANGED <<lock, running, listeners, unload, stopper, stopping, overtaken>>

Advance(b, from, to) == job[b] = from /\ job' = [job EXCEPT ![b] = to]

\* A job that finds the lock taken returns. Slip: it goes on.
AcquireAnyway(b) ==
    /\ Advance(b, "queued", "acquired")
    /\ lock' = TRUE
Acquire(b) ==
    /\ Advance(b, "queued", IF lock THEN "refused" ELSE "acquired")
    /\ lock' = TRUE

JobAcquires(b) ==
    /\ Acquire(b)
    /\ UNCHANGED <<entry, setUps, running, fieldVars, listeners, unload, stopper, stopping,
                   overtaken>>

\* The browser becomes visible to the loop before it discovers. Without runtime data
\* the assignment raises AttributeError: the job ends, the lock stays held.
JobPublishes(b) ==
    /\ Advance(b, "acquired", IF HasRuntimeData THEN "published" ELSE "failed")
    /\ browser' = IF HasRuntimeData THEN b ELSE browser
    /\ UNCHANGED <<entry, setUps, lock, running, unsub, listeners, unload, stopper, stopping,
                   overtaken>>

JobStarts(b) ==
    /\ Advance(b, "published", "discovering")
    /\ running' = running \cup {b}
    /\ UNCHANGED <<entry, setUps, lock, fieldVars, listeners, unload, stopper, stopping,
                   overtaken>>

\* listen_once registers in the loop, its remover is stored by the thread.
JobListens(b) ==
    /\ Advance(b, "discovering", "listening")
    /\ listeners' = listeners \cup {b}
    /\ UNCHANGED <<entry, setUps, lock, running, fieldVars, unload, stopper, stopping,
                   overtaken>>

\* Without runtime data its last assignment raises; the listener is on the bus.
JobEnds(b) ==
    /\ Advance(b, "listening", "done")
    /\ unsub' = IF HasRuntimeData THEN b ELSE unsub
    /\ UNCHANGED <<entry, setUps, lock, running, browser, listeners, unload, stopper, stopping,
                   overtaken>>

-----------------------------------------------------------------------------
(* The entry is unloaded: async_stop_internal_discovery. *)

\* Without a browser there is nothing to do.
BrowserKnown == browser # None

Taken == [stage |-> IF unsub # None THEN "detaching" ELSE "stopping",
          browser |-> browser, unsub |-> unsub]

BeginUnload ==
    /\ entry = "loaded"
    /\ entry' = "unloading"
    /\ \/ /\ BrowserKnown
          /\ unload' = Taken
          /\ browser' = None
          /\ unsub' = None
       \/ /\ ~BrowserKnown
          /\ unload' = Unloaded
          /\ UNCHANGED fieldVars
    /\ overtaken' = (overtaken \/ \E b \in SetUps : Active(b))
    /\ UNCHANGED <<setUps, job, lock, running, listeners, stopper, stopping>>

\* The remover runs in an executor thread; the listener may have fired meanwhile.
UnloadDetaches ==
    /\ unload.stage = "detaching"
    /\ unload' = [unload EXCEPT !.stage = "stopping"]
    /\ listeners' = listeners \ {unload.unsub}
    /\ UNCHANGED <<entry, setUps, job, lock, running, fieldVars, stopper, stopping, overtaken>>

\* Slip: the field is read again, which BeginUnload has cleared.
StillPublished == browser
BrowserToStop == unload.browser

UnloadStops ==
    /\ unload.stage = "stopping"
    /\ unload' = [unload EXCEPT !.stage = "releasing"]
    /\ running' = running \ {BrowserToStop}
    /\ UNCHANGED <<entry, setUps, job, lock, fieldVars, listeners, stopper, stopping, overtaken>>

\* A lock that is not held raises RuntimeError. Slip: the lock is kept.
LockKept == lock
LockReleased == FALSE

UnloadReleases ==
    /\ unload.stage = "releasing"
    /\ unload' = IF lock THEN Unloaded ELSE Idle
    /\ entry' = IF lock THEN entry ELSE "failed_unload"
    /\ lock' = LockReleased
    /\ UNCHANGED <<setUps, job, running, fieldVars, listeners, stopper, stopping, overtaken>>

\* async_unload_entry has shut the other parts down, and Home Assistant drops the
\* entry's runtime data. Jobs may have written to it in between.
DropRuntimeData ==
    /\ unload.stage = "unloaded"
    /\ unload' = Idle
    /\ entry' = "not_loaded"
    /\ browser' = None
    /\ unsub' = None
    /\ UNCHANGED <<setUps, job, lock, running, listeners, stopper, stopping, overtaken>>

-----------------------------------------------------------------------------
(* Home Assistant stops: the listeners run in executor threads. *)

FireStop ==
    /\ ~stopping
    /\ stopping' = TRUE
    /\ listeners' = {}
    /\ stopper' = [b \in SetUps |-> IF b \in listeners THEN "queued" ELSE stopper[b]]
    /\ UNCHANGED <<entry, setUps, job, lock, running, fieldVars, unload, overtaken>>

StopDiscovery(b) ==
    /\ stopper[b] = "queued"
    /\ stopper' = [stopper EXCEPT ![b] = "stopped"]
    /\ running' = running \ {b}
    /\ UNCHANGED <<entry, setUps, job, lock, fieldVars, listeners, unload, stopping, overtaken>>

StopReleases(b) ==
    /\ stopper[b] = "stopped"
    /\ stopper' = [stopper EXCEPT ![b] = IF lock THEN "released" ELSE "failed"]
    /\ lock' = FALSE
    /\ UNCHANGED <<entry, setUps, job, running, fieldVars, listeners, unload, stopping, overtaken>>

StopClears(b) ==
    /\ stopper[b] = "released"
    /\ stopper' = [stopper EXCEPT ![b] = "done"]
    /\ browser' = None
    /\ unsub' = None
    /\ UNCHANGED <<entry, setUps, job, lock, running, listeners, unload, stopping, overtaken>>

-----------------------------------------------------------------------------

DiscoveryInit ==
    /\ entry = "not_loaded"
    /\ setUps = 0
    /\ job = [b \in SetUps |-> "none"]
    /\ lock = FALSE
    /\ running = {}
    /\ browser = None
    /\ unsub = None
    /\ listeners = {}
    /\ unload = Idle
    /\ stopper = [b \in SetUps |-> "off"]
    /\ stopping = FALSE
    /\ overtaken = FALSE

JobStep(b) ==
    \/ JobAcquires(b)
    \/ JobPublishes(b)
    \/ JobStarts(b)
    \/ JobListens(b)
    \/ JobEnds(b)

UnloadStep == UnloadDetaches \/ UnloadStops \/ UnloadReleases \/ DropRuntimeData

StopStep(b) == StopDiscovery(b) \/ StopReleases(b) \/ StopClears(b)

DiscoveryNext ==
    \/ SetUpEntry
    \/ BeginUnload
    \/ UnloadStep
    \/ FireStop
    \/ \E b \in SetUps : JobStep(b) \/ StopStep(b)

DiscoverySpec == DiscoveryInit /\ [][DiscoveryNext]_discoveryVars

\* Executor threads and the loop run what they were given.
FairDiscoverySpec ==
    /\ DiscoverySpec
    /\ WF_discoveryVars(UnloadStep)
    /\ \A b \in SetUps : WF_discoveryVars(JobStep(b)) /\ WF_discoveryVars(StopStep(b))

-----------------------------------------------------------------------------
(* Properties. *)

\* Types; an unload in progress has a browser to stop until it is done, and no field
\* holds anything without runtime data.
DiscoveryTypeOK ==
    /\ entry \in {"not_loaded", "loaded", "unloading", "failed_unload"}
    /\ setUps \in 0..MaxSetUps
    /\ job \in [SetUps -> {"none", "queued", "refused", "acquired", "published",
                           "discovering", "listening", "done", "failed"}]
    /\ lock \in BOOLEAN /\ stopping \in BOOLEAN /\ overtaken \in BOOLEAN
    /\ running \subseteq SetUps /\ listeners \subseteq SetUps
    /\ browser \in SetUps \cup {None} /\ unsub \in SetUps \cup {None}
    /\ stopper \in [SetUps -> {"off", "queued", "stopped", "released", "done", "failed"}]
    /\ unload \in {Idle, Unloaded} \cup
         [stage : {"detaching", "stopping", "releasing"},
          browser : SetUps, unsub : SetUps \cup {None}]
    /\ unload = Idle <=> entry # "unloading"
    /\ ~HasRuntimeData => browser = None /\ unsub = None

\* Unless an unload overtakes a set-up job, at most one browser discovers, and
\* under the lock, whatever stop event falls into whichever reload
\* (discovery.py:82-84).
OneBrowser == ~overtaken => Cardinality(running) <= 1 /\ (running # {} => lock)

\* A set-up job died with the lock because an unload had overtaken it.
JobOrphaned == overtaken /\ \E b \in SetUps : job[b] = "failed"

\* Somebody will release a lock that is held, or a browser discovers under it; it is
\* lost, which ends discovery for good, only by a job that an unload overtook and that
\* found no runtime data (discovery.py:82-128, 140-152).
LockHasHolder ==
    lock =>
        \/ running # {}
        \/ \E b \in SetUps : job[b] \in {"acquired", "published"} \/ stopper[b] = "stopped"
        \/ unload.stage = "releasing"
        \/ JobOrphaned

\* Before the stop event no unload fails, however set-ups and unloads overlap
\* (discovery.py:133-152).
UnloadFailsOnlyAtStop == entry = "failed_unload" => stopping

\* A loaded entry gets its discovery, from its own job or another's, unless a job died
\* with the lock (discovery.py:82, 117).
LoadedDiscovers ==
    entry = "loaded" ~> running # {} \/ entry # "loaded" \/ stopping \/ JobOrphaned
=============================================================================
