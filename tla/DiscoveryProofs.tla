---------------------------- MODULE DiscoveryProofs ----------------------------
(***************************************************************************)
(* Who holds the discovery lock, and when it is lost, however many set-ups *)
(* there are and however they overlap.                                     *)
(***************************************************************************)
EXTENDS Discovery, FiniteSetTheorems, TLAPS

LEMMA JobKeepsType ==
  ASSUME DiscoveryTypeOK, NEW b \in SetUps, JobStep(b)
  PROVE  DiscoveryTypeOK'
<1>1. CASE JobAcquires(b)
  BY <1>1 DEF JobAcquires, Acquire, Advance, DiscoveryTypeOK, HasRuntimeData, fieldVars
<1>2. CASE JobPublishes(b)
  BY <1>2 DEF JobPublishes, Advance, DiscoveryTypeOK, HasRuntimeData
<1>3. CASE JobStarts(b)
  BY <1>3 DEF JobStarts, Advance, DiscoveryTypeOK, HasRuntimeData, fieldVars
<1>4. CASE JobListens(b)
  BY <1>4 DEF JobListens, Advance, DiscoveryTypeOK, HasRuntimeData, fieldVars
<1>5. CASE JobEnds(b)
  BY <1>5 DEF JobEnds, Advance, DiscoveryTypeOK, HasRuntimeData
<1>6. QED  BY <1>1, <1>2, <1>3, <1>4, <1>5 DEF JobStep

\* An unload takes a browser with it, and its record says how far it is.
LEMMA UnloadKeepsType ==
  ASSUME DiscoveryTypeOK, BeginUnload \/ UnloadStep
  PROVE  DiscoveryTypeOK'
<1>0. Unloaded # Idle /\ Unloaded.stage = "unloaded" /\ Unloaded.browser = None
  BY DEF Unloaded, Idle
<1>1. CASE BeginUnload
  <2>1. CASE BrowserKnown /\ unload' = Taken
    <3>1. browser \in SetUps
      BY <2>1 DEF BrowserKnown, DiscoveryTypeOK
    <3>2. Taken \in [stage : {"detaching", "stopping", "releasing"},
                     browser : SetUps, unsub : SetUps \cup {None}]
      BY <3>1 DEF Taken, DiscoveryTypeOK
    <3>3. Taken # Idle
      BY DEF Taken, Idle
    <3>4. entry' = "unloading" /\ browser' = None /\ unsub' = None
      BY <1>1, <2>1, <3>3 DEF BeginUnload, BrowserKnown
    <3>5. QED  BY <1>1, <2>1, <3>2, <3>3, <3>4 DEF BeginUnload, DiscoveryTypeOK, HasRuntimeData
  <2>2. CASE unload' = Unloaded /\ UNCHANGED fieldVars
    BY <1>0, <1>1, <2>2 DEF BeginUnload, DiscoveryTypeOK, HasRuntimeData, fieldVars
  <2>3. QED  BY <1>1, <2>1, <2>2 DEF BeginUnload
<1>2. CASE UnloadDetaches
  <2>1. unload # Idle /\ unload # Unloaded
    BY <1>2 DEF UnloadDetaches, Idle, Unloaded
  <2>2. QED  BY <1>2, <2>1 DEF UnloadDetaches, DiscoveryTypeOK, HasRuntimeData, Idle, fieldVars
<1>3. CASE UnloadStops
  <2>1. unload # Idle /\ unload # Unloaded
    BY <1>3 DEF UnloadStops, Idle, Unloaded
  <2>2. QED  BY <1>3, <2>1 DEF UnloadStops, DiscoveryTypeOK, HasRuntimeData, Idle, fieldVars
<1>4. CASE UnloadReleases
  <2>1. unload # Idle /\ entry = "unloading"
    BY <1>4 DEF UnloadReleases, Idle, DiscoveryTypeOK
  <2>2. QED
    BY <1>0, <1>4, <2>1 DEF UnloadReleases, LockReleased, DiscoveryTypeOK, HasRuntimeData, fieldVars
<1>5. CASE DropRuntimeData
  BY <1>5 DEF DropRuntimeData, DiscoveryTypeOK, HasRuntimeData
<1>6. QED  BY <1>1, <1>2, <1>3, <1>4, <1>5 DEF UnloadStep

LEMMA StopKeepsType ==
  ASSUME DiscoveryTypeOK, NEW b \in SetUps, StopStep(b)
  PROVE  DiscoveryTypeOK'
<1>1. CASE StopDiscovery(b)
  BY <1>1 DEF StopDiscovery, DiscoveryTypeOK, HasRuntimeData, fieldVars
<1>2. CASE StopReleases(b)
  BY <1>2 DEF StopReleases, DiscoveryTypeOK, HasRuntimeData, fieldVars
<1>3. CASE StopClears(b)
  BY <1>3 DEF StopClears, DiscoveryTypeOK, HasRuntimeData
<1>4. QED  BY <1>1, <1>2, <1>3 DEF StopStep

LEMMA DiscoveryStepKeepsType ==
  ASSUME DiscoveryTypeOK, [DiscoveryNext]_discoveryVars
  PROVE  DiscoveryTypeOK'
<1>1. CASE SetUpEntry
  <2>1. setUps + 1 \in SetUps
    BY <1>1, DiscoveryAssumption DEF SetUpEntry, SetUps, DiscoveryTypeOK
  <2>2. QED  BY <1>1, <2>1 DEF SetUpEntry, SetUps, DiscoveryTypeOK, HasRuntimeData
<1>2. CASE FireStop
  BY <1>2 DEF FireStop, DiscoveryTypeOK, HasRuntimeData, fieldVars
<1>3. CASE UNCHANGED discoveryVars
  BY <1>3 DEF discoveryVars, fieldVars, DiscoveryTypeOK, HasRuntimeData
<1>4. QED
  BY <1>1, <1>2, <1>3, JobKeepsType, UnloadKeepsType, StopKeepsType DEF DiscoveryNext

\* The fields, the threads' stages and an unload's local variables keep their types,
\* and an unload in progress has a browser to stop (discovery.py:142-152).
THEOREM DiscoveryTypeCorrect == DiscoverySpec => []DiscoveryTypeOK
<1>1. DiscoveryInit => DiscoveryTypeOK
  <2>1. 0 \in 0..MaxSetUps
    BY DiscoveryAssumption
  <2>2. DiscoveryInit => unload \in {Idle} /\ (unload = Idle <=> entry # "unloading")
    BY DEF DiscoveryInit
  <2>3. QED  BY <2>1, <2>2 DEF DiscoveryInit, DiscoveryTypeOK, HasRuntimeData
<1>2. DiscoveryTypeOK /\ [DiscoveryNext]_discoveryVars => DiscoveryTypeOK'
  BY DiscoveryStepKeepsType
<1>3. QED  BY <1>1, <1>2, PTL DEF DiscoverySpec

-----------------------------------------------------------------------------
(* The lock. Its holder is whoever took it, the browser started under it, or the *)
(* thread that stopped that browser. A job outlives its entry only when an unload  *)
(* has overtaken it. Before the stop event no listener has run, and a job yet to  *)
(* be queued has taken nothing.                                                   *)

FutureJobs == \A b \in SetUps : b > setUps => job[b] = "none"

StoppersWait == ~stopping => \A b \in SetUps : stopper[b] = "off"

OutlivingIsOvertaken == \A b \in SetUps : Active(b) /\ entry # "loaded" => overtaken

HolderInv == LockHasHolder /\ StoppersWait /\ FutureJobs /\ OutlivingIsOvertaken

LEMMA JobKeepsHolder ==
  ASSUME DiscoveryTypeOK, HolderInv, NEW b \in SetUps, JobStep(b)
  PROVE  HolderInv'
<1> USE DEF DiscoveryTypeOK, HolderInv, StoppersWait, FutureJobs, OutlivingIsOvertaken, Active,
      LockHasHolder, JobOrphaned, Advance
<1>1. CASE JobAcquires(b)
  BY <1>1 DEF JobAcquires, Acquire
<1>2. CASE JobPublishes(b)
  BY <1>2 DEF JobPublishes, HasRuntimeData
<1>3. CASE JobStarts(b)
  BY <1>3 DEF JobStarts
<1>4. CASE JobListens(b)
  BY <1>4 DEF JobListens
<1>5. CASE JobEnds(b)
  BY <1>5 DEF JobEnds
<1>6. QED  BY <1>1, <1>2, <1>3, <1>4, <1>5 DEF JobStep

LEMMA UnloadKeepsHolder ==
  ASSUME DiscoveryTypeOK, HolderInv, BeginUnload \/ UnloadStep
  PROVE  HolderInv'
<1> USE DEF HolderInv, StoppersWait, FutureJobs, OutlivingIsOvertaken, Active, LockHasHolder,
      JobOrphaned
<1>1. CASE BeginUnload
  <2>1. unload.stage # "releasing"
    BY <1>1 DEF BeginUnload, DiscoveryTypeOK, Idle
  <2>2. overtaken' = (overtaken \/ \E b \in SetUps : Active(b))
    BY <1>1 DEF BeginUnload
  <2>3. QED  BY <1>1, <2>1, <2>2 DEF BeginUnload, DiscoveryTypeOK
<1>2. CASE UnloadDetaches
  BY <1>2 DEF UnloadDetaches
<1>3. CASE UnloadStops
  <2>1. unload'.stage = "releasing"
    BY <1>3 DEF UnloadStops, DiscoveryTypeOK, Idle, Unloaded
  <2>2. QED  BY <1>3, <2>1 DEF UnloadStops
<1>4. CASE UnloadReleases
  BY <1>4 DEF UnloadReleases, LockReleased, DiscoveryTypeOK, Idle
<1>5. CASE DropRuntimeData
  BY <1>5 DEF DropRuntimeData, DiscoveryTypeOK, Idle
<1>6. QED  BY <1>1, <1>2, <1>3, <1>4, <1>5 DEF UnloadStep

LEMMA StopKeepsHolder ==
  ASSUME DiscoveryTypeOK, HolderInv, NEW b \in SetUps, StopStep(b)
  PROVE  HolderInv'
<1> USE DEF HolderInv, StoppersWait, FutureJobs, OutlivingIsOvertaken, Active, LockHasHolder,
      JobOrphaned
<1>0. stopping
  BY DEF StopStep, StopDiscovery, StopReleases, StopClears
<1>1. CASE StopDiscovery(b)
  BY <1>0, <1>1 DEF StopDiscovery, DiscoveryTypeOK
<1>2. CASE StopReleases(b)
  BY <1>0, <1>2 DEF StopReleases
<1>3. CASE StopClears(b)
  BY <1>0, <1>3 DEF StopClears, DiscoveryTypeOK
<1>4. QED  BY <1>1, <1>2, <1>3 DEF StopStep

LEMMA StepKeepsHolder ==
  ASSUME DiscoveryTypeOK, HolderInv, [DiscoveryNext]_discoveryVars
  PROVE  HolderInv'
<1> USE DEF HolderInv, StoppersWait, FutureJobs, OutlivingIsOvertaken, Active, LockHasHolder,
      JobOrphaned
<1>1. CASE SetUpEntry
  <2>1. setUps \in Nat /\ setUps' = setUps + 1 /\ setUps' \in SetUps
    BY <1>1, DiscoveryAssumption DEF SetUpEntry, SetUps, DiscoveryTypeOK
  <2>2. job[setUps'] = "none"
    BY <2>1
  <2>3. \A b \in SetUps : b # setUps' => job'[b] = job[b]
    BY <1>1 DEF SetUpEntry, DiscoveryTypeOK
  <2>4. FutureJobs'
    BY <2>1, <2>3 DEF SetUps
  <2>5. QED  BY <1>1, <2>2, <2>3, <2>4 DEF SetUpEntry
<1>2. CASE FireStop
  BY <1>2 DEF FireStop, DiscoveryTypeOK
<1>3. CASE UNCHANGED discoveryVars
  BY <1>3 DEF discoveryVars
<1>4. QED
  BY <1>1, <1>2, <1>3, JobKeepsHolder, UnloadKeepsHolder, StopKeepsHolder DEF DiscoveryNext

LEMMA HolderHolds == DiscoverySpec => []HolderInv
<1>1. DiscoveryInit => HolderInv
  BY DEF DiscoveryInit, HolderInv, LockHasHolder, StoppersWait, FutureJobs,
     OutlivingIsOvertaken, Active
<1>2. DiscoveryTypeOK /\ HolderInv /\ [DiscoveryNext]_discoveryVars => HolderInv'
  BY StepKeepsHolder
<1>3. QED  BY <1>1, <1>2, DiscoveryTypeCorrect, PTL DEF DiscoverySpec

\* While the lock is held, someone goes on to release it or a browser discovers under
\* it, for any number of reloads; the one path that loses it is that of a job which
\* an unload overtook and which found no runtime data (discovery.py:75-152).
THEOREM LockIsLostOnlyByOrphans == DiscoverySpec => []LockHasHolder
<1>1. HolderInv => LockHasHolder
  BY DEF HolderInv
<1>2. QED  BY <1>1, HolderHolds, PTL

-----------------------------------------------------------------------------
(* Before the stop event the lock is released only by who holds it: the job that *)
(* took it, then whoever finds its browser in the entry, then the unload that    *)
(* took that browser away. There is at most one of them at a time.               *)

Acquired == {b \in SetUps : job[b] = "acquired"}

\* The unload has a browser to stop, and then the lock to release.
UnloadOwns == unload.stage \in {"detaching", "stopping", "releasing"}

OneOwner ==
    ~stopping =>
        /\ Acquired # {} => lock /\ browser = None /\ ~UnloadOwns
        /\ \A b, c \in Acquired : b = c
        /\ browser # None => lock /\ ~UnloadOwns
        /\ UnloadOwns => lock
        /\ entry # "failed_unload"

OwnerInv == OneOwner /\ FutureJobs /\ StoppersWait

LEMMA JobKeepsOwner ==
  ASSUME DiscoveryTypeOK, OneOwner, NEW b \in SetUps, JobStep(b)
  PROVE  OneOwner'
<1> USE DEF UnloadOwns
<1>1. CASE JobAcquires(b)
  BY <1>1 DEF JobAcquires, Acquire, Advance, DiscoveryTypeOK, OneOwner, Acquired, fieldVars
<1>2. CASE JobPublishes(b)
  <2>1. Acquired' = Acquired \ {b} /\ b \in Acquired
    BY <1>2 DEF JobPublishes, Advance, DiscoveryTypeOK, Acquired
  <2>2. QED  BY <1>2, <2>1 DEF JobPublishes, OneOwner
<1>3. CASE JobStarts(b)
  BY <1>3 DEF JobStarts, Advance, DiscoveryTypeOK, OneOwner, Acquired, fieldVars
<1>4. CASE JobListens(b)
  BY <1>4 DEF JobListens, Advance, DiscoveryTypeOK, OneOwner, Acquired, fieldVars
<1>5. CASE JobEnds(b)
  BY <1>5 DEF JobEnds, Advance, DiscoveryTypeOK, OneOwner, Acquired
<1>6. QED  BY <1>1, <1>2, <1>3, <1>4, <1>5 DEF JobStep

LEMMA UnloadKeepsOwner ==
  ASSUME DiscoveryTypeOK, OneOwner, BeginUnload \/ UnloadStep
  PROVE  OneOwner'
<1>0. ~UnloadOwns <=> unload \in {Idle, Unloaded}
  BY DEF UnloadOwns, Idle, Unloaded, DiscoveryTypeOK
<1>1. CASE BeginUnload
  <2>1. CASE BrowserKnown /\ UNCHANGED <<lock, stopping, job>> /\ browser' = None
    BY <1>1, <2>1 DEF BeginUnload, BrowserKnown, DiscoveryTypeOK, OneOwner, Acquired
  <2>2. CASE unload' = Unloaded /\ UNCHANGED <<lock, stopping, job, browser>>
    <3>1. ~UnloadOwns'
      BY <2>2 DEF UnloadOwns, Idle, Unloaded
    <3>2. QED  BY <1>0, <1>1, <2>2, <3>1 DEF BeginUnload, OneOwner, Acquired, DiscoveryTypeOK
  <2>3. QED  BY <1>1, <2>1, <2>2 DEF BeginUnload, fieldVars
<1>2. CASE UnloadDetaches
  BY <1>2 DEF UnloadDetaches, UnloadOwns, DiscoveryTypeOK, OneOwner, Acquired, fieldVars
<1>3. CASE UnloadStops
  BY <1>3 DEF UnloadStops, UnloadOwns, DiscoveryTypeOK, OneOwner, Acquired, fieldVars
<1>4. CASE UnloadReleases
  <2>1. UnloadOwns
    BY <1>4 DEF UnloadReleases, UnloadOwns
  <2>2. ~UnloadOwns'
    BY <1>4 DEF UnloadReleases, UnloadOwns, Idle, Unloaded
  <2>3. QED  BY <1>4, <2>1, <2>2 DEF UnloadReleases, LockReleased, OneOwner, Acquired, fieldVars
<1>5. CASE DropRuntimeData
  <2>1. ~UnloadOwns'
    BY <1>5 DEF DropRuntimeData, UnloadOwns, Idle
  <2>2. QED  BY <1>5, <2>1 DEF DropRuntimeData, OneOwner, Acquired
<1>6. QED  BY <1>1, <1>2, <1>3, <1>4, <1>5 DEF UnloadStep

LEMMA StepKeepsOwner ==
  ASSUME DiscoveryTypeOK, OwnerInv, [DiscoveryNext]_discoveryVars
  PROVE  OneOwner'
<1>1. CASE SetUpEntry
  <2>1. setUps \in Nat /\ setUps' = setUps + 1 /\ setUps' \in SetUps
    BY <1>1, DiscoveryAssumption DEF SetUpEntry, SetUps, DiscoveryTypeOK
  <2>2. Acquired' = Acquired
    <3>1. job[setUps'] = "none"
      BY <2>1 DEF OwnerInv, FutureJobs
    <3>2. QED  BY <1>1, <2>1, <3>1 DEF SetUpEntry, DiscoveryTypeOK, Acquired
  <2>3. QED  BY <1>1, <2>2 DEF SetUpEntry, OwnerInv, OneOwner, UnloadOwns
<1>2. CASE FireStop
  BY <1>2 DEF FireStop, OneOwner, UnloadOwns
<1>3. ASSUME NEW b \in SetUps, StopStep(b)
      PROVE  OneOwner'
  BY <1>3 DEF StopStep, StopDiscovery, StopReleases, StopClears, OwnerInv, StoppersWait, OneOwner,
     UnloadOwns
<1>4. CASE UNCHANGED discoveryVars
  BY <1>4 DEF discoveryVars, fieldVars, OwnerInv, OneOwner, Acquired, UnloadOwns
<1>5. QED
  BY <1>1, <1>2, <1>3, <1>4, JobKeepsOwner, UnloadKeepsOwner DEF DiscoveryNext, OwnerInv

\* Before the stop event an unload never releases a lock that is not held, for any
\* number of set-ups and unloads, also of those that overtake a job
\* (discovery.py:133-152).
THEOREM UnloadsFailOnlyAtStop == DiscoverySpec => []UnloadFailsOnlyAtStop
<1>1. DiscoveryInit => OneOwner
  BY DEF DiscoveryInit, OneOwner, Acquired, UnloadOwns, Idle
<1>2. DiscoveryTypeOK /\ HolderInv /\ OneOwner /\ [DiscoveryNext]_discoveryVars => OneOwner'
  BY StepKeepsOwner DEF HolderInv, OwnerInv
<1>3. OneOwner => UnloadFailsOnlyAtStop
  BY DEF OneOwner, UnloadFailsOnlyAtStop
<1>4. QED  BY <1>1, <1>2, <1>3, DiscoveryTypeCorrect, HolderHolds, PTL DEF DiscoverySpec

-----------------------------------------------------------------------------
(* One browser. While no unload overtakes a job, set-ups follow one another: the   *)
(* last one owns the browser, the fields and the lock until its unload has given   *)
(* them back, and a stop event ends the series.                                    *)

\* What is left of earlier set-ups.
OnlyLastLives ==
    /\ running \subseteq {setUps} /\ listeners \subseteq {setUps}
    /\ \A b \in SetUps : Active(b) => b = setUps /\ entry = "loaded"
    /\ \A b \in SetUps : stopper[b] # "off" => b = setUps
    /\ browser \in {setUps, None} /\ unsub \in {setUps, None}
    /\ UnloadOwns => unload.browser = setUps /\ unload.unsub \in {setUps, None}
    /\ entry = "loaded" => setUps \in SetUps

\* How far the thread of the last set-up is, and what it has left behind.
JobsInOrder ==
    \A b \in SetUps :
       /\ job[b] \in {"acquired", "published"} => lock
       /\ b \in running => job[b] \in {"discovering", "listening", "done"}
       /\ b \in listeners \/ stopper[b] # "off" => job[b] \in {"listening", "done"}
       /\ b \in running => lock /\ stopper[b] \in {"off", "queued"}

\* A browser that is unloaded is stopped before the lock is released, its listener
\* removed before that.
UnloadInOrder ==
    /\ unload.stage = "releasing" => running = {}
    /\ unload.stage \in {"stopping", "releasing"} /\ ~stopping => listeners = {}
    /\ unload.stage = "detaching" /\ ~stopping => unload.unsub = setUps
    /\ (unload.stage = "unloaded" \/ entry = "not_loaded") /\ ~stopping
         => running = {} /\ listeners = {} /\ ~lock

\* Until the stop event the fields of a loaded entry say what its job has done.
FieldsFollowJob ==
    \A b \in SetUps :
       ~stopping /\ entry = "loaded" /\ b = setUps =>
          /\ job[b] \notin {"none", "refused", "failed"}
          /\ job[b] = "queued" => ~lock
          /\ job[b] \in {"published", "discovering", "listening", "done"} => browser = b
          /\ job[b] = "done" => unsub = b

SeriesInv ==
    ~overtaken => OnlyLastLives /\ JobsInOrder /\ UnloadInOrder /\ FieldsFollowJob

LEMMA JobKeepsSeries ==
  ASSUME DiscoveryTypeOK, SeriesInv, NEW b \in SetUps, JobStep(b)
  PROVE  SeriesInv'
<1> SUFFICES ASSUME ~overtaken
             PROVE  OnlyLastLives' /\ JobsInOrder' /\ UnloadInOrder' /\ FieldsFollowJob'
  BY DEF SeriesInv, JobStep, JobAcquires, JobPublishes, JobStarts, JobListens, JobEnds
<1> USE DEF DiscoveryTypeOK, SeriesInv, OnlyLastLives, JobsInOrder, UnloadInOrder,
      FieldsFollowJob, UnloadOwns, HasRuntimeData, Active, Advance, fieldVars
<1>1. CASE JobAcquires(b)
  <2>1. b = setUps /\ entry = "loaded"
    BY <1>1 DEF JobAcquires, Acquire
  <2>2. job[b] = "queued" /\ lock' = TRUE
        /\ job' = [job EXCEPT ![b] = IF lock THEN "refused" ELSE "acquired"]
        /\ UNCHANGED <<entry, setUps, running, browser, unsub, listeners, unload, stopper, stopping>>
    BY <1>1 DEF JobAcquires, Acquire
  <2>3. OnlyLastLives'
    BY <2>1, <2>2
  <2>4. JobsInOrder'
    BY <2>1, <2>2
  <2>5. UnloadInOrder'
    BY <2>1, <2>2 DEF Idle
  <2>6. FieldsFollowJob'
    BY <2>1, <2>2
  <2>7. QED  BY <2>3, <2>4, <2>5, <2>6
<1>2. CASE JobPublishes(b)
  BY <1>2 DEF JobPublishes
<1>3. CASE JobStarts(b)
  <2>1. OnlyLastLives'
    BY <1>3 DEF JobStarts
  <2>2. JobsInOrder'
    <3>1. \A c \in SetUps : job'[c] = IF c = b THEN "discovering" ELSE job[c]
      BY <1>3 DEF JobStarts
    <3>2. job[b] = "published" /\ running' = running \cup {b}
          /\ UNCHANGED <<lock, listeners, stopper>>
      BY <1>3 DEF JobStarts
    <3>3. lock /\ stopper[b] = "off" /\ b \notin listeners
      BY <3>2
    <3>4. QED  BY <3>1, <3>2, <3>3
  <2>3. UnloadInOrder'
    BY <1>3 DEF JobStarts, Idle
  <2>4. FieldsFollowJob'
    BY <1>3 DEF JobStarts
  <2>5. QED  BY <2>1, <2>2, <2>3, <2>4
<1>4. CASE JobListens(b)
  <2>1. OnlyLastLives'
    BY <1>4 DEF JobListens
  <2>2. JobsInOrder'
    <3>1. \A c \in SetUps : job'[c] = IF c = b THEN "listening" ELSE job[c]
      BY <1>4 DEF JobListens
    <3>2. listeners' = listeners \cup {b} /\ UNCHANGED <<lock, running, stopper>>
      BY <1>4 DEF JobListens
    <3>3. QED  BY <3>1, <3>2
  <2>3. UnloadInOrder'
    BY <1>4 DEF JobListens, Idle
  <2>4. FieldsFollowJob'
    BY <1>4 DEF JobListens
  <2>5. QED  BY <2>1, <2>2, <2>3, <2>4
<1>5. CASE JobEnds(b)
  BY <1>5 DEF JobEnds
<1>6. QED  BY <1>1, <1>2, <1>3, <1>4, <1>5 DEF JobStep

\* The fields are cleared as the unload takes what they held.
UnloadTakes == browser' = None /\ unsub' = None

LEMMA UnloadKeepsSeries ==
  ASSUME DiscoveryTypeOK, SeriesInv, BeginUnload \/ UnloadStep
  PROVE  SeriesInv'
<1>0. ~overtaken' => ~overtaken
  BY DEF BeginUnload, UnloadStep, UnloadDetaches, UnloadStops, UnloadReleases, DropRuntimeData
<1> SUFFICES ASSUME ~overtaken, ~overtaken'
             PROVE  OnlyLastLives' /\ JobsInOrder' /\ UnloadInOrder' /\ FieldsFollowJob'
  BY <1>0 DEF SeriesInv
<1> USE DEF DiscoveryTypeOK, SeriesInv, OnlyLastLives, JobsInOrder, UnloadInOrder,
      FieldsFollowJob, UnloadOwns, Active, fieldVars
<1>1. CASE BeginUnload
  <2>1. \A b \in SetUps : ~Active(b)
    BY <1>1 DEF BeginUnload
  <2>2. entry = "loaded" /\ setUps \in SetUps /\ unload = Idle
    BY <1>1 DEF BeginUnload
  <2>3. ~stopping => job[setUps] = "done" /\ browser = setUps /\ unsub = setUps
    BY <2>1, <2>2
  <2>4. UNCHANGED <<setUps, job, lock, running, listeners, stopper, stopping>>
    BY <1>1 DEF BeginUnload
  <2>5. CASE browser # None /\ entry' = "unloading" /\ unload' = Taken /\ UnloadTakes
    <3>1. unload'.stage \in {"detaching", "stopping"} /\ unload'.browser = setUps
          /\ unload'.unsub = unsub
      BY <2>5 DEF Taken
    <3>2. ~stopping => unload'.stage = "detaching"
      BY <2>3, <2>5, <2>2 DEF Taken, SetUps, None
    <3>3. OnlyLastLives'
      BY <2>1, <2>4, <2>5, <3>1 DEF UnloadTakes
    <3>4. JobsInOrder'
      BY <2>4
    <3>5. UnloadInOrder'
      BY <2>3, <2>4, <2>5, <3>1, <3>2
    <3>6. FieldsFollowJob'
      BY <2>5
    <3>7. QED  BY <3>3, <3>4, <3>5, <3>6
  <2>6. CASE browser = None /\ entry' = "unloading" /\ unload' = Unloaded /\ UNCHANGED fieldVars
    <3>1. stopping
      BY <2>2, <2>3, <2>6 DEF SetUps, None
    <3>2. unload'.stage = "unloaded"
      BY <2>6 DEF Unloaded, Idle
    <3>3. OnlyLastLives' /\ JobsInOrder'
      BY <2>1, <2>2, <2>4, <2>6, <3>2
    <3>4. UnloadInOrder' /\ FieldsFollowJob'
      BY <2>2, <2>4, <2>6, <3>1, <3>2
    <3>5. QED  BY <3>3, <3>4
  <2>7. QED  BY <1>1, <2>5, <2>6 DEF BeginUnload, BrowserKnown, UnloadTakes
<1>2. CASE UnloadDetaches
  <2>1. unload'.stage = "stopping" /\ unload'.browser = unload.browser /\ unload'.unsub = unload.unsub
    BY <1>2 DEF UnloadDetaches, Idle, Unloaded
  <2>2. QED  BY <1>2, <2>1 DEF UnloadDetaches
<1>3. CASE UnloadStops
  <2>1. unload'.stage = "releasing" /\ unload'.browser = unload.browser /\ unload'.unsub = unload.unsub
    BY <1>3 DEF UnloadStops, Idle, Unloaded
  <2>2. QED  BY <1>3, <2>1 DEF UnloadStops, BrowserToStop
<1>4. CASE UnloadReleases
  <2>1. entry = "unloading" /\ running = {}
    BY <1>4 DEF UnloadReleases, Idle
  <2>2. unload'.stage \in {"idle", "unloaded"} /\ (lock => unload'.stage = "unloaded" /\ entry' = entry)
        /\ (~lock => entry' = "failed_unload")
    BY <1>4 DEF UnloadReleases, Idle, Unloaded
  <2>3. UNCHANGED <<setUps, job, running, browser, unsub, listeners, stopper, stopping>> /\ ~lock'
    BY <1>4 DEF UnloadReleases, LockReleased
  <2>4. OnlyLastLives'
    BY <2>1, <2>2, <2>3
  <2>5. JobsInOrder'
    BY <2>1, <2>3
  <2>6. UnloadInOrder' /\ FieldsFollowJob'
    BY <1>4, <2>1, <2>2, <2>3 DEF UnloadReleases
  <2>7. QED  BY <2>4, <2>5, <2>6
<1>5. CASE DropRuntimeData
  <2>1. unload'.stage = "idle" /\ entry' = "not_loaded" /\ browser' = None /\ unsub' = None
        /\ entry = "unloading"
    BY <1>5 DEF DropRuntimeData, Idle
  <2>2. UNCHANGED <<setUps, job, lock, running, listeners, stopper, stopping>>
    BY <1>5 DEF DropRuntimeData
  <2>3. QED  BY <1>5, <2>1, <2>2 DEF DropRuntimeData
<1>6. QED  BY <1>1, <1>2, <1>3, <1>4, <1>5 DEF UnloadStep

LEMMA StopKeepsSeries ==
  ASSUME DiscoveryTypeOK, StoppersWait, SeriesInv, NEW b \in SetUps, StopStep(b)
  PROVE  SeriesInv'
<1> SUFFICES ASSUME ~overtaken
             PROVE  OnlyLastLives' /\ JobsInOrder' /\ UnloadInOrder' /\ FieldsFollowJob'
  BY DEF SeriesInv, StopStep, StopDiscovery, StopReleases, StopClears
<1> USE DEF DiscoveryTypeOK, StoppersWait, SeriesInv, OnlyLastLives, JobsInOrder,
      UnloadInOrder, FieldsFollowJob, UnloadOwns, Active, fieldVars
<1>1. CASE StopDiscovery(b)
  BY <1>1 DEF StopDiscovery
<1>2. CASE StopReleases(b)
  BY <1>2 DEF StopReleases
<1>3. CASE StopClears(b)
  BY <1>3 DEF StopClears
<1>4. QED  BY <1>1, <1>2, <1>3 DEF StopStep

LEMMA StepKeepsSeries ==
  ASSUME DiscoveryTypeOK, StoppersWait, SeriesInv, [DiscoveryNext]_discoveryVars
  PROVE  SeriesInv'
<1> USE DEF DiscoveryTypeOK, StoppersWait, SeriesInv, OnlyLastLives, JobsInOrder,
      UnloadInOrder, FieldsFollowJob, UnloadOwns, Active, fieldVars
<1>1. CASE SetUpEntry
  <2>1. setUps + 1 \in SetUps
    BY <1>1, DiscoveryAssumption DEF SetUpEntry, SetUps
  <2>2. setUps' = setUps + 1 /\ entry' = "loaded" /\ browser' = None /\ unsub' = None
        /\ job' = [job EXCEPT ![setUps'] = "queued"]
        /\ UNCHANGED <<lock, running, listeners, unload, stopper, stopping, overtaken>>
    BY <1>1 DEF SetUpEntry
  <2>3. entry = "not_loaded" /\ ~stopping /\ unload = Idle
    BY <1>1 DEF SetUpEntry
  <2>4. CASE ~overtaken
    <3>1. running = {} /\ listeners = {} /\ ~lock /\ \A b \in SetUps : stopper[b] = "off" /\ ~Active(b)
      BY <2>3, <2>4
    <3>2. \A b \in SetUps : job'[b] = IF b = setUps' THEN "queued" ELSE job[b]
      BY <2>1, <2>2
    <3>3. OnlyLastLives'
      BY <2>1, <2>2, <2>3, <3>1, <3>2 DEF Idle
    <3>4. JobsInOrder'
      BY <2>2, <3>1, <3>2
    <3>5. UnloadInOrder'
      BY <2>2, <2>3, <3>1 DEF Idle
    <3>6. FieldsFollowJob'
      BY <2>2, <3>1, <3>2
    <3>7. QED  BY <3>3, <3>4, <3>5, <3>6
  <2>5. QED  BY <2>2, <2>4
<1>2. CASE FireStop
  BY <1>2 DEF FireStop
<1>3. CASE UNCHANGED discoveryVars
  BY <1>3 DEF discoveryVars
<1>4. QED
  BY <1>1, <1>2, <1>3, JobKeepsSeries, UnloadKeepsSeries, StopKeepsSeries DEF DiscoveryNext

\* At most one browser discovers, and under the lock, for any number of reloads and
\* whenever Home Assistant stops, as long as no unload overtakes a set-up job
\* (discovery.py:82-84).
THEOREM OneBrowserDiscovers == DiscoverySpec => []OneBrowser
<1>1. DiscoveryInit => SeriesInv
  BY DEF DiscoveryInit, SeriesInv, OnlyLastLives, JobsInOrder, UnloadInOrder, FieldsFollowJob,
     UnloadOwns, Active, Idle, None
<1>2. DiscoveryTypeOK /\ HolderInv /\ SeriesInv /\ [DiscoveryNext]_discoveryVars => SeriesInv'
  BY StepKeepsSeries DEF HolderInv
<1>3. DiscoveryTypeOK /\ SeriesInv => OneBrowser
  <2> SUFFICES ASSUME DiscoveryTypeOK, SeriesInv, ~overtaken
               PROVE  Cardinality(running) <= 1 /\ (running # {} => lock)
    BY DEF OneBrowser
  <2>1. running \subseteq {setUps}
    BY DEF SeriesInv, OnlyLastLives
  <2>2. Cardinality({setUps}) = 1 /\ IsFiniteSet({setUps})
    BY FS_Singleton
  <2>3. Cardinality(running) <= 1
    BY <2>1, <2>2, FS_Subset
  <2>4. running # {} => lock
    BY DEF SeriesInv, JobsInOrder, DiscoveryTypeOK
  <2>5. QED  BY <2>3, <2>4
<1>4. QED  BY <1>1, <1>2, <1>3, DiscoveryTypeCorrect, HolderHolds, PTL DEF DiscoverySpec
=============================================================================
