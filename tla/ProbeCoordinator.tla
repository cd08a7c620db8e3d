--------------------------- MODULE ProbeCoordinator ---------------------------
(***************************************************************************)
(* Active probing (coordinator.py) beside the playback of the entities it  *)
(* probes: the refresh that decides per device, the background task that   *)
(* runs a probe, and the circuit breaker, a ledger listener that every     *)
(* record reaches in the step that writes it, whoever wrote it.            *)
(*                                                                         *)
(* Time appears as two things only: the ticks a circuit stays open for,    *)
(* and the order of the timeouts of one probe (20 s watchdog, 30 s request *)
(* timer, 35 s wait), which holds while the event loop does not stall for  *)
(* the seconds between them.                                               *)
(***************************************************************************)
EXTENDS MediaPlayer

CONSTANTS
    ProbeClip,                      \* the URL of the clip the probe plays
    Interval,                       \* probe_interval, in ticks
    CIRCUIT_BREAKER_TIMEOUTS,
    CIRCUIT_BREAKER_MAX_BACKOFF     \* in ticks

ASSUME ProbeAssumption ==
    /\ ProbeClip \in Contents
    /\ Interval \in Nat \ {0}
    /\ CIRCUIT_BREAKER_TIMEOUTS \in Nat \ {0}
    /\ CIRCUIT_BREAKER_MAX_BACKOFF \in Nat \ {0}
    /\ None \notin Nat

VARIABLES
    circuit,    \* circuit_open_until: None, or the ticks left (0: half-open)
    probe,      \* the background task of the device's probe
    scheduled   \* the coordinator listens to the ledger and refreshes

probeVars == <<circuit, probe, scheduled>>
coordinatorVars == <<mediaPlayerVars, probeVars>>

\* phase: where the task is: in quick_play, waiting for the verdict, quitting
\* the app it launched. "off" when uuid is not in _running. id is the request it
\* began, app_idle what the snapshot said before it did.
ProbeTask ==
    [phase : {"off", "playing", "waiting", "quitting"}, id : Nat, app_idle : BOOLEAN]

Running(d) == probe[d].phase # "off"

ProbePending(d) == ~Settled(d) /\ pending[d].source = "probe"

LastOutcome(log) == log[Len(log)].outcome

-----------------------------------------------------------------------------
(* The circuit breaker. *)

\* 2^exponent intervals, capped, for the n-th timeout in a row. The exponent is
\* n - CIRCUIT_BREAKER_TIMEOUTS + 1; the cap is reached long before it is.
Backoff(n) ==
    LET ticks == Interval * 2 ^ (n - CIRCUIT_BREAKER_TIMEOUTS + 1)
        cap == CIRCUIT_BREAKER_MAX_BACKOFF
    IN  IF ticks \in 1 .. cap THEN ticks ELSE cap

\* The counter the listener reads is that with the record in. Slip: without it.
TimeoutsBefore(d) == health[d].consecutive_timeouts
TimeoutsNow(d) == health'[d].consecutive_timeouts

\* _async_on_record, run by _append once the record and the counters are in.
Reaction(d) ==
    LET record == records'[d][Len(records'[d])]
    IN  CASE record.source # "probe" -> circuit[d]
          [] record.source = "probe" /\ record.outcome = "ok" -> None
          [] /\ record.source = "probe" /\ record.outcome = "timeout"
             /\ TimeoutsNow(d) >= CIRCUIT_BREAKER_TIMEOUTS -> Backoff(TimeoutsNow(d))
          [] OTHER -> circuit[d]

OnRecord ==
    circuit' = [d \in Devices |->
       IF scheduled /\ Len(records'[d]) > Len(records[d]) THEN Reaction(d) ELSE circuit[d]]

\* A tick of the clock: every open circuit is that much nearer to half-open.
Tick ==
    /\ \E d \in Devices : circuit[d] \notin {None, 0}
    /\ circuit' = [d \in Devices |->
         IF circuit[d] \in {None, 0} THEN circuit[d] ELSE circuit[d] - 1]
    /\ UNCHANGED <<mediaPlayerVars, probe, scheduled>>

-----------------------------------------------------------------------------
(* The refresh: _async_update_data decides for one device after another with *)
(* no await between the decision and the eager start of the probe.           *)

\* The decisions that skip the device (probing or its group or video option off,
\* circuit open, probe still running) change nothing and are not steps. Slips:
\* the running probe, or the open circuit, is not looked at.
MayProbeAgain(d) == scheduled
CircuitIgnored(d) == TRUE
MayProbe(d) == scheduled /\ ~Running(d)
CircuitAllows(d) == circuit[d] \in {None, 0}

\* _decide: probe_snapshot is None.
RecordUnreachable(d) ==
    /\ MayProbe(d)
    /\ RecordOutcome(d, "unreachable", "probe")
    /\ OnRecord
    /\ UNCHANGED <<playerVars, probe, scheduled>>

\* _decide: the snapshot, of the player's own state or of a group's, is busy.
RecordBusy(d) ==
    /\ MayProbe(d) /\ CircuitAllows(d)
    /\ RecordOutcome(d, "skipped_busy", "probe")
    /\ OnRecord
    /\ UNCHANGED <<playerVars, probe, scheduled>>

\* The new task of a device.
NewTask(id, app_idle) == [phase |-> "playing", id |-> id, app_idle |-> app_idle]

\* The eager start of _async_probe, up to its first await.
StartProbe(d, app_idle, session) ==
    /\ MayProbe(d) /\ CircuitAllows(d)
    /\ BeginRequest(d, ProbeClip, "probe", session)
    /\ OnRecord
    /\ probe' = [probe EXCEPT ![d] = NewTask(begun'[d], app_idle)]
    /\ UNCHANGED <<playerVars, scheduled>>

-----------------------------------------------------------------------------
(* The probe task. *)

Move(d, phase) == probe' = [probe EXCEPT ![d].phase = phase]

ProbePlayed(d) ==
    /\ probe[d].phase = "playing"
    /\ Move(d, "waiting")
    /\ UNCHANGED <<mediaPlayerVars, circuit, scheduled>>

\* The failure is reported without the connection state and the launch failure.
\* Slip: the task clears the request itself and reports nothing.
ClearRequest(d, err) ==
    /\ pending' = [pending EXCEPT ![d] = None]
    /\ UNCHANGED <<timers, begun, health, records, closed>>

ReportFailure(d, err) == RequestFailed(d, err, FALSE)

\* quick_play raised, or the PROBE_WATCHDOG ended the wait for it.
ProbeFailed(d, err) ==
    /\ probe[d].phase = "playing"
    /\ ReportFailure(d, err)
    /\ OnRecord
    /\ Move(d, "off")
    /\ UNCHANGED <<playerVars, scheduled>>

\* _async_wait_for_outcome finds no probe pending any more and takes the outcome
\* of the device's last record for the probe's.
ProbeSettled(d) ==
    /\ probe[d].phase = "waiting"
    /\ ~ProbePending(d)
    /\ Move(d, IF LastOutcome(records[d]) = "ok" /\ probe[d].app_idle
                 THEN "quitting" ELSE "off")
    /\ UNCHANGED <<mediaPlayerVars, circuit, scheduled>>

\* The deadline of _async_wait_for_outcome is behind the request's timer, which
\* was cancelled. Slips: it is before it, or there is none.
DeadlineAnyTime(d) == TRUE
DeadlineNever(d) == FALSE
DeadlinePassed(d) == pending[d].id \notin timers[d]

\* _async_wait_for_outcome gives up.
ProbeGivesUp(d) ==
    /\ probe[d].phase = "waiting"
    /\ ProbePending(d) /\ DeadlinePassed(d)
    /\ Move(d, "off")
    /\ UNCHANGED <<mediaPlayerVars, circuit, scheduled>>

\* _async_restore_idle: quit_app returned, raised or was timed out.
AppQuit(d) ==
    /\ probe[d].phase = "quitting"
    /\ Move(d, "off")
    /\ UNCHANGED <<mediaPlayerVars, circuit, scheduled>>

-----------------------------------------------------------------------------
(* The coordinator beside the entities. *)

CoordinatorInit ==
    /\ MediaPlayerInit
    /\ circuit = [d \in Devices |-> None]
    /\ probe = [d \in Devices |-> [phase |-> "off", id |-> 0, app_idle |-> FALSE]]
    /\ scheduled = TRUE

\* async_shutdown_probes, on unload before the ledger is shut down; a probe
\* that runs goes on.
StopProbes ==
    /\ scheduled
    /\ scheduled' = FALSE
    /\ UNCHANGED <<mediaPlayerVars, circuit, probe>>

UnloadLedger ==
    /\ ~scheduled
    /\ StopLedger
    /\ UNCHANGED probeVars

\* What others do to the ledger, with the listener that hears of it.
OthersStart ==
    /\ ServiceStep \/ \E d \in Devices : DeviceReport(d)
    /\ OnRecord
    /\ UNCHANGED <<probe, scheduled>>

QuickPlayDone(c) == QuickPlayEnds(c) /\ OnRecord /\ UNCHANGED <<probe, scheduled>>

\* The timer of a request, but never that of a probe still in quick_play: the
\* PROBE_WATCHDOG is shorter.
TimerDone(d) ==
    /\ ~(probe[d].phase = "playing" /\ ~Settled(d) /\ pending[d].id = probe[d].id)
    /\ RequestTimer(d)
    /\ OnRecord
    /\ UNCHANGED <<probe, scheduled>>

RefreshStep(d) ==
    \/ RecordUnreachable(d)
    \/ RecordBusy(d)
    \/ \E app_idle \in BOOLEAN, session \in Sessions \cup {None} :
          StartProbe(d, app_idle, session)

ProbeReturns(d) == ProbePlayed(d) \/ \E err \in Errors : ProbeFailed(d, err)

ProbeStep(d) == ProbeReturns(d) \/ ProbeSettled(d) \/ ProbeGivesUp(d) \/ AppQuit(d)

Starts == OthersStart \/ (\E d \in Devices : RefreshStep(d)) \/ StopProbes \/ UnloadLedger

Ends ==
    \/ \E c \in Calls : QuickPlayDone(c)
    \/ \E d \in Devices : TimerDone(d) \/ ProbeStep(d)
    \/ Tick

CoordinatorNext == Starts \/ Ends

CoordinatorSpec == CoordinatorInit /\ [][CoordinatorNext]_coordinatorVars

BoundedCoordinatorNext == (Starts /\ WithinBounds') \/ Ends

BoundedCoordinatorSpec == CoordinatorInit /\ [][BoundedCoordinatorNext]_coordinatorVars

\* The loop runs its timers and resumes its tasks; quick_play and quit_app are
\* awaited behind a watchdog, so the wait for them ends.
FairCoordinatorSpec ==
    /\ BoundedCoordinatorSpec
    /\ \A d \in Devices :
          /\ WF_coordinatorVars(TimerDone(d))
          /\ WF_coordinatorVars(ProbeReturns(d))
          /\ WF_coordinatorVars(ProbeSettled(d))
          /\ WF_coordinatorVars(ProbeGivesUp(d))
          /\ WF_coordinatorVars(AppQuit(d))

-----------------------------------------------------------------------------
(* Properties. *)

CoordinatorTypeOK ==
    /\ MediaPlayerTypeOK
    /\ circuit \in [Devices -> Nat \cup {None}]
    /\ probe \in [Devices -> ProbeTask]
    /\ scheduled \in BOOLEAN

\* A probe request that is pending is the one its device's task began and still
\* waits for: the task never ends before its request is settled, so the next
\* refresh can neither supersede nor settle it (_running, the finally clause of
\* _async_probe). Only a ledger that was shut down can leave one behind.
ProbePendingIsAwaited ==
    \A d \in Devices :
       (ProbePending(d) /\ ~closed)
          => probe[d].phase \in {"playing", "waiting"} /\ probe[d].id = pending[d].id

\* While a circuit is open nothing is being probed: no probe outlives the
\* timeout that opens the circuit, whoever reports it (_async_on_record).
OpenCircuitIsSilent ==
    \A d \in Devices :
       circuit[d] \notin {None, 0} => ~ProbePending(d)

\* The circuit is what the log says: open or half-open exactly if some probe
\* timeout was at least the second timeout in a row and no probe succeeded since
\* (_async_on_record reads the counters as _append left them).
OpensAt(log, k) ==
    /\ log[k].source = "probe" /\ log[k].outcome = "timeout"
    /\ Cardinality(TimeoutRun(SubSeq(log, 1, k))) >= CIRCUIT_BREAKER_TIMEOUTS

ProbeOkAt(log, k) == log[k].source = "probe" /\ log[k].outcome = "ok"

CircuitMatchesLog ==
    scheduled =>
       \A d \in Devices :
          LET log == records[d]
          IN  (circuit[d] # None) <=>
                 \E k \in DOMAIN log :
                    OpensAt(log, k) /\ \A j \in DOMAIN log : j > k => ~ProbeOkAt(log, j)

\* No refresh takes part in a probe that is under way: what it records of a device it
\* passes over, unreachable or skipped_busy, is the verdict of no probe, though
\* async_record settles a pending request of its own source, and the probe it starts
\* supersedes none (_decide after the _running check).
RefreshesSettleNoProbe ==
    [][\A d \in Devices : RefreshStep(d) =>
          \A k \in DOMAIN records'[d] \ DOMAIN records[d] :
             records'[d][k].req # 0 => records'[d][k].source # "probe"]_coordinatorVars

\* Every probe ends, through a ledger that is shut down too, so its device is
\* probed again (_async_wait_for_outcome is bounded).
ProbesEnd ==
    \A d \in Devices : \A i \in 1 .. MaxRequests :
       (Running(d) /\ probe[d].id = i) ~> ~(Running(d) /\ probe[d].id = i)

(* What the documents say and the code does not do. *)

\* "After a successful probe on a device whose app was idle beforehand, the media
\* receiver is quit" (DESIGN.md, section 9): the probe's own success.
QuitsAfterOwnSuccess ==
    \A d \in Devices :
       probe[d].phase = "quitting" =>
          \E k \in DOMAIN records[d] :
             records[d][k].req = probe[d].id /\ records[d][k].outcome = "ok"

=============================================================================
