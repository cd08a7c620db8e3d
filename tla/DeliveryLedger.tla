--------------------------- MODULE DeliveryLedger ---------------------------
(***************************************************************************)
(* The delivery ledger (health.py): one pending play request per device,   *)
(* the timer that expires it, and the log and counters its verdicts feed.  *)
(* Every handler runs to completion on the event loop, so each is one      *)
(* action; their order is left open.                                       *)
(*                                                                         *)
(* A request is identified by the order in which it was begun on its       *)
(* device. The code has no such id: it knows a request only as the object  *)
(* in health.pending, and the ids here are what lets the properties speak  *)
(* of a request after that reference is gone.                              *)
(***************************************************************************)
EXTENDS DeliveryOutcomes, Naturals, Sequences, FiniteSets

CONSTANTS
    Devices,        \* uuids of the Cast devices
    Contents,       \* content ids (URLs) that are asked for or reported
    Sessions,       \* media session ids the devices number their sessions with
    None,           \* Python's None
    MaxRequests,    \* bound: requests begun per device
    MaxUnsolicited  \* bound: records per device that settle no request

ASSUME NoneAssumption == None \notin Contents \cup Sessions

VARIABLES
    pending,    \* DeviceHealth.pending: the unresolved request, or None
    timers,     \* ids of the requests whose _expire callback is scheduled
    begun,      \* how many requests were begun on the device
    health,     \* the outcome and counters of DeviceHealth
    records,    \* DeliveryLedger.records of the device, oldest first
    closed      \* async_shutdown ran

ledgerVars == <<pending, timers, begun, health, records, closed>>

PendingRequest ==
    [id : Nat \ {0}, content : Contents, source : RequestSources,
     session_at_request : Sessions \cup {None}]

ASSUME NonePendingAssumption == None \notin PendingRequest

\* req is the id of the request the record settles, 0 if it settles none.
DeliveryRecord ==
    [req : Nat, source : Sources, outcome : DeliveryOutcome, responded : BOOLEAN]

DeviceHealth ==
    [last_outcome : DeliveryOutcome, consecutive_failures : Nat,
     consecutive_timeouts : Nat]

\* A media status as the ledger reads it. kind is "error" for an idle player
\* with idleReason ERROR, "active" for BUFFERING and PLAYING, else "other".
MediaStatus ==
    [kind : {"error", "active", "other"}, content : Contents \cup {None},
     session : Sessions \cup {None}]

-----------------------------------------------------------------------------
(* The log and the counters. *)

\* What _append makes of last_outcome and of the two counters. An operator marked
\* "slip" is none of the program's: it is a mistake the code has to avoid, kept
\* beside the right form to show which property would notice it.
ShownOutcome(h, outcome) == IF outcome \in Neutral THEN h.last_outcome ELSE outcome

Failures(h, outcome) ==
    CASE outcome = "ok"                -> 0
      [] outcome \in FAILURE_OUTCOMES  -> h.consecutive_failures + 1
      [] OTHER                         -> h.consecutive_failures

\* Slip: the counter restarts at a neutral record.
TimeoutsUnbroken(h, outcome) ==
    IF outcome = "timeout" THEN h.consecutive_timeouts + 1 ELSE 0

Timeouts(h, outcome) ==
    CASE outcome = "timeout" -> h.consecutive_timeouts + 1
      [] outcome \in Neutral -> h.consecutive_timeouts
      [] OTHER               -> 0

\* Slip: the counters are left out of the health that is stored.
TallyOutcomeOnly(h, outcome) == [last_outcome |-> ShownOutcome(h, outcome)]

Tally(h, outcome) ==
    [last_outcome |-> ShownOutcome(h, outcome),
     consecutive_failures |-> Failures(h, outcome),
     consecutive_timeouts |-> Timeouts(h, outcome)]

\* _append: log the record and let it count.
LogRecord(d, req, source, v) ==
    /\ records' = [records EXCEPT ![d] =
         Append(@, [req |-> req, source |-> source,
                    outcome |-> v.outcome, responded |-> v.responded])]
    /\ health' = [health EXCEPT ![d] = Tally(@, v.outcome)]

Settled(d) == pending[d] = None

\* What _resolve logs: the pending request, or an observation when there is none.
LogVerdict(d, v) ==
    IF Settled(d) THEN LogRecord(d, 0, "observed", v)
                  ELSE LogRecord(d, pending[d].id, pending[d].source, v)

\* The timers of the device once that of its pending request is cancelled.
\* Slip: it is not.
EveryTimer(d) == timers[d]

OtherTimers(d) == IF Settled(d) THEN timers[d] ELSE timers[d] \ {pending[d].id}

\* _resolve: the pending request, whoever it belongs to, is settled and its
\* timer cancelled.
Resolve(d, v) ==
    /\ pending' = [pending EXCEPT ![d] = None]
    /\ timers' = [timers EXCEPT ![d] = OtherTimers(d)]
    /\ LogVerdict(d, v)
    /\ UNCHANGED <<begun, closed>>

-----------------------------------------------------------------------------
(* The handlers. *)

Init ==
    /\ pending = [d \in Devices |-> None]
    /\ timers = [d \in Devices |-> {}]
    /\ begun = [d \in Devices |-> 0]
    /\ health = [d \in Devices |-> [last_outcome |-> "unknown",
                     consecutive_failures |-> 0, consecutive_timeouts |-> 0]]
    /\ records = [d \in Devices |-> <<>>]
    /\ closed = FALSE

\* async_begin_request settles an unresolved older request as superseded. Slips:
\* it vanishes without a record, or is counted as a failure of the device.
ForgetOlder(d) == UNCHANGED <<health, records>>

FailOlder(d) ==
    IF Settled(d) THEN UNCHANGED <<health, records>>
                  ELSE LogVerdict(d, Verdict("timeout", FALSE))

Supersede(d) ==
    IF Settled(d) THEN UNCHANGED <<health, records>>
                  ELSE LogVerdict(d, Verdict("unknown", FALSE))

BeginRequest(d, content, source, session) ==
    /\ begun' = [begun EXCEPT ![d] = @ + 1]
    /\ pending' = [pending EXCEPT ![d] =
         [id |-> begun[d] + 1, content |-> content, source |-> source,
          session_at_request |-> session]]
    /\ timers' = [timers EXCEPT ![d] = OtherTimers(d) \cup {begun[d] + 1}]
    /\ Supersede(d)
    /\ UNCHANGED closed

\* Slip: the timer fires for its own request and finds it stale.
ExpireIdly(d) ==
    /\ timers[d] # {}
    /\ timers' = [timers EXCEPT ![d] = {}]
    /\ UNCHANGED <<pending, begun, health, records, closed>>

\* _expire: a scheduled timer fires. Only the timer of the request that is
\* still pending settles it.
Expire(d) ==
    \E id \in timers[d] :
       IF Settled(d) \/ pending[d].id # id
       THEN /\ timers' = [timers EXCEPT ![d] = @ \ {id}]
            /\ UNCHANGED <<pending, begun, health, records, closed>>
       ELSE Resolve(d, Verdict("timeout", FALSE))

\* async_media_status, the branch that keeps the request pending: an ERROR
\* that names other media is an observation of its own.
Foreign(d, s) ==
    s.kind = "error" /\ ~Settled(d) /\ s.content \notin {None, pending[d].content}

\* async_media_status, the confirming branch: the device is loading or playing
\* the content asked for, in a session younger than the request.
Confirms(d, s) ==
    /\ s.kind = "active"
    /\ ~Settled(d)
    /\ s.content = pending[d].content
    /\ \/ pending[d].session_at_request = None
       \/ s.session # pending[d].session_at_request

ObserveForeignError(d, s) ==
    /\ Foreign(d, s)
    /\ LogRecord(d, 0, "observed", Verdict("fetch_failed", TRUE))
    /\ UNCHANGED <<pending, timers, begun, closed>>

FailOnError(d, s) ==
    /\ s.kind = "error" /\ ~Foreign(d, s)
    /\ Resolve(d, Verdict("fetch_failed", TRUE))

Confirm(d, s) ==
    /\ Confirms(d, s)
    /\ Resolve(d, Verdict("ok", TRUE))

\* Stale metadata, another content id, a paused or idle player: no verdict.
IgnoreStatus(d, s) ==
    /\ s.kind # "error" /\ ~Confirms(d, s)
    /\ UNCHANGED ledgerVars

HandleMediaStatus(d, s) ==
    \/ ObserveForeignError(d, s)
    \/ FailOnError(d, s)
    \/ Confirm(d, s)
    \/ IgnoreStatus(d, s)

\* async_load_media_failed, dropped when nothing is pending.
LoadMediaFailed(d) ==
    IF Settled(d) THEN UNCHANGED ledgerVars
                  ELSE Resolve(d, Verdict("fetch_failed", TRUE))

\* async_request_failed: settles the request that is pending now.
RequestFailed(d, err, answered) == Resolve(d, Classify(err, answered))

\* async_record: settles the pending request if it has this source.
RecordOutcome(d, outcome, source) ==
    IF ~Settled(d) /\ pending[d].source = source
    THEN Resolve(d, Verdict(outcome, FALSE))
    ELSE /\ LogRecord(d, 0, source, Verdict(outcome, FALSE))
         /\ UNCHANGED <<pending, timers, begun, closed>>

\* The calls of async_record in the program.
Recordings == { <<"template_error", "announce">>,
                <<"unreachable", "probe">>, <<"skipped_busy", "probe">> }

\* async_shutdown: the timers go, the requests stay pending.
Shutdown ==
    /\ ~closed
    /\ closed' = TRUE
    /\ timers' = [d \in Devices |-> OtherTimers(d)]
    /\ UNCHANGED <<pending, begun, health, records>>

DeviceStep(d) ==
    \/ \E content \in Contents, source \in RequestSources,
          session \in Sessions \cup {None} : BeginRequest(d, content, source, session)
    \/ Expire(d)
    \/ \E s \in MediaStatus : HandleMediaStatus(d, s)
    \/ LoadMediaFailed(d)
    \/ \E err \in Errors, answered \in BOOLEAN : RequestFailed(d, err, answered)
    \/ \E r \in Recordings : RecordOutcome(d, r[1], r[2])

Next == (\E d \in Devices : DeviceStep(d)) \/ Shutdown

Spec == Init /\ [][Next]_ledgerVars

\* The bounds of the runs, on the states a step may lead to.
WithinBounds ==
    \A d \in Devices :
       /\ begun[d] <= MaxRequests
       /\ Cardinality({k \in DOMAIN records[d] : records[d][k].req = 0}) <= MaxUnsolicited

BoundedNext == Next /\ WithinBounds'

BoundedSpec == Init /\ [][BoundedNext]_ledgerVars

-----------------------------------------------------------------------------
(* Properties. *)

TypeOK ==
    /\ pending \in [Devices -> PendingRequest \cup {None}]
    /\ timers \in [Devices -> SUBSET (Nat \ {0})]
    /\ begun \in [Devices -> Nat]
    /\ health \in [Devices -> DeviceHealth]
    /\ records \in [Devices -> Seq(DeliveryRecord)]
    /\ closed \in BOOLEAN

\* A timer that is scheduled belongs to the request that is pending, so no
\* resolve or supersede path leaves one behind to fire later, and until the
\* ledger is shut down every pending request has its timer (async_begin_request,
\* _resolve, _expire, async_shutdown).
TimerDiscipline ==
    \A d \in Devices :
       /\ \A id \in timers[d] : ~Settled(d) /\ pending[d].id = id
       /\ ~Settled(d) /\ ~closed => pending[d].id \in timers[d]

\* Every request begun is either still pending or settled by exactly one
\* record: no verdict is lost when a request is superseded, and none is given
\* twice when timer, status and exception race for it (_resolve).
VerdictsIn(log, i) == {k \in DOMAIN log : log[k].req = i}

OneVerdictPerRequest ==
    \A d \in Devices : \A i \in 1 .. begun[d] :
       LET verdicts == VerdictsIn(records[d], i)
       IN  IF ~Settled(d) /\ pending[d].id = i
           THEN verdicts = {}
           ELSE \E k \in verdicts : verdicts = {k}

\* The counters that drive the repairs and the circuit breaker are those of
\* the log: failures since the last success, and timeouts since anything but a
\* timeout, outcomes that say nothing about the device apart (_append).
FailuresSinceSuccess(log) ==
    {k \in DOMAIN log : /\ log[k].outcome \in FAILURE_OUTCOMES
                        /\ \A j \in DOMAIN log : j > k => log[j].outcome # "ok"}

TimeoutRun(log) ==
    {k \in DOMAIN log : /\ log[k].outcome = "timeout"
                        /\ \A j \in DOMAIN log :
                              j > k => log[j].outcome \in Neutral \cup {"timeout"}}

CountersMatchLog ==
    \A d \in Devices :
       /\ health[d].consecutive_failures = Cardinality(FailuresSinceSuccess(records[d]))
       /\ health[d].consecutive_timeouts = Cardinality(TimeoutRun(records[d]))

\* The outcome a sensor shows and the counters never disagree: a failure is
\* shown exactly while failures are counted, a timeout exactly while timeouts
\* are (_append keeps last_outcome over neutral records).
OutcomeMatchesCounters ==
    \A d \in Devices :
       LET h == health[d]
       IN  /\ h.last_outcome \in FAILURE_OUTCOMES <=> h.consecutive_failures > 0
           /\ h.last_outcome = "timeout" <=> h.consecutive_timeouts > 0
           /\ h.consecutive_timeouts <= h.consecutive_failures

\* A record says the device responded exactly when its outcome is ok or
\* fetch_failed, whichever path wrote it: a timeout never does, which is what
\* the troubleshooting guide reads the flag for.
RespondedFollowsOutcome ==
    \A d \in Devices : \A k \in DOMAIN records[d] :
       records[d][k].responded <=> records[d][k].outcome \in {"ok", "fetch_failed"}

\* What became of each request, as the promise sees it.
OutcomeIn(log, i) == log[CHOOSE k \in VerdictsIn(log, i) : TRUE].outcome

History(waiting, n, log) ==
    [i \in 1 .. n |-> IF i = waiting THEN "waiting" ELSE OutcomeIn(log, i)]

WaitingId(d) == IF Settled(d) THEN 0 ELSE pending[d].id

Promised == [d \in Devices |-> History(WaitingId(d), begun[d], records[d])]

Promise == INSTANCE DeliveryPromise WITH verdict <- Promised

\* The ledger keeps the promise: one final verdict per request, "unknown" only
\* for a superseded one.
KeepsPromise == Promise!Spec

\* Every request is settled or superseded unless the ledger is shut down: the
\* delivery timer ends the wait even when no device and no exception does, given
\* that the loop runs its timers.
EveryRequestSettles ==
    \A d \in Devices : \A i \in 1 .. MaxRequests :
       (~Settled(d) /\ pending[d].id = i) ~> (closed \/ Settled(d) \/ pending[d].id # i)
=============================================================================
