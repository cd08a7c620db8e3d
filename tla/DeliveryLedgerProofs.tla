------------------------ MODULE DeliveryLedgerProofs ------------------------
(***************************************************************************)
(* The properties of the delivery ledger, for every set of devices, every  *)
(* content and session, and every number of requests and records.          *)
(***************************************************************************)
EXTENDS DeliveryLedger, FiniteSetTheorems, SequenceTheorems, TLAPS

(***************************************************************************)
(* Whatever handler runs, it does one of five things to the ledger. The    *)
(* proofs reason about these instead of about the handlers.                *)
(***************************************************************************)
Verdicts ==
    {v \in [outcome : DeliveryOutcome \ {"unknown"}, responded : BOOLEAN] :
       v.responded <=> v.outcome \in {"ok", "fetch_failed"}}

\* A record that settles nothing; under the name of the probe, only a decision
\* not to send one.
Aside(source, outcome) == source = "probe" => outcome \in {"unreachable", "skipped_busy"}

Note(d, source, v) ==
    /\ Aside(source, v.outcome)
    /\ LogRecord(d, 0, source, v)
    /\ UNCHANGED <<pending, timers, begun, closed>>

\* The timer of a request that is no longer pending fires.
DropTimer(d) ==
    \E id \in timers[d] :
       /\ Settled(d) \/ pending[d].id # id
       /\ timers' = [timers EXCEPT ![d] = @ \ {id}]
       /\ UNCHANGED <<pending, begun, health, records, closed>>

Begins(d) ==
    \E content \in Contents, source \in RequestSources, session \in Sessions \cup {None} :
       BeginRequest(d, content, source, session)

\* async_request_failed only gives verdicts, never "unknown".
LEMMA ClassifyGivesVerdict ==
  ASSUME NEW err \in Errors, NEW answered \in BOOLEAN
  PROVE  Classify(err, answered) \in Verdicts
BY DEF Classify, Verdict, Verdicts, Errors, DeliveryOutcome, FAILURE_OUTCOMES

LEMMA StepKinds ==
  ASSUME NEW d \in Devices, DeviceStep(d)
  PROVE  \/ Begins(d)
         \/ \E v \in Verdicts : Resolve(d, v)
         \/ \E source \in Sources, v \in Verdicts : Note(d, source, v)
         \/ DropTimer(d)
         \/ UNCHANGED ledgerVars
<1> DEFINE Goal == \/ Begins(d)
                   \/ \E v \in Verdicts : Resolve(d, v)
                   \/ \E source \in Sources, v \in Verdicts : Note(d, source, v)
                   \/ DropTimer(d)
                   \/ UNCHANGED ledgerVars
<1>v. /\ Verdict("timeout", FALSE) \in Verdicts
      /\ Verdict("fetch_failed", TRUE) \in Verdicts
      /\ Verdict("ok", TRUE) \in Verdicts
      /\ \A r \in Recordings : Verdict(r[1], FALSE) \in Verdicts /\ r[2] \in Sources
  BY DEF Verdict, Verdicts, DeliveryOutcome, FAILURE_OUTCOMES, Recordings, Sources, RequestSources
<1>1. CASE \E content \in Contents, source \in RequestSources,
              session \in Sessions \cup {None} : BeginRequest(d, content, source, session)
  BY <1>1 DEF Begins
<1>2. CASE Expire(d)
  <2>1. PICK id \in timers[d] :
           IF Settled(d) \/ pending[d].id # id
           THEN /\ timers' = [timers EXCEPT ![d] = @ \ {id}]
                /\ UNCHANGED <<pending, begun, health, records, closed>>
           ELSE Resolve(d, Verdict("timeout", FALSE))
    BY <1>2 DEF Expire
  <2>2. CASE Settled(d) \/ pending[d].id # id
    BY <2>1, <2>2 DEF DropTimer
  <2>3. CASE ~(Settled(d) \/ pending[d].id # id)
    BY <2>1, <2>3, <1>v
  <2>4. QED  BY <2>2, <2>3
<1>3. CASE \E s \in MediaStatus : HandleMediaStatus(d, s)
  <2>1. PICK s \in MediaStatus : HandleMediaStatus(d, s)
    BY <1>3
  <2>2. CASE ObserveForeignError(d, s)
    <3>1. Note(d, "observed", Verdict("fetch_failed", TRUE))
      BY <2>2 DEF ObserveForeignError, Note, Aside
    <3>2. "observed" \in Sources
      BY DEF Sources
    <3>3. QED  BY <3>1, <3>2, <1>v
  <2>3. CASE FailOnError(d, s)
    BY <2>3, <1>v DEF FailOnError
  <2>4. CASE Confirm(d, s)
    BY <2>4, <1>v DEF Confirm
  <2>5. CASE IgnoreStatus(d, s)
    BY <2>5 DEF IgnoreStatus
  <2>6. QED  BY <2>1, <2>2, <2>3, <2>4, <2>5 DEF HandleMediaStatus
<1>4. CASE LoadMediaFailed(d)
  BY <1>4, <1>v DEF LoadMediaFailed
<1>5. CASE \E err \in Errors, answered \in BOOLEAN : RequestFailed(d, err, answered)
  BY <1>5, ClassifyGivesVerdict DEF RequestFailed
<1>6. CASE \E r \in Recordings : RecordOutcome(d, r[1], r[2])
  <2>1. PICK r \in Recordings : RecordOutcome(d, r[1], r[2])
    BY <1>6
  <2>2. CASE ~Settled(d) /\ pending[d].source = r[2]
    BY <2>1, <2>2, <1>v DEF RecordOutcome
  <2>3. CASE ~(~Settled(d) /\ pending[d].source = r[2])
    <3>0. Aside(r[2], Verdict(r[1], FALSE).outcome)
      BY <2>1 DEF Recordings, Verdict, Aside
    <3>1. Note(d, r[2], Verdict(r[1], FALSE))
      BY <2>1, <2>3, <3>0 DEF RecordOutcome, Note
    <3>2. QED  BY <3>1, <1>v
  <2>4. QED  BY <2>2, <2>3
<1>7. QED
  BY <1>1, <1>2, <1>3, <1>4, <1>5, <1>6 DEF DeviceStep

-----------------------------------------------------------------------------
(* Type correctness. *)

\* Tally stays within the counters' types whatever the outcome.
LEMMA TallyType ==
  ASSUME NEW h \in DeviceHealth, NEW outcome \in DeliveryOutcome
  PROVE  Tally(h, outcome) \in DeviceHealth
BY DEF Tally, ShownOutcome, Failures, Timeouts, DeviceHealth, DeliveryOutcome, FAILURE_OUTCOMES, Neutral

LEMMA LogRecordType ==
  ASSUME TypeOK, NEW d \in Devices, NEW req \in Nat, NEW source \in Sources,
         NEW v \in [outcome : DeliveryOutcome, responded : BOOLEAN],
         LogRecord(d, req, source, v)
  PROVE  /\ records' \in [Devices -> Seq(DeliveryRecord)]
         /\ health' \in [Devices -> DeviceHealth]
<1>1. records' \in [Devices -> Seq(DeliveryRecord)]
  <2>1. [req |-> req, source |-> source, outcome |-> v.outcome, responded |-> v.responded]
          \in DeliveryRecord
    BY DEF DeliveryRecord
  <2>2. QED  BY <2>1 DEF LogRecord, TypeOK
<1>2. health' \in [Devices -> DeviceHealth]
  <2>1. Tally(health[d], v.outcome) \in DeviceHealth
    BY TallyType DEF TypeOK
  <2>2. QED  BY <2>1 DEF LogRecord, TypeOK
<1>3. QED  BY <1>1, <1>2

\* A pending request has an id and a source.
LEMMA PendingType ==
  ASSUME TypeOK, NEW d \in Devices, ~Settled(d)
  PROVE  pending[d] \in PendingRequest /\ pending[d].id \in Nat \ {0}
         /\ pending[d].source \in RequestSources
BY DEF TypeOK, Settled, PendingRequest

LEMMA LogVerdictType ==
  ASSUME TypeOK, NEW d \in Devices,
         NEW v \in [outcome : DeliveryOutcome, responded : BOOLEAN], LogVerdict(d, v)
  PROVE  /\ records' \in [Devices -> Seq(DeliveryRecord)]
         /\ health' \in [Devices -> DeviceHealth]
<1>1. CASE Settled(d)
  <2>1. LogRecord(d, 0, "observed", v)
    BY <1>1 DEF LogVerdict
  <2>2. QED  BY <2>1, LogRecordType DEF Sources
<1>2. CASE ~Settled(d)
  <2>1. LogRecord(d, pending[d].id, pending[d].source, v)
    BY <1>2 DEF LogVerdict
  <2>2. pending[d].id \in Nat /\ pending[d].source \in Sources
    BY <1>2, PendingType DEF Sources
  <2>3. QED  BY <2>1, <2>2, LogRecordType
<1>3. QED  BY <1>1, <1>2

LEMMA VerdictTypes ==
  /\ Verdicts \subseteq [outcome : DeliveryOutcome, responded : BOOLEAN]
  /\ Verdict("unknown", FALSE) \in [outcome : DeliveryOutcome, responded : BOOLEAN]
BY DEF Verdicts, Verdict, DeliveryOutcome

LEMMA DeviceStepType ==
  ASSUME TypeOK, NEW d \in Devices, DeviceStep(d)
  PROVE  TypeOK'
<1>1. CASE Begins(d)
  <2>1. PICK content \in Contents, source \in RequestSources, session \in Sessions \cup {None} :
           BeginRequest(d, content, source, session)
    BY <1>1 DEF Begins
  <2>2. begun[d] \in Nat
    BY DEF TypeOK
  <2>3. begun' \in [Devices -> Nat]
    BY <2>1, <2>2 DEF BeginRequest, OtherTimers, Supersede, TypeOK
  <2>4. pending' \in [Devices -> PendingRequest \cup {None}]
    <3>1. [id |-> begun[d] + 1, content |-> content, source |-> source,
           session_at_request |-> session] \in PendingRequest
      BY <2>2 DEF PendingRequest
    <3>2. QED  BY <2>1, <3>1 DEF BeginRequest, OtherTimers, Supersede, TypeOK
  <2>5. timers' \in [Devices -> SUBSET (Nat \ {0})]
    BY <2>1, <2>2 DEF BeginRequest, OtherTimers, Supersede, TypeOK
  <2>6. /\ records' \in [Devices -> Seq(DeliveryRecord)]
        /\ health' \in [Devices -> DeviceHealth]
    BY <2>1, LogVerdictType, VerdictTypes DEF BeginRequest, OtherTimers, Supersede, TypeOK
  <2>7. QED  BY <2>1, <2>3, <2>4, <2>5, <2>6 DEF BeginRequest, OtherTimers, Supersede, TypeOK
<1>2. CASE \E v \in Verdicts : Resolve(d, v)
  <2>1. PICK v \in Verdicts : Resolve(d, v)
    BY <1>2
  <2>2. /\ records' \in [Devices -> Seq(DeliveryRecord)]
        /\ health' \in [Devices -> DeviceHealth]
    BY <2>1, LogVerdictType, VerdictTypes DEF Resolve, OtherTimers
  <2>3. pending' \in [Devices -> PendingRequest \cup {None}]
    BY <2>1 DEF Resolve, OtherTimers, TypeOK
  <2>4. timers' \in [Devices -> SUBSET (Nat \ {0})]
    BY <2>1 DEF Resolve, OtherTimers, TypeOK
  <2>5. QED  BY <2>1, <2>2, <2>3, <2>4 DEF Resolve, OtherTimers, TypeOK
<1>3. CASE \E source \in Sources, v \in Verdicts : Note(d, source, v)
  BY <1>3, LogRecordType, VerdictTypes DEF Note, TypeOK
<1>4. CASE DropTimer(d)
  BY <1>4 DEF DropTimer, TypeOK
<1>5. CASE UNCHANGED ledgerVars
  BY <1>5 DEF TypeOK, ledgerVars
<1>6. QED
  BY <1>1, <1>2, <1>3, <1>4, <1>5, StepKinds

LEMMA InitType == Init => TypeOK
<1> SUFFICES ASSUME Init PROVE TypeOK
  OBVIOUS
<1>1. /\ pending \in [Devices -> PendingRequest \cup {None}]
      /\ begun \in [Devices -> Nat]
      /\ closed \in BOOLEAN
  BY DEF Init
<1>2. timers \in [Devices -> SUBSET (Nat \ {0})]
  BY DEF Init
<1>3. [last_outcome |-> "unknown", consecutive_failures |-> 0,
       consecutive_timeouts |-> 0] \in DeviceHealth
  BY DEF DeviceHealth, DeliveryOutcome
<1>4. health \in [Devices -> DeviceHealth]
  BY <1>3, Zenon DEF Init
<1>5. records \in [Devices -> Seq(DeliveryRecord)]
  BY <<>> \in Seq(DeliveryRecord) DEF Init
<1>6. QED  BY <1>1, <1>2, <1>4, <1>5 DEF TypeOK

LEMMA NextType == TypeOK /\ [Next]_ledgerVars => TypeOK'
<1>1. ASSUME TypeOK, Shutdown PROVE TypeOK'
  BY <1>1 DEF Shutdown, OtherTimers, TypeOK
<1>2. ASSUME TypeOK, UNCHANGED ledgerVars PROVE TypeOK'
  BY <1>2 DEF ledgerVars, TypeOK
<1>3. QED  BY <1>1, <1>2, DeviceStepType DEF Next

\* Every variable of the ledger keeps its type through every handler.
THEOREM TypeCorrect == Spec => []TypeOK
BY InitType, NextType, PTL DEF Spec

-----------------------------------------------------------------------------
(* Timers. *)

\* LogRecord touches the log of one device only, at its end.
LEMMA LogRecordAppends ==
  ASSUME TypeOK, NEW d \in Devices, NEW req, NEW source, NEW v,
         LogRecord(d, req, source, v)
  PROVE  LET r == [req |-> req, source |-> source,
                   outcome |-> v.outcome, responded |-> v.responded]
         IN  /\ records'[d] = Append(records[d], r)
             /\ health'[d] = Tally(health[d], v.outcome)
             /\ \A e \in Devices \ {d} : records'[e] = records[e] /\ health'[e] = health[e]
BY DEF LogRecord, TypeOK

LEMMA LogVerdictAppends ==
  ASSUME TypeOK, NEW d \in Devices, NEW v, LogVerdict(d, v)
  PROVE  LET r == [req |-> IF Settled(d) THEN 0 ELSE pending[d].id,
                   source |-> IF Settled(d) THEN "observed" ELSE pending[d].source,
                   outcome |-> v.outcome, responded |-> v.responded]
         IN  /\ records'[d] = Append(records[d], r)
             /\ health'[d] = Tally(health[d], v.outcome)
             /\ \A e \in Devices \ {d} : records'[e] = records[e] /\ health'[e] = health[e]
<1>1. CASE Settled(d)
  BY <1>1, LogRecordAppends DEF LogVerdict
<1>2. CASE ~Settled(d)
  BY <1>2, LogRecordAppends DEF LogVerdict
<1>3. QED  BY <1>1, <1>2

\* A handler of one device leaves every other device as it was.
LEMMA OtherDevices ==
  ASSUME TypeOK, NEW d \in Devices, NEW e \in Devices \ {d}, DeviceStep(d)
  PROVE  /\ pending'[e] = pending[e] /\ timers'[e] = timers[e] /\ begun'[e] = begun[e]
         /\ health'[e] = health[e] /\ records'[e] = records[e]
<1>1. CASE Begins(d)
  <2>1. PICK content \in Contents, source \in RequestSources, session \in Sessions \cup {None} :
           BeginRequest(d, content, source, session)
    BY <1>1 DEF Begins
  <2>2. health'[e] = health[e] /\ records'[e] = records[e]
    BY <2>1, LogVerdictAppends DEF BeginRequest, OtherTimers, Supersede
  <2>3. QED  BY <2>1, <2>2 DEF BeginRequest, OtherTimers, Supersede, TypeOK
<1>2. CASE \E v \in Verdicts : Resolve(d, v)
  BY <1>2, LogVerdictAppends DEF Resolve, OtherTimers, TypeOK
<1>3. CASE \E source \in Sources, v \in Verdicts : Note(d, source, v)
  BY <1>3, LogRecordAppends DEF Note
<1>4. CASE DropTimer(d)
  BY <1>4 DEF DropTimer, TypeOK
<1>5. CASE UNCHANGED ledgerVars
  BY <1>5 DEF ledgerVars
<1>6. QED  BY <1>1, <1>2, <1>3, <1>4, <1>5, StepKinds

\* No handler of a device reopens a ledger that was shut down, or shuts it down.
LEMMA ClosedOnlyByShutdown ==
  ASSUME NEW d \in Devices, DeviceStep(d)
  PROVE  closed' = closed
BY StepKinds DEF Begins, BeginRequest, OtherTimers, Supersede, Resolve, Note, DropTimer, ledgerVars

LEMMA TimerStep ==
  ASSUME TypeOK, TimerDiscipline, NEW d \in Devices, DeviceStep(d)
  PROVE  TimerDiscipline'
<1> DEFINE Disciplined(e) ==
      /\ \A id \in timers[e] : ~Settled(e) /\ pending[e].id = id
      /\ ~Settled(e) /\ ~closed => pending[e].id \in timers[e]
<1>1. SUFFICES Disciplined(d)'
  <2>1. ASSUME NEW e \in Devices \ {d} PROVE Disciplined(e)'
    BY <2>1, OtherDevices, ClosedOnlyByShutdown DEF TimerDiscipline, Settled
  <2>2. QED  BY <2>1 DEF TimerDiscipline
<1>2. Disciplined(d)
  BY DEF TimerDiscipline
<1>3. CASE Begins(d)
  <2>1. PICK content \in Contents, source \in RequestSources, session \in Sessions \cup {None} :
           BeginRequest(d, content, source, session)
    BY <1>3 DEF Begins
  <2>2. pending'[d] = [id |-> begun[d] + 1, content |-> content, source |-> source,
                       session_at_request |-> session]
    BY <2>1 DEF BeginRequest, OtherTimers, Supersede, TypeOK
  <2>3. pending'[d] \in PendingRequest
    BY <2>2 DEF PendingRequest, TypeOK
  <2>4. timers'[d] = {begun[d] + 1}
    BY <2>1, <1>2 DEF BeginRequest, OtherTimers, Supersede, TypeOK
  <2>5. QED  BY <2>2, <2>3, <2>4, NonePendingAssumption DEF Settled
<1>4. CASE \E v \in Verdicts : Resolve(d, v)
  <2>1. timers'[d] = {} /\ pending'[d] = None
    BY <1>4, <1>2 DEF Resolve, OtherTimers, TypeOK
  <2>2. QED  BY <2>1 DEF Settled
<1>5. CASE \E source \in Sources, v \in Verdicts : Note(d, source, v)
  BY <1>5, <1>2 DEF Note, Settled
<1>6. CASE DropTimer(d)
  BY <1>6, <1>2 DEF DropTimer
<1>7. CASE UNCHANGED ledgerVars
  BY <1>7, <1>2 DEF ledgerVars, Settled
<1>8. QED  BY <1>3, <1>4, <1>5, <1>6, <1>7, StepKinds

\* The scheduled timers are those of the pending requests, in every order of
\* calls: the identity test in _expire never finds a stranger.
THEOREM TimersBelongToPending == Spec => []TimerDiscipline
<1>1. Init => TimerDiscipline
  BY DEF Init, TimerDiscipline, Settled
<1>2. TypeOK /\ TimerDiscipline /\ [Next]_ledgerVars => TimerDiscipline'
  <2>1. ASSUME TypeOK, TimerDiscipline, Shutdown PROVE TimerDiscipline'
    BY <2>1 DEF Shutdown, OtherTimers, TimerDiscipline, Settled, TypeOK
  <2>2. ASSUME TimerDiscipline, UNCHANGED ledgerVars PROVE TimerDiscipline'
    BY <2>2 DEF ledgerVars, TimerDiscipline, Settled
  <2>3. QED  BY <2>1, <2>2, TimerStep DEF Next
<1>3. QED  BY <1>1, <1>2, TypeCorrect, PTL DEF Spec

-----------------------------------------------------------------------------
(* The log and the counters. *)

\* A handler leaves the log and counters of its device alone, or it appends one
\* record and lets it count.
LEMMA LogStep ==
  ASSUME TypeOK, NEW d \in Devices, DeviceStep(d)
  PROVE  \/ records'[d] = records[d] /\ health'[d] = health[d]
         \/ \E r \in DeliveryRecord :
              /\ records'[d] = Append(records[d], r)
              /\ health'[d] = Tally(health[d], r.outcome)
              /\ r.responded <=> r.outcome \in {"ok", "fetch_failed"}
<1> DEFINE Appends(r) == /\ records'[d] = Append(records[d], r)
                         /\ health'[d] = Tally(health[d], r.outcome)
                         /\ r.responded <=> r.outcome \in {"ok", "fetch_failed"}
           Sound(v) == /\ v \in [outcome : DeliveryOutcome, responded : BOOLEAN]
                       /\ v.responded <=> v.outcome \in {"ok", "fetch_failed"}
<1>1. ASSUME NEW v, Sound(v), LogVerdict(d, v)
      PROVE  \E r \in DeliveryRecord : Appends(r)
  <2> DEFINE r == [req |-> IF Settled(d) THEN 0 ELSE pending[d].id,
                   source |-> IF Settled(d) THEN "observed" ELSE pending[d].source,
                   outcome |-> v.outcome, responded |-> v.responded]
  <2>1. r \in DeliveryRecord
    BY <1>1, PendingType DEF DeliveryRecord, Sources
  <2>2. Appends(r)
    BY <1>1, LogVerdictAppends
  <2>3. QED  BY <2>1, <2>2
<1>2. ASSUME NEW source \in Sources, NEW v, Sound(v), LogRecord(d, 0, source, v)
      PROVE  \E r \in DeliveryRecord : Appends(r)
  <2> DEFINE r == [req |-> 0, source |-> source,
                   outcome |-> v.outcome, responded |-> v.responded]
  <2>1. r \in DeliveryRecord
    BY <1>2 DEF DeliveryRecord
  <2>2. Appends(r)
    BY <1>2, LogRecordAppends
  <2>3. QED  BY <2>1, <2>2
<1>3. \A v \in Verdicts : Sound(v)
  BY DEF Verdicts
<1>4. Sound(Verdict("unknown", FALSE))
  BY DEF Verdict, DeliveryOutcome
<1>5. CASE Begins(d)
  BY <1>5, <1>1, <1>4 DEF Begins, BeginRequest, OtherTimers, Supersede
<1>6. CASE \E v \in Verdicts : Resolve(d, v)
  BY <1>6, <1>1, <1>3 DEF Resolve, OtherTimers
<1>7. CASE \E source \in Sources, v \in Verdicts : Note(d, source, v)
  BY <1>7, <1>2, <1>3 DEF Note
<1>8. CASE DropTimer(d)
  BY <1>8 DEF DropTimer
<1>9. CASE UNCHANGED ledgerVars
  BY <1>9 DEF ledgerVars
<1>10. QED  BY <1>5, <1>6, <1>7, <1>8, <1>9, StepKinds

\* Init, the shutdown and stuttering leave every log and counter alone.
LEMMA LogUntouched ==
  ASSUME Shutdown \/ UNCHANGED ledgerVars
  PROVE  UNCHANGED <<records, health>>
BY DEF Shutdown, OtherTimers, ledgerVars

\* A timeout never carries responded = TRUE, on any path.
THEOREM RespondedTellsOutcome == Spec => []RespondedFollowsOutcome
<1>1. Init => RespondedFollowsOutcome
  BY DEF Init, RespondedFollowsOutcome
<1>2. ASSUME TypeOK, RespondedFollowsOutcome, NEW d \in Devices, DeviceStep(d)
      PROVE  RespondedFollowsOutcome'
  <2>1. SUFFICES ASSUME NEW k \in DOMAIN records'[d]
                 PROVE  records'[d][k].responded
                          <=> records'[d][k].outcome \in {"ok", "fetch_failed"}
    BY <1>2, OtherDevices DEF RespondedFollowsOutcome
  <2>2. records[d] \in Seq(DeliveryRecord)
    BY <1>2 DEF TypeOK
  <2>3. QED  BY <1>2, <2>1, <2>2, LogStep DEF RespondedFollowsOutcome
<1>3. TypeOK /\ RespondedFollowsOutcome /\ [Next]_ledgerVars => RespondedFollowsOutcome'
  BY <1>2, LogUntouched DEF Next, RespondedFollowsOutcome
<1>4. QED  BY <1>1, <1>3, TypeCorrect, PTL DEF Spec

\* What the sensors show agrees with what the breaker and the repairs count.
THEOREM OutcomeAgreesWithCounters == Spec => []OutcomeMatchesCounters
<1> DEFINE Agrees(h) == /\ h.last_outcome \in FAILURE_OUTCOMES <=> h.consecutive_failures > 0
                        /\ h.last_outcome = "timeout" <=> h.consecutive_timeouts > 0
                        /\ h.consecutive_timeouts <= h.consecutive_failures
<1>1. Init => OutcomeMatchesCounters
  BY DEF Init, OutcomeMatchesCounters, FAILURE_OUTCOMES
<1>2. ASSUME NEW h \in DeviceHealth, NEW outcome \in DeliveryOutcome, Agrees(h)
      PROVE  Agrees(Tally(h, outcome))
  BY <1>2 DEF Tally, ShownOutcome, Failures, Timeouts, DeviceHealth, DeliveryOutcome, FAILURE_OUTCOMES, Neutral
<1>3. ASSUME TypeOK, OutcomeMatchesCounters, NEW d \in Devices, DeviceStep(d)
      PROVE  OutcomeMatchesCounters'
  <2>1. health[d] \in DeviceHealth /\ Agrees(health[d])
    BY <1>3 DEF TypeOK, OutcomeMatchesCounters
  <2>2. Agrees(health'[d])
    <3>1. CASE health'[d] = health[d]
      BY <2>1, <3>1
    <3>2. CASE \E r \in DeliveryRecord : health'[d] = Tally(health[d], r.outcome)
      <4>1. PICK r \in DeliveryRecord : health'[d] = Tally(health[d], r.outcome)
        BY <3>2
      <4>2. r.outcome \in DeliveryOutcome
        BY DEF DeliveryRecord
      <4>3. QED  BY <4>1, <4>2, <2>1, <1>2
    <3>3. QED  BY <3>1, <3>2, <1>3, LogStep
  <2>3. \A e \in Devices \ {d} : Agrees(health'[e])
    BY <1>3, OtherDevices DEF OutcomeMatchesCounters
  <2>4. QED  BY <2>2, <2>3 DEF OutcomeMatchesCounters
<1>4. TypeOK /\ OutcomeMatchesCounters /\ [Next]_ledgerVars => OutcomeMatchesCounters'
  BY <1>3, LogUntouched DEF Next, OutcomeMatchesCounters
<1>5. QED  BY <1>1, <1>4, TypeCorrect, PTL DEF Spec

-----------------------------------------------------------------------------
(* The counters count what the log holds. *)

\* Appending to a log: its old records keep their place and the new one is last.
LEMMA AppendIndices ==
  ASSUME NEW log \in Seq(DeliveryRecord), NEW r \in DeliveryRecord
  PROVE  LET longer == Append(log, r)
             n == Len(log) + 1
         IN  /\ DOMAIN longer = DOMAIN log \cup {n} /\ n \notin DOMAIN log
             /\ \A k \in DOMAIN log : longer[k] = log[k] /\ k < n
             /\ longer[n] = r
OBVIOUS

LEMMA LogIndicesFinite ==
  ASSUME NEW log \in Seq(DeliveryRecord), NEW S \in SUBSET (DOMAIN log)
  PROVE  IsFiniteSet(S) /\ Cardinality(S) \in Nat
<1>1. DOMAIN log = 1 .. Len(log) /\ Len(log) \in Nat
  OBVIOUS
<1>2. IsFiniteSet(1 .. Len(log))
  BY <1>1, FS_Interval
<1>3. IsFiniteSet(S)
  BY <1>1, <1>2, FS_Subset, Zenon
<1>4. QED  BY <1>3, FS_CardinalityType

LEMMA FailuresAfterAppend ==
  ASSUME NEW log \in Seq(DeliveryRecord), NEW r \in DeliveryRecord
  PROVE  FailuresSinceSuccess(Append(log, r)) =
           IF r.outcome = "ok" THEN {}
           ELSE IF r.outcome \in FAILURE_OUTCOMES
           THEN FailuresSinceSuccess(log) \cup {Len(log) + 1}
           ELSE FailuresSinceSuccess(log)
<1>1. "ok" \notin FAILURE_OUTCOMES
  BY DEF FAILURE_OUTCOMES
<1>2. \A k \in DOMAIN log : k \in Nat /\ k <= Len(log)
  OBVIOUS
<1>3. QED  BY <1>1, <1>2, AppendIndices DEF FailuresSinceSuccess

LEMMA TimeoutsAfterAppend ==
  ASSUME NEW log \in Seq(DeliveryRecord), NEW r \in DeliveryRecord
  PROVE  TimeoutRun(Append(log, r)) =
           IF r.outcome = "timeout" THEN TimeoutRun(log) \cup {Len(log) + 1}
           ELSE IF r.outcome \in Neutral THEN TimeoutRun(log)
           ELSE {}
<1>1. "timeout" \notin Neutral
  BY DEF Neutral
<1>2. \A k \in DOMAIN log : k \in Nat /\ k <= Len(log)
  OBVIOUS
<1>3. QED  BY <1>1, <1>2, AppendIndices DEF TimeoutRun

\* The counters are those of the log after any history.
THEOREM CountersCountTheLog == Spec => []CountersMatchLog
<1> DEFINE Counts(h, log) ==
      /\ h.consecutive_failures = Cardinality(FailuresSinceSuccess(log))
      /\ h.consecutive_timeouts = Cardinality(TimeoutRun(log))
<1>1. Init => CountersMatchLog
  <2>1. FailuresSinceSuccess(<<>>) = {} /\ TimeoutRun(<<>>) = {}
    BY DEF FailuresSinceSuccess, TimeoutRun
  <2>2. SUFFICES ASSUME Init, NEW d \in Devices PROVE Counts(health[d], records[d])
    BY DEF CountersMatchLog
  <2>3. /\ records[d] = <<>>
        /\ health[d].consecutive_failures = 0 /\ health[d].consecutive_timeouts = 0
    BY <2>2 DEF Init
  <2>4. QED  BY <2>1, <2>3, FS_EmptySet
<1>2. ASSUME NEW log \in Seq(DeliveryRecord), NEW h \in DeviceHealth,
             NEW r \in DeliveryRecord, Counts(h, log)
      PROVE  Counts(Tally(h, r.outcome), Append(log, r))
  <2> DEFINE n == Len(log) + 1
  <2>1. /\ IsFiniteSet(FailuresSinceSuccess(log)) /\ n \notin FailuresSinceSuccess(log)
        /\ IsFiniteSet(TimeoutRun(log)) /\ n \notin TimeoutRun(log)
    <3>1. FailuresSinceSuccess(log) \in SUBSET (DOMAIN log) /\ TimeoutRun(log) \in SUBSET (DOMAIN log)
      BY DEF FailuresSinceSuccess, TimeoutRun
    <3>2. n \notin DOMAIN log
      BY AppendIndices
    <3>3. QED  BY <3>1, <3>2, LogIndicesFinite
  <2>2. /\ Cardinality(FailuresSinceSuccess(log) \cup {n}) = Cardinality(FailuresSinceSuccess(log)) + 1
        /\ Cardinality(TimeoutRun(log) \cup {n}) = Cardinality(TimeoutRun(log)) + 1
        /\ Cardinality({}) = 0
    BY <2>1, FS_AddElement, FS_EmptySet
  <2>3. /\ "ok" \notin FAILURE_OUTCOMES /\ "timeout" \in FAILURE_OUTCOMES
        /\ "timeout" \notin Neutral /\ "ok" \notin Neutral
        /\ Neutral \cap FAILURE_OUTCOMES = {}
        /\ r.outcome \in FAILURE_OUTCOMES \cup Neutral \cup {"ok"}
    BY DEF FAILURE_OUTCOMES, Neutral, DeliveryRecord, DeliveryOutcome
  <2>4. Tally(h, r.outcome).consecutive_failures = Cardinality(FailuresSinceSuccess(Append(log, r)))
    BY <1>2, <2>2, <2>3, FailuresAfterAppend DEF Tally, ShownOutcome, Failures, Timeouts
  <2>5. Tally(h, r.outcome).consecutive_timeouts = Cardinality(TimeoutRun(Append(log, r)))
    BY <1>2, <2>2, <2>3, TimeoutsAfterAppend DEF Tally, ShownOutcome, Failures, Timeouts
  <2>6. QED  BY <2>4, <2>5
<1>3. ASSUME TypeOK, CountersMatchLog, NEW d \in Devices, DeviceStep(d)
      PROVE  CountersMatchLog'
  <2>1. health[d] \in DeviceHealth /\ records[d] \in Seq(DeliveryRecord)
        /\ Counts(health[d], records[d])
    BY <1>3 DEF TypeOK, CountersMatchLog
  <2>2. Counts(health'[d], records'[d])
    <3>1. CASE records'[d] = records[d] /\ health'[d] = health[d]
      BY <2>1, <3>1
    <3>2. CASE \E r \in DeliveryRecord : /\ records'[d] = Append(records[d], r)
                                         /\ health'[d] = Tally(health[d], r.outcome)
      BY <2>1, <3>2, <1>2
    <3>3. QED  BY <3>1, <3>2, <1>3, LogStep
  <2>3. \A e \in Devices \ {d} : Counts(health'[e], records'[e])
    BY <1>3, OtherDevices DEF CountersMatchLog
  <2>4. QED  BY <2>2, <2>3 DEF CountersMatchLog
<1>4. TypeOK /\ CountersMatchLog /\ [Next]_ledgerVars => CountersMatchLog'
  BY <1>3, LogUntouched DEF Next, CountersMatchLog
<1>5. QED  BY <1>1, <1>4, TypeCorrect, PTL DEF Spec

-----------------------------------------------------------------------------
(* One verdict per request, and the promise. *)

\* What a handler does to the requests of its device and their records: nothing;
\* begin one; begin one and settle the older one as superseded; settle the
\* pending one; or log something that settles none.
Unmoved(d) == begun'[d] = begun[d] /\ pending'[d] = pending[d]

NewRequest(d) ==
    begun'[d] = begun[d] + 1 /\ ~Settled(d)' /\ pending'[d].id = begun[d] + 1

Adds(d, req, r) == r.req = req /\ records'[d] = Append(records[d], r)

RequestStep(d) ==
    \/ Unmoved(d) /\ records'[d] = records[d]
    \/ Settled(d) /\ NewRequest(d) /\ records'[d] = records[d]
    \/ /\ ~Settled(d) /\ NewRequest(d)
       /\ \E r \in DeliveryRecord : Adds(d, begun[d], r) /\ r.outcome = "unknown"
    \/ /\ ~Settled(d) /\ Settled(d)' /\ begun'[d] = begun[d]
       /\ \E r \in DeliveryRecord : Adds(d, begun[d], r) /\ r.outcome # "unknown"
    \/ /\ Unmoved(d)
       /\ \E r \in DeliveryRecord : Adds(d, 0, r) /\ Aside(r.source, r.outcome)

LEMMA RequestSteps ==
  ASSUME TypeOK, NEW d \in Devices, ~Settled(d) => pending[d].id = begun[d], DeviceStep(d)
  PROVE  RequestStep(d)
<1>0. ~Settled(d) => pending[d].id = begun[d]
  OBVIOUS
<1>1. ASSUME NEW v \in [outcome : DeliveryOutcome, responded : BOOLEAN], LogVerdict(d, v)
      PROVE  \E r \in DeliveryRecord :
               /\ Adds(d, IF Settled(d) THEN 0 ELSE begun[d], r)
               /\ r.outcome = v.outcome
               /\ Settled(d) => r.source = "observed"
  <2> DEFINE r == [req |-> IF Settled(d) THEN 0 ELSE pending[d].id,
                   source |-> IF Settled(d) THEN "observed" ELSE pending[d].source,
                   outcome |-> v.outcome, responded |-> v.responded]
  <2>1. r \in DeliveryRecord
    BY PendingType DEF DeliveryRecord, Sources
  <2>2. records'[d] = Append(records[d], r)
    BY <1>1, LogVerdictAppends
  <2>3. /\ r.req = (IF Settled(d) THEN 0 ELSE begun[d]) /\ r.outcome = v.outcome
        /\ Settled(d) => r.source = "observed"
    BY <1>0
  <2>4. QED  BY <2>1, <2>2, <2>3 DEF Adds
<1>2. CASE Begins(d)
  <2>1. PICK content \in Contents, source \in RequestSources, session \in Sessions \cup {None} :
           BeginRequest(d, content, source, session)
    BY <1>2 DEF Begins
  <2>2. pending'[d] = [id |-> begun[d] + 1, content |-> content, source |-> source,
                       session_at_request |-> session]
    BY <2>1 DEF BeginRequest, OtherTimers, Supersede, TypeOK
  <2>3. pending'[d] \in PendingRequest
    BY <2>2 DEF PendingRequest, TypeOK
  <2>4. NewRequest(d)
    BY <2>1, <2>2, <2>3, NonePendingAssumption DEF BeginRequest, OtherTimers, Supersede, TypeOK, NewRequest, Settled
  <2>5. CASE Settled(d)
    BY <2>1, <2>4, <2>5 DEF BeginRequest, OtherTimers, Supersede, RequestStep
  <2>6. CASE ~Settled(d)
    <3>1. LogVerdict(d, Verdict("unknown", FALSE))
      BY <2>1, <2>6 DEF BeginRequest, OtherTimers, Supersede
    <3>2. Verdict("unknown", FALSE).outcome = "unknown"
      BY DEF Verdict
    <3>3. QED  BY <3>1, <3>2, <2>4, <2>6, <1>1, VerdictTypes DEF RequestStep
  <2>7. QED  BY <2>5, <2>6
<1>3. CASE \E v \in Verdicts : Resolve(d, v)
  <2>1. PICK v \in Verdicts : Resolve(d, v)
    BY <1>3
  <2>2. pending'[d] = None /\ begun'[d] = begun[d]
    BY <2>1 DEF Resolve, OtherTimers, TypeOK
  <2>3. PICK r \in DeliveryRecord :
           /\ Adds(d, IF Settled(d) THEN 0 ELSE begun[d], r) /\ r.outcome = v.outcome
           /\ Settled(d) => r.source = "observed"
    BY <2>1, <1>1, VerdictTypes DEF Resolve, OtherTimers
  <2>4. v.outcome # "unknown"
    BY DEF Verdicts
  <2>5. CASE Settled(d)
    BY <2>2, <2>3, <2>5 DEF RequestStep, Unmoved, Settled, Aside
  <2>6. CASE ~Settled(d)
    BY <2>2, <2>3, <2>4, <2>6 DEF RequestStep, Settled
  <2>7. QED  BY <2>5, <2>6
<1>4. CASE \E source \in Sources, v \in Verdicts : Note(d, source, v)
  <2>1. PICK source \in Sources, v \in Verdicts : Note(d, source, v)
    BY <1>4
  <2> DEFINE r == [req |-> 0, source |-> source,
                   outcome |-> v.outcome, responded |-> v.responded]
  <2>2. r \in DeliveryRecord
    BY VerdictTypes DEF DeliveryRecord
  <2>3. Adds(d, 0, r) /\ Aside(r.source, r.outcome)
    BY <2>1, LogRecordAppends DEF Note, Adds
  <2>4. QED  BY <2>1, <2>2, <2>3 DEF Note, RequestStep, Unmoved
<1>5. CASE DropTimer(d)
  BY <1>5 DEF DropTimer, RequestStep, Unmoved
<1>6. CASE UNCHANGED ledgerVars
  BY <1>6 DEF ledgerVars, RequestStep, Unmoved
<1>7. QED  BY <1>2, <1>3, <1>4, <1>5, <1>6, StepKinds

LEMMA VerdictsAfterAppend ==
  ASSUME NEW log \in Seq(DeliveryRecord), NEW r \in DeliveryRecord, NEW i
  PROVE  VerdictsIn(Append(log, r), i) =
           IF r.req = i THEN VerdictsIn(log, i) \cup {Len(log) + 1} ELSE VerdictsIn(log, i)
BY AppendIndices DEF VerdictsIn

\* The inductive invariant: the pending request is the newest, the log names no
\* request that was not begun, and each request has its one verdict.
Settling ==
    \A d \in Devices :
       /\ ~Settled(d) => pending[d].id = begun[d] /\ begun[d] > 0
       /\ \A k \in DOMAIN records[d] : records[d][k].req \in 0 .. begun[d]
       /\ \A i \in 1 .. begun[d] :
            IF ~Settled(d) /\ i = begun[d]
            THEN VerdictsIn(records[d], i) = {}
            ELSE \E k \in VerdictsIn(records[d], i) : VerdictsIn(records[d], i) = {k}

\* A request that is not begun yet has no verdict.
LEMMA NoVerdictAhead ==
  ASSUME NEW log \in Seq(DeliveryRecord), NEW n \in Nat,
         \A k \in DOMAIN log : log[k].req \in 0 .. n
  PROVE  VerdictsIn(log, n + 1) = {}
BY DEF VerdictsIn

LEMMA SettlingStep ==
  ASSUME TypeOK, Settling, NEW d \in Devices, DeviceStep(d)
  PROVE  Settling'
<1> DEFINE Newest(e) == ~Settled(e) => pending[e].id = begun[e] /\ begun[e] > 0
           Known(e) == \A k \in DOMAIN records[e] : records[e][k].req \in 0 .. begun[e]
           Once(e) == \A i \in 1 .. begun[e] :
             IF ~Settled(e) /\ i = begun[e]
             THEN VerdictsIn(records[e], i) = {}
             ELSE \E k \in VerdictsIn(records[e], i) : VerdictsIn(records[e], i) = {k}
<1>1. SUFFICES Newest(d)' /\ Known(d)' /\ Once(d)'
  <2>1. ASSUME NEW e \in Devices \ {d} PROVE (Newest(e) /\ Known(e) /\ Once(e))'
    <3>1. Newest(e) /\ Known(e) /\ Once(e)
      BY DEF Settling
    <3>2. pending'[e] = pending[e] /\ begun'[e] = begun[e] /\ records'[e] = records[e]
      BY OtherDevices
    <3>3. Settled(e)' <=> Settled(e)
      BY <3>2 DEF Settled
    <3>4. Newest(e)'
      BY <3>1, <3>2, <3>3
    <3>5. Known(e)'
      BY <3>1, <3>2
    <3>6. Once(e)'
      <4>1. ASSUME NEW i PROVE VerdictsIn(records[e], i)' = VerdictsIn(records[e], i)
        BY <3>2, Zenon DEF VerdictsIn
      <4>2. QED  BY <3>1, <3>2, <3>3, <4>1
    <3>7. QED  BY <3>4, <3>5, <3>6
  <2>2. \A e \in Devices : (Newest(e) /\ Known(e) /\ Once(e))'
    BY <1>1, <2>1
  <2>3. QED  BY <2>2 DEF Settling, Settled
<1>2. /\ records[d] \in Seq(DeliveryRecord) /\ begun[d] \in Nat
      /\ Newest(d) /\ Known(d) /\ Once(d)
  BY DEF TypeOK, Settling
<1>3. RequestStep(d)
  BY <1>2, RequestSteps
<1>4. VerdictsIn(records[d], begun[d] + 1) = {}
  BY <1>2, NoVerdictAhead
<1>5. CASE Unmoved(d) /\ records'[d] = records[d]
  BY <1>2, <1>5 DEF Unmoved, Settled
<1>6. CASE Settled(d) /\ NewRequest(d) /\ records'[d] = records[d]
  BY <1>2, <1>4, <1>6 DEF NewRequest
<1>7. CASE /\ ~Settled(d) /\ NewRequest(d)
           /\ \E r \in DeliveryRecord : Adds(d, begun[d], r) /\ r.outcome = "unknown"
  <2>1. PICK r \in DeliveryRecord : Adds(d, begun[d], r)
    BY <1>7
  <2>2. Newest(d)' /\ Known(d)'
    BY <1>2, <1>7, <2>1, AppendIndices DEF NewRequest, Adds
  <2>3. Once(d)'
    <3>1. SUFFICES ASSUME NEW i \in 1 .. begun[d] + 1
                   PROVE  IF i = begun[d] + 1
                          THEN VerdictsIn(records'[d], i) = {}
                          ELSE \E k \in VerdictsIn(records'[d], i) :
                                 VerdictsIn(records'[d], i) = {k}
      BY <1>7 DEF NewRequest
    <3>2. VerdictsIn(records'[d], i) =
            IF begun[d] = i THEN VerdictsIn(records[d], i) \cup {Len(records[d]) + 1}
                            ELSE VerdictsIn(records[d], i)
      <4>1. VerdictsIn(Append(records[d], r), i) =
              IF r.req = i THEN VerdictsIn(records[d], i) \cup {Len(records[d]) + 1}
                           ELSE VerdictsIn(records[d], i)
        BY <1>2, VerdictsAfterAppend, Zenon
      <4>2. QED  BY <4>1, <2>1, Zenon DEF Adds
    <3>3. CASE i = begun[d] + 1
      BY <1>2, <1>4, <3>2, <3>3
    <3>4. CASE i = begun[d]
      <4>1. VerdictsIn(records[d], i) = {}
        BY <1>2, <1>7, <3>4
      <4>2. VerdictsIn(records'[d], i) = {Len(records[d]) + 1}
        BY <3>2, <3>4, <4>1
      <4>3. QED  BY <1>2, <3>4, <4>2
    <3>5. CASE i \in 1 .. begun[d] - 1
      BY <1>2, <1>7, <3>2, <3>5
    <3>6. QED  BY <1>2, <3>3, <3>4, <3>5
  <2>4. QED  BY <2>2, <2>3
<1>8. CASE /\ ~Settled(d) /\ Settled(d)' /\ begun'[d] = begun[d]
           /\ \E r \in DeliveryRecord : Adds(d, begun[d], r) /\ r.outcome # "unknown"
  <2>1. PICK r \in DeliveryRecord : Adds(d, begun[d], r)
    BY <1>8
  <2>2. Newest(d)' /\ Known(d)'
    BY <1>2, <1>8, <2>1, AppendIndices DEF Adds
  <2>3. Once(d)'
    <3>1. SUFFICES ASSUME NEW i \in 1 .. begun[d]
                   PROVE  \E k \in VerdictsIn(records'[d], i) : VerdictsIn(records'[d], i) = {k}
      BY <1>8
    <3>2. VerdictsIn(records'[d], i) =
            IF begun[d] = i THEN VerdictsIn(records[d], i) \cup {Len(records[d]) + 1}
                            ELSE VerdictsIn(records[d], i)
      <4>1. VerdictsIn(Append(records[d], r), i) =
              IF r.req = i THEN VerdictsIn(records[d], i) \cup {Len(records[d]) + 1}
                           ELSE VerdictsIn(records[d], i)
        BY <1>2, VerdictsAfterAppend, Zenon
      <4>2. QED  BY <4>1, <2>1, Zenon DEF Adds
    <3>3. CASE i = begun[d]
      BY <1>2, <1>8, <3>2, <3>3
    <3>4. CASE i # begun[d]
      BY <1>2, <1>8, <3>2, <3>4
    <3>5. QED  BY <3>3, <3>4
  <2>4. QED  BY <2>2, <2>3
<1>9. CASE Unmoved(d) /\ \E r \in DeliveryRecord : Adds(d, 0, r)
  <2>1. PICK r \in DeliveryRecord : Adds(d, 0, r)
    BY <1>9
  <2>2. Newest(d)' /\ Known(d)'
    BY <1>2, <1>9, <2>1, AppendIndices DEF Adds, Unmoved, Settled
  <2>3. Once(d)'
    <3>1. ASSUME NEW i \in 1 .. begun[d] PROVE VerdictsIn(records'[d], i) = VerdictsIn(records[d], i)
      <4>1. VerdictsIn(Append(records[d], r), i) =
              IF r.req = i THEN VerdictsIn(records[d], i) \cup {Len(records[d]) + 1}
                           ELSE VerdictsIn(records[d], i)
        BY <1>2, VerdictsAfterAppend, Zenon
      <4>2. r.req # i /\ records'[d] = Append(records[d], r)
        BY <1>2, <2>1 DEF Adds
      <4>3. QED  BY <4>1, <4>2
    <3>2. begun'[d] = begun[d] /\ (Settled(d)' <=> Settled(d))
      BY <1>9 DEF Unmoved, Settled
    <3>3. QED  BY <1>2, <3>1, <3>2
  <2>4. QED  BY <2>2, <2>3
<1>10. QED  BY <1>3, <1>5, <1>6, <1>7, <1>8, <1>9 DEF RequestStep

LEMMA SettlingHolds == Spec => []Settling
<1>1. Init => Settling
  BY DEF Init, Settling, Settled
<1>2. TypeOK /\ Settling /\ [Next]_ledgerVars => Settling'
  <2>1. ASSUME Settling, Shutdown \/ UNCHANGED ledgerVars PROVE Settling'
    BY <2>1 DEF Shutdown, OtherTimers, ledgerVars, Settling, Settled
  <2>2. QED  BY <2>1, SettlingStep DEF Next
<1>3. QED  BY <1>1, <1>2, TypeCorrect, PTL DEF Spec

\* Whatever races for it, a request gets one verdict: none is lost when a newer
\* request supersedes it, none is given twice.
THEOREM EachRequestOneVerdict == Spec => []OneVerdictPerRequest
<1>1. TypeOK /\ Settling => OneVerdictPerRequest
  BY DEF Settling, OneVerdictPerRequest
<1>2. QED  BY <1>1, TypeCorrect, SettlingHolds, PTL

LEMMA OutcomeKept ==
  ASSUME NEW log \in Seq(DeliveryRecord), NEW r \in DeliveryRecord, NEW i,
         r.req # i, \E k \in VerdictsIn(log, i) : VerdictsIn(log, i) = {k}
  PROVE  OutcomeIn(Append(log, r), i) = OutcomeIn(log, i)
<1>1. PICK k \in VerdictsIn(log, i) : VerdictsIn(log, i) = {k}
  OBVIOUS
<1>2. VerdictsIn(Append(log, r), i) = VerdictsIn(log, i)
  BY VerdictsAfterAppend, Zenon
<1>3. (CHOOSE j \in VerdictsIn(log, i) : TRUE) = k
  BY <1>1
<1>4. k \in DOMAIN log
  BY <1>1 DEF VerdictsIn
<1>5. Append(log, r)[k] = log[k]
  BY <1>4, AppendIndices
<1>6. QED  BY <1>2, <1>3, <1>5, Zenon DEF OutcomeIn

LEMMA OutcomeGiven ==
  ASSUME NEW log \in Seq(DeliveryRecord), NEW r \in DeliveryRecord, NEW i,
         r.req = i, VerdictsIn(log, i) = {}
  PROVE  OutcomeIn(Append(log, r), i) = r.outcome
<1> DEFINE n == Len(log) + 1
<1>1. VerdictsIn(Append(log, r), i) = {n}
  <2>1. VerdictsIn(Append(log, r), i) = VerdictsIn(log, i) \cup {n}
    BY VerdictsAfterAppend, Zenon
  <2>2. QED  BY <2>1
<1>2. (CHOOSE j \in {n} : TRUE) = n
  OBVIOUS
<1>3. Append(log, r)[n] = r
  BY AppendIndices
<1>4. QED  BY <1>1, <1>2, <1>3, Zenon DEF OutcomeIn

\* What the promise is told of a device, and how each kind of step changes it.
Kept(waiting, n, log) ==
    /\ n \in Nat /\ log \in Seq(DeliveryRecord)
    /\ \A k \in DOMAIN log : log[k].req \in 0 .. n
    /\ \A i \in 1 .. n :
         IF i = waiting
         THEN VerdictsIn(log, i) = {}
         ELSE \E k \in VerdictsIn(log, i) : VerdictsIn(log, i) = {k}

LEMMA HistorySeq ==
  ASSUME NEW waiting, NEW n \in Nat, NEW log
  PROVE  /\ \E S : "waiting" \in S /\ History(waiting, n, log) \in Seq(S)
         /\ Len(History(waiting, n, log)) = n
         /\ (History(waiting, n, log) = <<>>) <=> (n = 0)
<1> DEFINE S == {"waiting"} \cup {OutcomeIn(log, i) : i \in 1 .. n}
           h == [i \in 1 .. n |-> IF i = waiting THEN "waiting" ELSE OutcomeIn(log, i)]
<1>1. h \in [1 .. n -> S]
  OBVIOUS
<1>2. h \in Seq(S) /\ Len(h) = n /\ ((h = <<>>) <=> (n = 0))
  <2> HIDE DEF S, h
  <2>1. h \in Seq(S)
    BY <1>1
  <2>2. Len(h) = n
    BY <1>1, <2>1
  <2>3. QED  BY <2>1, <2>2
<1>3. "waiting" \in S
  OBVIOUS
<1>4. History(waiting, n, log) = h
  BY Zenon DEF History
<1> HIDE DEF S, h
<1>5. QED  BY <1>2, <1>3, <1>4, Zenon

LEMMA HistoryGrows ==
  ASSUME NEW n \in Nat, NEW log
  PROVE  History(n + 1, n + 1, log) = Append(History(0, n, log), "waiting")
<1> DEFINE h == History(0, n, log)
<1>0. PICK S : "waiting" \in S /\ h \in Seq(S)
  BY HistorySeq, Zenon
<1>1. Len(h) = n
  BY HistorySeq, Zenon
<1>2. Append(h, "waiting") = [i \in 1 .. n + 1 |-> IF i = n + 1 THEN "waiting" ELSE h[i]]
  <2> HIDE DEF h
  <2>1. Append(h, "waiting") \in Seq(S) /\ Len(Append(h, "waiting")) = n + 1
    BY <1>0, <1>1
  <2>2. DOMAIN Append(h, "waiting") = 1 .. n + 1
    BY <2>1
  <2>3. \A i \in 1 .. n + 1 :
          Append(h, "waiting")[i] = IF i = n + 1 THEN "waiting" ELSE h[i]
    BY <1>0, <1>1
  <2> DEFINE longer == Append(h, "waiting")
  <2>4. longer \in [1 .. n + 1 -> S]
    <3>1. longer \in Seq(S) /\ Len(longer) = n + 1
      BY <2>1
    <3> HIDE DEF longer
    <3>2. QED  BY <3>1, LenProperties
  <2>5. QED  BY <2>2, <2>3, <2>4
<1>3. \A i \in 1 .. n + 1 : i # n + 1 => i # 0 /\ i \in 1 .. n
  OBVIOUS
<1>4. \A i \in 1 .. n : h[i] = OutcomeIn(log, i)
  BY DEF History
<1>5. QED  BY <1>2, <1>3, <1>4 DEF History

LEMMA HistoryAnswered ==
  ASSUME NEW n \in Nat \ {0}, NEW log, Kept(n, n, log), NEW r \in DeliveryRecord, r.req = n
  PROVE  History(0, n, Append(log, r)) = [History(n, n, log) EXCEPT ![n] = r.outcome]
<1>1. OutcomeIn(Append(log, r), n) = r.outcome
  BY OutcomeGiven DEF Kept
<1>2. \A i \in 1 .. n : i # n => OutcomeIn(Append(log, r), i) = OutcomeIn(log, i)
  BY OutcomeKept DEF Kept
<1>3. History(0, n, Append(log, r)) = [i \in 1 .. n |-> OutcomeIn(Append(log, r), i)]
  BY DEF History
<1>4. [History(n, n, log) EXCEPT ![n] = r.outcome] =
        [i \in 1 .. n |-> IF i = n THEN r.outcome ELSE OutcomeIn(log, i)]
  BY DEF History
<1>5. QED  BY <1>1, <1>2, <1>3, <1>4

LEMMA HistoryAside ==
  ASSUME NEW waiting, NEW n, NEW log, Kept(waiting, n, log), NEW r \in DeliveryRecord, r.req = 0
  PROVE  History(waiting, n, Append(log, r)) = History(waiting, n, log)
<1>1. \A i \in 1 .. n : i # waiting => OutcomeIn(Append(log, r), i) = OutcomeIn(log, i)
  BY OutcomeKept DEF Kept
<1>2. QED  BY <1>1 DEF History

LEMMA PromiseStep ==
  ASSUME TypeOK, Settling, NEW d \in Devices, DeviceStep(d)
  PROVE  [Promise!Next]_Promised
<1> DEFINE H(e) == History(WaitingId(e), begun[e], records[e])
<1>0. /\ Promised = [e \in Devices |-> H(e)] /\ Promised' = [e \in Devices |-> H(e)']
      /\ \A e \in Devices \ {d} : H(e)' = H(e)
  BY OtherDevices DEF Promised, WaitingId, Settled
<1>1. /\ Kept(WaitingId(d), begun[d], records[d]) /\ begun[d] \in Nat
      /\ ~Settled(d) => WaitingId(d) = begun[d] /\ begun[d] > 0 /\ pending[d].id = begun[d]
      /\ Settled(d) => WaitingId(d) = 0
  BY DEF TypeOK, Settling, Kept, WaitingId
<1>2. RequestStep(d)
  BY <1>1, RequestSteps
<1>3. Promise!Waiting(d) <=> ~Settled(d)
  <2>1. ASSUME Settled(d), begun[d] > 0 PROVE H(d)[begun[d]] # "waiting"
    <3>1. PICK k \in VerdictsIn(records[d], begun[d]) : VerdictsIn(records[d], begun[d]) = {k}
      BY <1>1, <2>1 DEF Kept
    <3>2. H(d)[begun[d]] = records[d][k].outcome
      <4>1. H(d)[begun[d]] = OutcomeIn(records[d], begun[d])
        BY <1>1, <2>1 DEF History
      <4>2. (CHOOSE j \in VerdictsIn(records[d], begun[d]) : TRUE) = k
        BY <3>1
      <4>3. QED  BY <4>1, <4>2 DEF OutcomeIn
    <3>3. records[d][k].outcome \in DeliveryOutcome
      <4>1. k \in DOMAIN records[d] /\ records[d] \in Seq(DeliveryRecord)
        BY <1>1, <3>1 DEF Kept, VerdictsIn
      <4>2. records[d][k] \in DeliveryRecord
        BY <4>1
      <4>3. QED  BY <4>2 DEF DeliveryRecord
    <3>4. QED  BY <3>2, <3>3 DEF DeliveryOutcome, FAILURE_OUTCOMES
  <2>2. ASSUME ~Settled(d) PROVE H(d)[begun[d]] = "waiting"
    BY <1>1, <2>2 DEF History
  <2>3. Len(H(d)) = begun[d] /\ ((H(d) = <<>>) <=> (begun[d] = 0))
    BY <1>1, HistorySeq, Zenon
  <2>4. Promised[d] = H(d)
    BY <1>0
  <2>5. CASE begun[d] = 0
    BY <1>1, <2>3, <2>4, <2>5 DEF Promise!Waiting
  <2>6. CASE begun[d] > 0
    BY <2>1, <2>2, <2>3, <2>4, <2>6 DEF Promise!Waiting
  <2>7. QED  BY <1>1, <2>5, <2>6
<1>4. ASSUME NEW outcome, ~Settled(d)
      PROVE  Promise!Settle(d, outcome) = [H(d) EXCEPT ![begun[d]] = outcome]
  <2>1. Len(H(d)) = begun[d]
    BY <1>1, HistorySeq, Zenon
  <2>2. Promised[d] = H(d)
    BY <1>0
  <2>3. Promise!Settle(d, outcome) = [Promised[d] EXCEPT ![Len(Promised[d])] = outcome]
    BY <1>3, <1>4 DEF Promise!Settle
  <2>4. QED  BY <2>1, <2>2, <2>3, Zenon
<1>5. CASE Unmoved(d) /\ records'[d] = records[d]
  <2>1. H(d)' = H(d)
    BY <1>5 DEF Unmoved, WaitingId, Settled
  <2>2. QED  BY <1>0, <2>1
<1>6. CASE Settled(d) /\ NewRequest(d) /\ records'[d] = records[d]
  <2>1. H(d)' = History(begun[d] + 1, begun[d] + 1, records[d])
    BY <1>6 DEF NewRequest, WaitingId
  <2>2. H(d)' = Append(Promise!Settle(d, "unknown"), "waiting")
    BY <1>0, <1>1, <1>3, <1>6, <2>1, HistoryGrows DEF Promise!Settle
  <2>3. QED  BY <1>0, <2>2 DEF Promise!Next, Promise!Ask
<1>7. CASE /\ ~Settled(d) /\ NewRequest(d)
           /\ \E r \in DeliveryRecord : Adds(d, begun[d], r) /\ r.outcome = "unknown"
  <2>1. PICK r \in DeliveryRecord : Adds(d, begun[d], r) /\ r.outcome = "unknown"
    BY <1>7
  <2>2. H(d)' = History(begun[d] + 1, begun[d] + 1, Append(records[d], r))
    BY <1>7, <2>1 DEF NewRequest, WaitingId, Adds
  <2>3. History(0, begun[d], Append(records[d], r)) = Promise!Settle(d, "unknown")
    BY <1>1, <1>4, <1>7, <2>1, HistoryAnswered DEF Adds
  <2>4. H(d)' = Append(Promise!Settle(d, "unknown"), "waiting")
    BY <1>1, <2>2, <2>3, HistoryGrows
  <2>5. QED  BY <1>0, <2>4 DEF Promise!Next, Promise!Ask
<1>8. CASE /\ ~Settled(d) /\ Settled(d)' /\ begun'[d] = begun[d]
           /\ \E r \in DeliveryRecord : Adds(d, begun[d], r) /\ r.outcome # "unknown"
  <2>1. PICK r \in DeliveryRecord : Adds(d, begun[d], r) /\ r.outcome # "unknown"
    BY <1>8
  <2>2. H(d)' = History(0, begun[d], Append(records[d], r))
    BY <1>8, <2>1 DEF WaitingId, Adds
  <2>3. H(d)' = Promise!Settle(d, r.outcome)
    BY <1>1, <1>4, <1>8, <2>1, <2>2, HistoryAnswered DEF Adds
  <2>4. r.outcome \in Promise!DeliveryOutcome \ {"unknown"}
    BY <2>1 DEF DeliveryRecord, DeliveryOutcome, FAILURE_OUTCOMES,
                Promise!DeliveryOutcome, Promise!FAILURE_OUTCOMES
  <2>5. Promised' = [Promised EXCEPT ![d] = Promise!Settle(d, r.outcome)]
    BY <1>0, <2>3
  <2>6. QED  BY <1>3, <1>8, <2>4, <2>5 DEF Promise!Next, Promise!Answer
<1>9. CASE Unmoved(d) /\ \E r \in DeliveryRecord : Adds(d, 0, r)
  <2>1. PICK r \in DeliveryRecord : Adds(d, 0, r)
    BY <1>9
  <2>2. H(d)' = History(WaitingId(d), begun[d], Append(records[d], r))
    BY <1>9, <2>1 DEF Unmoved, WaitingId, Settled, Adds
  <2>3. H(d)' = H(d)
    BY <1>1, <2>1, <2>2, HistoryAside DEF Adds
  <2>4. QED  BY <1>0, <2>3
<1>10. QED  BY <1>2, <1>5, <1>6, <1>7, <1>8, <1>9 DEF RequestStep

\* The ledger implements the promise: seen from its callers it only ever begins
\* a request, settling the older one as "unknown", or gives the newest request
\* its final verdict.
THEOREM LedgerKeepsPromise == Spec => KeepsPromise
<1>1. Init => Promise!Init
  <2>1. SUFFICES ASSUME Init PROVE Promised = [d \in Devices |-> <<>>]
    BY DEF Promise!Init
  <2>2. \A d \in Devices : begun[d] = 0
    BY <2>1 DEF Init
  <2>3. \A d \in Devices : History(WaitingId(d), begun[d], records[d]) = <<>>
    BY <2>2, HistorySeq
  <2>4. QED  BY <2>3 DEF Promised
<1>2. TypeOK /\ Settling /\ [Next]_ledgerVars => [Promise!Next]_Promised
  <2>1. ASSUME Shutdown \/ UNCHANGED ledgerVars PROVE Promised' = Promised
    BY <2>1 DEF Shutdown, OtherTimers, ledgerVars, Promised, WaitingId, Settled
  <2>2. QED  BY <2>1, PromiseStep DEF Next
<1>3. QED  BY <1>1, <1>2, TypeCorrect, SettlingHolds, PTL DEF Spec, KeepsPromise, Promise!Spec
=============================================================================
