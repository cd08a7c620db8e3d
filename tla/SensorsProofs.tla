----------------------------- MODULE SensorsProofs -----------------------------
(***************************************************************************)
(* The playback of the entities, the probes of the coordinator and the     *)
(* sensors, one on top of the other. Each reaches the ledger only through  *)
(* its handlers, so all that is proved of the ledger holds of the whole;   *)
(* beyond that: the entity's shared flag never leaks, whoever is told of   *)
(* an error finds its verdict, a pending probe is always awaited by its    *)
(* task, no refresh gives it a verdict, the breaker agrees with the log    *)
(* and is silent while open, and the sensors show the ledger.              *)
(***************************************************************************)
EXTENDS Sensors, CallerErrors, DeliveryLedgerProofs

-----------------------------------------------------------------------------
(* The entities. *)

PlayerType ==
    /\ call \in [Calls -> ServiceCall \cup {None}]
    /\ request_source \in [Devices -> {"play_media", "announce"}]

\* The call that is in a stage is a record.
LEMMA CallInStage ==
  ASSUME PlayerType, NEW c \in Calls, NEW stage, InStage(c, stage)
  PROVE  /\ call[c] \in ServiceCall
         /\ call[c].device \in Devices /\ call[c].content \in Contents
         /\ call[c].kind \in {"play_media", "announce"} /\ call[c].id \in Nat
         /\ request_source[call[c].device] \in {"play_media", "announce"}
<1>1. call[c] \in ServiceCall
  BY DEF InStage, PlayerType
<1>2. QED  BY <1>1 DEF ServiceCall, PlayerType

\* What a step of the entity does to the ledger is a step of the ledger.
LEMMA SendIsLedgerStep ==
  ASSUME PlayerType, NEW c \in Calls, NEW session \in Sessions \cup {None},
         SendRequest(c, session)
  PROVE  Next
<1>1. InStage(c, "resolving")
  BY DEF SendRequest
<1>2. /\ call[c].device \in Devices /\ call[c].content \in Contents
      /\ request_source[call[c].device] \in RequestSources
  BY <1>1, CallInStage DEF RequestSources
<1>3. BeginRequest(call[c].device, call[c].content, request_source[call[c].device], session)
  BY DEF SendRequest
<1>4. QED  BY <1>2, <1>3 DEF Next, DeviceStep

LEMMA EndIsLedgerStep ==
  ASSUME PlayerType, NEW c \in Calls, QuickPlayEnds(c)
  PROVE  [Next]_ledgerVars
<1>1. CASE QuickPlayReturns(c) \/ QuickPlayUnsupported(c)
  BY <1>1 DEF QuickPlayReturns, QuickPlayUnsupported
<1>2. CASE \E err \in Errors \ {"TimeoutError"}, answered \in BOOLEAN :
              QuickPlayRaises(c, err, answered)
  <2>1. PICK err \in Errors, answered \in BOOLEAN : QuickPlayRaises(c, err, answered)
    BY <1>2
  <2>2. call[c].device \in Devices /\ RequestFailed(call[c].device, err, answered)
    BY <2>1, CallInStage DEF QuickPlayRaises
  <2>3. QED  BY <2>2 DEF Next, DeviceStep
<1>3. CASE Watchdog(c)
  <2>1. call[c].device \in Devices /\ RequestFailed(call[c].device, "TimeoutError", FALSE)
    BY <1>3, CallInStage DEF Watchdog, WatchdogDue
  <2>2. "TimeoutError" \in Errors
    BY DEF Errors
  <2>3. QED  BY <2>1, <2>2 DEF Next, DeviceStep
<1>4. QED  BY <1>1, <1>2, <1>3 DEF QuickPlayEnds

LEMMA ServiceIsLedgerStep ==
  ASSUME PlayerType, ServiceStep
  PROVE  [Next]_ledgerVars
<1>1. ASSUME NEW c \in Calls, NEW d \in Devices, NEW content \in Contents,
             PlayMedia(c, d, content) \/ Announce(c, d, content)
      PROVE  UNCHANGED ledgerVars
  BY <1>1 DEF PlayMedia, Announce
<1>2. ASSUME NEW d \in Devices, RejectAnnounce(d) PROVE Next
  <2>1. RecordOutcome(d, "template_error", "announce")
    BY <1>2 DEF RejectAnnounce
  <2>2. <<"template_error", "announce">> \in Recordings
    BY DEF Recordings
  <2>3. \E r \in Recordings : RecordOutcome(d, r[1], r[2])
    <3> DEFINE rejected == <<"template_error", "announce">>
    <3>1. rejected[1] = "template_error" /\ rejected[2] = "announce"
      OBVIOUS
    <3>2. WITNESS rejected \in Recordings
    <3>3. QED  BY <2>1, <3>1
  <2>4. QED  BY <2>3 DEF Next, DeviceStep
<1>3. ASSUME NEW c \in Calls, AbandonPlay(c) PROVE UNCHANGED ledgerVars
  BY <1>3 DEF AbandonPlay
<1>4. QED  BY <1>1, <1>2, <1>3, SendIsLedgerStep DEF ServiceStep

LEMMA ReportIsLedgerStep ==
  ASSUME NEW d \in Devices, DeviceReport(d)
  PROVE  Next
BY DEF DeviceReport, Next, DeviceStep

\* The flag and the calls keep their types, whatever else happens.
LEMMA CallsType ==
  ASSUME PlayerType, TypeOK,
         \/ ServiceStep
         \/ \E c \in Calls : QuickPlayEnds(c)
         \/ UNCHANGED playerVars
  PROVE  PlayerType'
<1>1. ASSUME NEW c \in Calls, NEW stage, InStage(c, stage), Leave(c) PROVE PlayerType'
  <2>1. call[c].device \in Devices
    BY <1>1, CallInStage
  <2>2. QED  BY <1>1, <2>1 DEF Leave, SourceAfter, PlayerType
<1>2. ASSUME NEW c \in Calls, NEW d \in Devices, NEW content \in Contents,
             PlayMedia(c, d, content) \/ Announce(c, d, content)
      PROVE  PlayerType'
  <2>1. \A kind \in {"play_media", "announce"} :
          [device |-> d, kind |-> kind, content |-> content,
           stage |-> "resolving", id |-> 0] \in ServiceCall
    BY DEF ServiceCall
  <2>2. call' \in [Calls -> ServiceCall \cup {None}]
    BY <1>2, <2>1 DEF PlayMedia, Announce, Enter, PlayerType
  <2>3. request_source' \in [Devices -> {"play_media", "announce"}]
    BY <1>2 DEF PlayMedia, Announce, PlayerType
  <2>4. QED  BY <2>2, <2>3 DEF PlayerType
<1>3. ASSUME NEW c \in Calls, NEW session \in Sessions \cup {None}, SendRequest(c, session)
      PROVE  PlayerType'
  <2>1. InStage(c, "resolving") /\ call[c] \in ServiceCall /\ call[c].device \in Devices
    BY <1>3, CallInStage DEF SendRequest
  <2>2. begun'[call[c].device] \in Nat
    BY <1>3, <2>1 DEF SendRequest, BeginRequest, OtherTimers, Supersede, TypeOK
  <2>3. [call[c] EXCEPT !.stage = "playing", !.id = begun'[call[c].device]] \in ServiceCall
    BY <2>1, <2>2 DEF ServiceCall
  <2>4. call' = [call EXCEPT ![c] =
                   [call[c] EXCEPT !.stage = "playing", !.id = begun'[call[c].device]]]
    BY <1>3, <2>1 DEF SendRequest, PlayerType
  <2>5. QED  BY <1>3, <2>3, <2>4 DEF SendRequest, PlayerType
<1>4. ASSUME NEW d \in Devices, RejectAnnounce(d) PROVE PlayerType'
  BY <1>4 DEF RejectAnnounce, playerVars, PlayerType
<1>5. ASSUME NEW c \in Calls, AbandonPlay(c) PROVE PlayerType'
  BY <1>5, <1>1 DEF AbandonPlay
<1>6. ASSUME NEW c \in Calls, QuickPlayEnds(c) PROVE PlayerType'
  <2>1. InStage(c, "playing") /\ Leave(c)
    BY <1>6 DEF QuickPlayEnds, QuickPlayReturns, QuickPlayUnsupported, QuickPlayRaises, Watchdog,
     WatchdogDue
  <2>2. QED  BY <2>1, <1>1
<1>7. ASSUME UNCHANGED playerVars PROVE PlayerType'
  BY <1>7 DEF playerVars, PlayerType
<1>8. QED  BY <1>2, <1>3, <1>4, <1>5, <1>6, <1>7 DEF ServiceStep

LEMMA PlayerStep ==
  ASSUME PlayerType, TypeOK, [MediaPlayerNext]_mediaPlayerVars
  PROVE  PlayerType' /\ [Next]_ledgerVars
<1>1. CASE ServiceStep
  BY <1>1, CallsType, ServiceIsLedgerStep
<1>2. CASE \E d \in Devices : DeviceReport(d)
  BY <1>2, CallsType, ReportIsLedgerStep DEF DeviceReport
<1>3. CASE StopLedger
  BY <1>3, CallsType DEF StopLedger, Next
<1>4. CASE \E c \in Calls : QuickPlayEnds(c)
  BY <1>4, CallsType, EndIsLedgerStep
<1>5. CASE \E d \in Devices : RequestTimer(d)
  BY <1>5, CallsType DEF RequestTimer, Next, DeviceStep
<1>6. CASE UNCHANGED mediaPlayerVars
  BY <1>6, CallsType DEF mediaPlayerVars
<1>7. QED
  BY <1>1, <1>2, <1>3, <1>4, <1>5, <1>6 DEF MediaPlayerNext, Stimulus, Answers

LEMMA PlayerStarts == MediaPlayerInit => PlayerType /\ Init
BY DEF MediaPlayerInit, PlayerType

LEMMA PlayerHolds == MediaPlayerSpec => [](PlayerType /\ TypeOK)
<1>1. MediaPlayerInit => PlayerType /\ TypeOK
  BY PlayerStarts, InitType
<1>2. PlayerType /\ TypeOK /\ [MediaPlayerNext]_mediaPlayerVars => (PlayerType /\ TypeOK)'
  BY PlayerStep, NextType
<1>3. QED  BY <1>1, <1>2, PTL DEF MediaPlayerSpec

\* The calls in flight, the flag and the ledger keep their types.
THEOREM MediaPlayerTypeCorrect == MediaPlayerSpec => []MediaPlayerTypeOK
<1>1. PlayerType /\ TypeOK => MediaPlayerTypeOK
  BY DEF PlayerType, MediaPlayerTypeOK
<1>2. QED  BY <1>1, PlayerHolds, PTL

\* However the entity's calls, its device and the timers interleave, the ledger
\* sees a sequence of its own handlers: every theorem about Spec is one about
\* MediaPlayerSpec.
THEOREM EntityUsesLedger == MediaPlayerSpec => UsesLedger
<1>1. MediaPlayerInit => Init
  BY PlayerStarts
<1>2. PlayerType /\ TypeOK /\ [MediaPlayerNext]_mediaPlayerVars => [Next]_ledgerVars
  BY PlayerStep
<1>3. QED  BY <1>1, <1>2, PlayerHolds, PTL DEF MediaPlayerSpec, Spec, UsesLedger

-----------------------------------------------------------------------------
(* The flag. *)

Announcing(d, c) == call[c] # None /\ call[c].device = d /\ call[c].kind = "announce"

\* Only the end of an announcement can take the last one away, and it lowers
\* the flag in the same step.
LEMMA FlagStep ==
  ASSUME PlayerType, TypeOK, FlagFollowsAnnouncements,
         \/ ServiceStep
         \/ \E c \in Calls : QuickPlayEnds(c)
         \/ UNCHANGED playerVars
  PROVE  FlagFollowsAnnouncements'
<1> DEFINE Follows(d) == request_source[d] = "announce" => \E c \in Calls : Announcing(d, c)
<1>0. /\ \A d \in Devices : Follows(d)
      /\ (\A d \in Devices : Follows(d)') => FlagFollowsAnnouncements'
  BY DEF FlagFollowsAnnouncements, Announcing
<1>1. ASSUME NEW c \in Calls, NEW stage, InStage(c, stage), Leave(c)
      PROVE  FlagFollowsAnnouncements'
  <2>1. SUFFICES ASSUME NEW d \in Devices, request_source'[d] = "announce"
                 PROVE  \E b \in Calls : Announcing(d, b)'
    BY <1>0
  <2>2. call[c].device \in Devices /\ call[c].kind \in {"play_media", "announce"}
    BY <1>1, CallInStage
  <2>3. request_source[d] = "announce" /\ ~Announcing(d, c)
    BY <1>1, <2>1, <2>2 DEF Leave, SourceAfter, PlayerType, Announcing
  <2>4. PICK b \in Calls : Announcing(d, b)
    BY <1>0, <2>3
  <2>5. b # c /\ call'[b] = call[b]
    BY <1>1, <2>3, <2>4 DEF Leave, SourceAfter, PlayerType
  <2>6. QED  BY <2>4, <2>5 DEF Announcing
<1>2. ASSUME NEW c \in Calls, NEW d \in Devices, NEW content \in Contents,
             PlayMedia(c, d, content) \/ Announce(c, d, content)
      PROVE  FlagFollowsAnnouncements'
  <2>1. \A b \in Calls, e \in Devices : Announcing(e, b) => b # c /\ call'[b] = call[b]
    BY <1>2 DEF PlayMedia, Announce, Enter, Announcing, PlayerType
  <2>2. ASSUME NEW e \in Devices, request_source[e] = "announce"
        PROVE  \E b \in Calls : Announcing(e, b)'
    BY <1>0, <2>1, <2>2 DEF Announcing
  <2>3. CASE PlayMedia(c, d, content)
    BY <1>0, <2>2, <2>3 DEF PlayMedia
  <2>4. CASE Announce(c, d, content)
    <3>1. call'[c] \in ServiceCall /\ call'[c].device = d /\ call'[c].kind = "announce"
      BY <2>4 DEF Announce, Enter, PlayerType, ServiceCall
    <3>2. Announcing(d, c)'
      BY <3>1, NoneCallAssumption DEF Announcing
    <3>3. QED  BY <1>0, <2>2, <2>4, <3>2 DEF Announce, PlayerType
  <2>5. QED  BY <1>2, <2>3, <2>4
<1>3. ASSUME NEW c \in Calls, NEW session \in Sessions \cup {None}, SendRequest(c, session)
      PROVE  FlagFollowsAnnouncements'
  <2>1. InStage(c, "resolving") /\ call[c] \in ServiceCall
    BY <1>3, CallInStage DEF SendRequest
  <2>2. call'[c] = [call[c] EXCEPT !.stage = "playing", !.id = begun'[call[c].device]]
    BY <1>3, <2>1 DEF SendRequest, PlayerType
  <2>3. call'[c] \in ServiceCall
    <3>1. [call[c] EXCEPT !.stage = "playing", !.id = begun'[call[c].device]] \in ServiceCall
      <4>1. call[c].device \in Devices /\ begun'[call[c].device] \in Nat
        BY <1>3, <2>1, CallInStage DEF SendRequest, BeginRequest, OtherTimers, Supersede, TypeOK
      <4>2. QED  BY <2>1, <4>1 DEF ServiceCall
    <3>2. QED  BY <2>2, <3>1
  <2>4. \A b \in Calls, e \in Devices : Announcing(e, b) => Announcing(e, b)'
    BY <1>3, <2>1, <2>2, <2>3, NoneCallAssumption
       DEF SendRequest, Announcing, PlayerType, ServiceCall
  <2>5. QED  BY <1>0, <1>3, <2>4 DEF SendRequest
<1>4. ASSUME NEW d \in Devices, RejectAnnounce(d) PROVE FlagFollowsAnnouncements'
  BY <1>4 DEF RejectAnnounce, playerVars, FlagFollowsAnnouncements
<1>5. ASSUME NEW c \in Calls, AbandonPlay(c) PROVE FlagFollowsAnnouncements'
  BY <1>5, <1>1 DEF AbandonPlay
<1>6. ASSUME NEW c \in Calls, QuickPlayEnds(c) PROVE FlagFollowsAnnouncements'
  <2>1. InStage(c, "playing") /\ Leave(c)
    BY <1>6 DEF QuickPlayEnds, QuickPlayReturns, QuickPlayUnsupported, QuickPlayRaises, Watchdog,
     WatchdogDue
  <2>2. QED  BY <2>1, <1>1
<1>7. ASSUME UNCHANGED playerVars PROVE FlagFollowsAnnouncements'
  BY <1>7 DEF playerVars, FlagFollowsAnnouncements
<1>8. QED  BY <1>2, <1>3, <1>4, <1>5, <1>6, <1>7 DEF ServiceStep

\* No way out of async_announce leaves the flag up once the last announcement
\* of the device is over.
THEOREM FlagNeverLeaks == MediaPlayerSpec => []FlagFollowsAnnouncements
<1>1. MediaPlayerInit => FlagFollowsAnnouncements
  BY DEF MediaPlayerInit, FlagFollowsAnnouncements
<1>2. ASSUME PlayerType, TypeOK, FlagFollowsAnnouncements, [MediaPlayerNext]_mediaPlayerVars
      PROVE  FlagFollowsAnnouncements'
  <2>1. \/ ServiceStep
        \/ \E c \in Calls : QuickPlayEnds(c)
        \/ UNCHANGED playerVars
    BY <1>2 DEF MediaPlayerNext, Stimulus, Answers, DeviceReport, RequestTimer,
                StopLedger, mediaPlayerVars
  <2>2. QED  BY <1>2, <2>1, FlagStep
<1>3. QED  BY <1>1, <1>2, PlayerHolds, PTL DEF MediaPlayerSpec

-----------------------------------------------------------------------------
(* What callers are told. Requests go forward: the ledger never waits again for   *)
(* one it has settled, so an error told after a verdict stays behind it.          *)

LEMMA RequestsGoForward ==
  ASSUME TypeOK, Settling, [Next]_ledgerVars, NEW d \in Devices
  PROVE  /\ begun[d] \in Nat /\ begun'[d] \in Nat /\ begun[d] <= begun'[d]
         /\ WaitingId(d) \in 0 .. begun[d]
         /\ WaitingId(d)' \in {WaitingId(d), 0} \/ WaitingId(d)' > begun[d]
<1>1. /\ begun[d] \in Nat
      /\ ~Settled(d) => pending[d].id = begun[d] /\ begun[d] > 0
  BY DEF TypeOK, Settling
<1>2. ASSUME begun'[d] = begun[d], pending'[d] = pending[d]
      PROVE  WaitingId(d)' = WaitingId(d)
  BY <1>2 DEF WaitingId, Settled
<1>3. CASE DeviceStep(d)
  <2>1. RequestStep(d)
    BY <1>1, <1>3, RequestSteps
  <2>2. CASE Unmoved(d)
    BY <1>1, <1>2, <2>2 DEF Unmoved, WaitingId
  <2>3. CASE NewRequest(d)
    BY <1>1, <2>3 DEF NewRequest, WaitingId, Settled
  <2>4. CASE Settled(d)' /\ begun'[d] = begun[d]
    BY <1>1, <2>4 DEF WaitingId, Settled
  <2>5. QED  BY <2>1, <2>2, <2>3, <2>4 DEF RequestStep
<1>4. ASSUME NEW e \in Devices \ {d}, DeviceStep(e)
      PROVE  begun'[d] = begun[d] /\ pending'[d] = pending[d]
  BY <1>4, OtherDevices
<1>5. ASSUME Shutdown \/ UNCHANGED ledgerVars
      PROVE  begun'[d] = begun[d] /\ pending'[d] = pending[d]
  BY <1>5 DEF Shutdown, ledgerVars
<1>6. CASE begun'[d] = begun[d] /\ pending'[d] = pending[d]
  BY <1>1, <1>2, <1>6 DEF WaitingId
<1>7. QED  BY <1>3, <1>4, <1>5, <1>6 DEF Next

\* A call that plays has begun its request, an error told is of a request begun, and
\* the ledger no longer waits for it unless the app was not supported.
CallsHaveBegun ==
    \A c \in Calls : InStage(c, "playing") => call[c].id \in 1 .. begun[call[c].device]

ToldBehind ==
    /\ told \subseteq CallerError
    /\ \A t \in told :
          /\ t.id \in 1 .. begun[t.device]
          /\ t.error # "app_not_supported" => ~Waits(t)

CallerInv == CallsHaveBegun /\ ToldBehind

LEMMA CallerIsPlayer ==
  ASSUME [CallerNext]_callerVars
  PROVE  [MediaPlayerNext]_mediaPlayerVars
BY DEF CallerNext, CallerStimulus, CallerAnswers, CallEnds, callerVars, MediaPlayerNext, Answers,
   QuickPlayEnds

\* Ending a call or leaving it alone begins nothing for it.
LEMMA BegunStep ==
  ASSUME PlayerType, TypeOK, Settling, CallsHaveBegun, [MediaPlayerNext]_mediaPlayerVars
  PROVE  CallsHaveBegun'
<1>1. \A d \in Devices : begun[d] \in Nat /\ begun'[d] \in Nat /\ begun[d] <= begun'[d]
  BY PlayerStep, RequestsGoForward
<1>2. SUFFICES ASSUME NEW c \in Calls, InStage(c, "playing")'
               PROVE  call'[c].id \in 1 .. begun'[call'[c].device]
  BY DEF CallsHaveBegun
<1>3. CASE call'[c] = call[c]
  <2>1. InStage(c, "playing")
    BY <1>2, <1>3 DEF InStage
  <2>2. call[c].device \in Devices /\ call[c].id \in 1 .. begun[call[c].device]
    BY <2>1, CallInStage DEF CallsHaveBegun
  <2>3. QED  BY <1>1, <1>3, <2>2
<1>4. ASSUME NEW b \in Calls, Leave(b) PROVE call'[c] = call[c]
  BY <1>2, <1>4 DEF Leave, PlayerType, InStage
<1>5. ASSUME NEW b \in Calls, NEW d \in Devices, NEW content \in Contents,
             PlayMedia(b, d, content) \/ Announce(b, d, content)
      PROVE  call'[c] = call[c]
  BY <1>2, <1>5 DEF PlayMedia, Announce, Enter, PlayerType, InStage
<1>6. ASSUME NEW b \in Calls, NEW session \in Sessions \cup {None}, SendRequest(b, session),
             call'[c] # call[c]
      PROVE  call'[c].id \in 1 .. begun'[call'[c].device]
  <2>1. b = c
    BY <1>6 DEF SendRequest, PlayerType
  <2>2. InStage(c, "resolving") /\ call[c] \in ServiceCall /\ call[c].device \in Devices
    BY <1>6, <2>1, CallInStage DEF SendRequest
  <2>3. call'[c] = [call[c] EXCEPT !.stage = "playing", !.id = begun'[call[c].device]]
    BY <1>6, <2>1, <2>2 DEF SendRequest, PlayerType
  <2>4. begun'[call[c].device] = begun[call[c].device] + 1
    BY <1>6, <2>1, <2>2 DEF SendRequest, BeginRequest, OtherTimers, Supersede, TypeOK
  <2>5. call'[c].id = begun'[call[c].device] /\ call'[c].device = call[c].device
    BY <2>2, <2>3 DEF ServiceCall
  <2>6. QED  BY <1>1, <2>2, <2>4, <2>5
<1>7. ASSUME NEW b \in Calls, AbandonPlay(b) \/ QuickPlayEnds(b) PROVE call'[c] = call[c]
  BY <1>4, <1>7 DEF AbandonPlay, QuickPlayEnds, QuickPlayReturns, QuickPlayUnsupported,
     QuickPlayRaises, Watchdog, WatchdogDue
<1>8. CASE ServiceStep
  BY <1>3, <1>5, <1>6, <1>7, <1>8 DEF ServiceStep, RejectAnnounce, playerVars
<1>9. CASE UNCHANGED playerVars
  BY <1>3, <1>9 DEF playerVars
<1>10. QED
  BY <1>3, <1>7, <1>8, <1>9
     DEF MediaPlayerNext, Stimulus, Answers, DeviceReport, RequestTimer, StopLedger,
         mediaPlayerVars

\* What one end of a call tells: its own request, which was begun; and an error of
\* the tracking leaves nothing pending.
LEMMA ToldByEnd ==
  ASSUME PlayerType, TypeOK, CallsHaveBegun, NEW c \in Calls, CallEnds(c)
  PROVE  \A t \in told' \ told :
            /\ t \in CallerError /\ t.id \in 1 .. begun[t.device]
            /\ t.error # "app_not_supported" => Settled(t.device)'
<1>1. InStage(c, "playing")
  BY DEF CallEnds, QuickPlayReturns, QuickPlayUnsupported, QuickPlayRaises, Watchdog, WatchdogDue
<1>2. /\ call[c].device \in Devices /\ call[c].id \in Nat
      /\ call[c].id \in 1 .. begun[call[c].device]
  BY <1>1, CallInStage DEF CallsHaveBegun
<1>3. ASSUME NEW v, Resolve(call[c].device, v) PROVE pending'[call[c].device] = None
  BY <1>2, <1>3 DEF Resolve, TypeOK
<1>4. CASE UNCHANGED told
  BY <1>4
<1>5. CASE Tell(c, "app_not_supported")
  BY <1>2, <1>5 DEF Tell, CallerError
<1>6. CASE Watchdog(c) /\ Tell(c, "request_watchdog")
  <2>1. pending'[call[c].device] = None
    BY <1>3, <1>6 DEF Watchdog, RequestFailed
  <2>2. QED  BY <1>2, <1>6, <2>1 DEF Tell, CallerError, Settled
<1>7. CASE /\ \E err \in Errors \ {"TimeoutError"}, answered \in BOOLEAN :
                QuickPlayRaises(c, err, answered)
           /\ Tell(c, "raised")
  <2>1. pending'[call[c].device] = None
    BY <1>3, <1>7 DEF QuickPlayRaises, RequestFailed
  <2>2. QED  BY <1>2, <1>7, <2>1 DEF Tell, CallerError, Settled
<1>8. QED  BY <1>4, <1>5, <1>6, <1>7 DEF CallEnds

LEMMA ToldStep ==
  ASSUME PlayerType, TypeOK, Settling, CallerInv, [CallerNext]_callerVars
  PROVE  CallerInv'
<1>1. [MediaPlayerNext]_mediaPlayerVars /\ [Next]_ledgerVars
  BY CallerIsPlayer, PlayerStep
<1>2. CallsHaveBegun'
  BY <1>1, BegunStep DEF CallerInv
<1>3. \A t \in told' \ told :
         /\ t \in CallerError /\ t.id \in 1 .. begun[t.device]
         /\ t.error # "app_not_supported" => Settled(t.device)'
  BY ToldByEnd DEF CallerInv, CallerNext, CallerStimulus, CallerAnswers, callerVars
<1>4. ASSUME NEW t \in told'
      PROVE  /\ t \in CallerError /\ t.id \in 1 .. begun'[t.device]
             /\ t.error # "app_not_supported" => ~Waits(t)'
  <2>1. t \in CallerError /\ t.id \in 1 .. begun[t.device] /\ t.device \in Devices
    BY <1>3, <1>4 DEF CallerInv, ToldBehind, CallerError
  <2>2. /\ begun[t.device] \in Nat /\ begun'[t.device] \in Nat
        /\ begun[t.device] <= begun'[t.device]
        /\ WaitingId(t.device)' \in {WaitingId(t.device), 0} \/ WaitingId(t.device)' > begun[t.device]
    BY <1>1, <2>1, RequestsGoForward
  <2>3. ASSUME t.error # "app_not_supported" PROVE ~Waits(t)'
    <3>1. CASE t \in told
      <4>1. WaitingId(t.device) # t.id
        BY <2>3, <3>1 DEF CallerInv, ToldBehind, Waits
      <4>2. WaitingId(t.device)' # t.id
        BY <2>1, <2>2, <4>1
      <4>3. QED  BY <4>2 DEF Waits
    <3>2. CASE t \notin told
      <4>1. Settled(t.device)'
        BY <1>3, <1>4, <2>3, <3>2
      <4>2. QED  BY <2>1, <2>2, <4>1 DEF Waits, WaitingId
    <3>3. QED  BY <3>1, <3>2
  <2>4. QED  BY <2>1, <2>2, <2>3
<1>5. QED  BY <1>2, <1>4 DEF CallerInv, ToldBehind

LEMMA CallersUseLedger == CallerSpec => MediaPlayerSpec /\ Spec
<1>1. CallerInit => MediaPlayerInit
  BY DEF CallerInit
<1>2. [CallerNext]_callerVars => [MediaPlayerNext]_mediaPlayerVars
  BY CallerIsPlayer
<1>3. CallerSpec => MediaPlayerSpec
  BY <1>1, <1>2, PTL DEF CallerSpec, MediaPlayerSpec
<1>4. QED  BY <1>3, EntityUsesLedger DEF UsesLedger

LEMMA CallerHolds == CallerSpec => []CallerInv
<1>1. CallerInit => CallerInv
  BY DEF CallerInit, MediaPlayerInit, CallerInv, CallsHaveBegun, ToldBehind, InStage
<1>2. PlayerType /\ TypeOK /\ Settling /\ CallerInv /\ [CallerNext]_callerVars => CallerInv'
  BY ToldStep
<1>3. QED  BY <1>1, <1>2, CallersUseLedger, PlayerHolds, SettlingHolds, PTL DEF CallerSpec

\* Whoever is told of an error finds a verdict on the request, for any number of
\* concurrent calls, unless nobody knew the app: then the request may still wait.
THEOREM ErrorsHaveVerdicts == CallerSpec => []ToldErrorsHaveVerdicts
<1>1. TypeOK /\ Settling /\ CallerInv => ToldErrorsHaveVerdicts
  <2> SUFFICES ASSUME TypeOK, Settling, CallerInv, NEW t \in told
               PROVE  \/ VerdictsIn(records[t.device], t.id) # {}
                      \/ t.error = "app_not_supported" /\ Waits(t)
    BY DEF ToldErrorsHaveVerdicts
  <2>1. t.device \in Devices /\ t.id \in 1 .. begun[t.device]
    BY DEF CallerInv, ToldBehind, CallerError
  <2>2. CASE Waits(t)
    BY <2>2 DEF CallerInv, ToldBehind
  <2>3. CASE ~Waits(t)
    <3>1. ~(~Settled(t.device) /\ t.id = begun[t.device])
      BY <2>1, <2>3 DEF Settling, Waits, WaitingId
    <3>2. QED  BY <2>1, <3>1 DEF Settling
  <2>4. QED  BY <2>2, <2>3
<1>2. QED
  BY <1>1, CallerHolds, CallersUseLedger, PlayerHolds, SettlingHolds, PTL

-----------------------------------------------------------------------------
(* The coordinator. *)

ProbeType ==
    /\ circuit \in [Devices -> Nat \cup {None}]
    /\ probe \in [Devices -> ProbeTask]
    /\ scheduled \in BOOLEAN

\* A step of someone other than the coordinator's own probes.
Foreigners ==
    \/ OthersStart
    \/ \E c \in Calls : QuickPlayDone(c)
    \/ \E d \in Devices : TimerDone(d)

Decision(d) == RecordUnreachable(d) \/ RecordBusy(d)

\* The kinds of step the proofs distinguish.
LEMMA CoordinatorKinds ==
  ASSUME [CoordinatorNext]_coordinatorVars
  PROVE  \/ Foreigners
         \/ \E d \in Devices : Decision(d)
         \/ \E d \in Devices, app_idle \in BOOLEAN, session \in Sessions \cup {None} :
               StartProbe(d, app_idle, session)
         \/ \E d \in Devices, err \in Errors : ProbeFailed(d, err)
         \/ \E d \in Devices : ProbePlayed(d) \/ ProbeSettled(d) \/ ProbeGivesUp(d) \/ AppQuit(d)
         \/ StopProbes \/ UnloadLedger \/ Tick
         \/ UNCHANGED coordinatorVars
BY DEF CoordinatorNext, Starts, Ends, Foreigners, RefreshStep, Decision, ProbeStep, ProbeReturns

-----------------------------------------------------------------------------
(* The ledger under the coordinator. *)

LEMMA ForeignersAreLedgerSteps ==
  ASSUME PlayerType, TypeOK, Foreigners
  PROVE  /\ PlayerType' /\ [Next]_ledgerVars
         /\ OnRecord /\ UNCHANGED <<probe, scheduled>>
<1>1. CASE ServiceStep /\ OnRecord /\ UNCHANGED <<probe, scheduled>>
  BY <1>1, CallsType, ServiceIsLedgerStep
<1>2. CASE (\E d \in Devices : DeviceReport(d)) /\ OnRecord /\ UNCHANGED <<probe, scheduled>>
  BY <1>2, CallsType, ReportIsLedgerStep DEF DeviceReport
<1>3. CASE \E c \in Calls : QuickPlayDone(c)
  BY <1>3, CallsType, EndIsLedgerStep DEF QuickPlayDone
<1>4. CASE \E d \in Devices : TimerDone(d)
  BY <1>4, CallsType DEF TimerDone, RequestTimer, Next, DeviceStep
<1>5. QED  BY <1>1, <1>2, <1>3, <1>4 DEF Foreigners, OthersStart

LEMMA DecisionIsDeviceStep ==
  ASSUME NEW d \in Devices, Decision(d)
  PROVE  DeviceStep(d)
<1>1. ASSUME NEW r \in Recordings, RecordOutcome(d, r[1], r[2]) PROVE DeviceStep(d)
  BY <1>1 DEF DeviceStep
<1>2. CASE RecordUnreachable(d)
  <2> DEFINE r == <<"unreachable", "probe">>
  <2>1. r \in Recordings /\ r[1] = "unreachable" /\ r[2] = "probe"
    BY DEF Recordings
  <2>2. RecordOutcome(d, r[1], r[2])
    BY <1>2, <2>1 DEF RecordUnreachable
  <2>3. QED  BY <1>1, <2>1, <2>2
<1>3. CASE RecordBusy(d)
  <2> DEFINE r == <<"skipped_busy", "probe">>
  <2>1. r \in Recordings /\ r[1] = "skipped_busy" /\ r[2] = "probe"
    BY DEF Recordings
  <2>2. RecordOutcome(d, r[1], r[2])
    BY <1>3, <2>1 DEF RecordBusy
  <2>3. QED  BY <1>1, <2>1, <2>2
<1>4. QED  BY <1>2, <1>3 DEF Decision

LEMMA StartIsDeviceStep ==
  ASSUME NEW d \in Devices, NEW app_idle \in BOOLEAN, NEW session \in Sessions \cup {None},
         StartProbe(d, app_idle, session)
  PROVE  DeviceStep(d)
<1>1. BeginRequest(d, ProbeClip, "probe", session) /\ "probe" \in RequestSources
  BY DEF StartProbe, NewTask, RequestSources
<1>2. QED  BY <1>1, ProbeAssumption DEF DeviceStep

LEMMA FailIsDeviceStep ==
  ASSUME NEW d \in Devices, NEW err \in Errors, ProbeFailed(d, err)
  PROVE  DeviceStep(d)
BY DEF ProbeFailed, ReportFailure, DeviceStep

\* Every step of the system is a step of the ledger or leaves it alone.
LEMMA CoordinatorUsesLedger ==
  ASSUME PlayerType, TypeOK, [CoordinatorNext]_coordinatorVars
  PROVE  PlayerType' /\ [Next]_ledgerVars
<1>1. CASE Foreigners
  BY <1>1, ForeignersAreLedgerSteps
<1>2. CASE \E d \in Devices : Decision(d)
  BY <1>2, DecisionIsDeviceStep, CallsType DEF Next, Decision, RecordUnreachable, RecordBusy
<1>3. CASE \E d \in Devices, app_idle \in BOOLEAN, session \in Sessions \cup {None} :
              StartProbe(d, app_idle, session)
  BY <1>3, StartIsDeviceStep, CallsType DEF Next, StartProbe, NewTask
<1>4. CASE \E d \in Devices, err \in Errors : ProbeFailed(d, err)
  BY <1>4, FailIsDeviceStep, CallsType DEF Next, ProbeFailed, ReportFailure
<1>5. CASE \/ \E d \in Devices :
                 ProbePlayed(d) \/ ProbeSettled(d) \/ ProbeGivesUp(d) \/ AppQuit(d)
           \/ StopProbes \/ Tick \/ UNCHANGED coordinatorVars
  BY <1>5, CallsType
     DEF ProbePlayed, ProbeSettled, ProbeGivesUp, DeadlinePassed, AppQuit, StopProbes, Tick,
         coordinatorVars, mediaPlayerVars
<1>6. CASE UnloadLedger
  BY <1>6, CallsType DEF UnloadLedger, StopLedger, Next
<1>7. QED  BY <1>1, <1>2, <1>3, <1>4, <1>5, <1>6, CoordinatorKinds

LEMMA CoordinatorPlayerHolds == CoordinatorSpec => [](PlayerType /\ TypeOK)
<1>1. CoordinatorInit => PlayerType /\ TypeOK
  BY PlayerStarts, InitType DEF CoordinatorInit
<1>2. PlayerType /\ TypeOK /\ [CoordinatorNext]_coordinatorVars => (PlayerType /\ TypeOK)'
  BY CoordinatorUsesLedger, NextType
<1>3. QED  BY <1>1, <1>2, PTL DEF CoordinatorSpec

\* Probes, playback, callbacks and timers together drive the ledger through its
\* handlers only: what is proved of the ledger holds of the whole.
THEOREM SystemUsesLedger == CoordinatorSpec => UsesLedger
<1>1. CoordinatorInit => Init
  BY PlayerStarts DEF CoordinatorInit
<1>2. PlayerType /\ TypeOK /\ [CoordinatorNext]_coordinatorVars => [Next]_ledgerVars
  BY CoordinatorUsesLedger
<1>3. QED  BY <1>1, <1>2, CoordinatorPlayerHolds, PTL DEF CoordinatorSpec, Spec, UsesLedger

\* In the whole system, too, each request gets one verdict.
THEOREM SystemOneVerdict == CoordinatorSpec => []OneVerdictPerRequest
BY SystemUsesLedger, EachRequestOneVerdict DEF UsesLedger

-----------------------------------------------------------------------------
(* The probe task and the request it awaits. *)

\* Every handler but async_begin_request leaves a pending request or ends it.
LEMMA HandlersKeepPending ==
  ASSUME TypeOK, NEW e \in Devices, NEW d \in Devices,
         \/ Expire(e)
         \/ \E s \in MediaStatus : HandleMediaStatus(e, s)
         \/ LoadMediaFailed(e)
         \/ \E err, answered : RequestFailed(e, err, answered)
         \/ \E outcome, source : RecordOutcome(e, outcome, source)
  PROVE  pending'[d] \in {None, pending[d]}
<1>1. ASSUME NEW v, Resolve(e, v) PROVE pending'[d] \in {None, pending[d]}
  BY <1>1 DEF Resolve, OtherTimers, TypeOK
<1>2. CASE Expire(e)
  BY <1>2, <1>1 DEF Expire
<1>3. CASE \E s \in MediaStatus : HandleMediaStatus(e, s)
  BY <1>3, <1>1 DEF HandleMediaStatus, ObserveForeignError, FailOnError, Confirm,
                    IgnoreStatus, ledgerVars
<1>4. CASE LoadMediaFailed(e)
  BY <1>4, <1>1 DEF LoadMediaFailed, ledgerVars
<1>5. CASE \E err, answered : RequestFailed(e, err, answered)
  BY <1>5, <1>1 DEF RequestFailed
<1>6. CASE \E outcome, source : RecordOutcome(e, outcome, source)
  BY <1>6, <1>1 DEF RecordOutcome
<1>7. QED  BY <1>2, <1>3, <1>4, <1>5, <1>6

\* Nobody but the coordinator begins a probe request.
LEMMA ForeignersBeginNoProbe ==
  ASSUME PlayerType, TypeOK, Foreigners, NEW d \in Devices, ProbePending(d)'
  PROVE  pending'[d] = pending[d]
<1> SUFFICES pending'[d] \in {None, pending[d]}
  BY DEF ProbePending, Settled
<1>1. CASE ServiceStep
  <2>1. ASSUME NEW c \in Calls, NEW e \in Devices, NEW content \in Contents,
               PlayMedia(c, e, content) \/ Announce(c, e, content)
        PROVE  pending' = pending
    BY <2>1 DEF PlayMedia, Announce, ledgerVars
  <2>2. ASSUME NEW e \in Devices, RejectAnnounce(e) PROVE pending'[d] \in {None, pending[d]}
    BY <2>2, HandlersKeepPending DEF RejectAnnounce
  <2>3. ASSUME NEW c \in Calls, AbandonPlay(c) PROVE pending' = pending
    BY <2>3 DEF AbandonPlay, ledgerVars
  <2>4. ASSUME NEW c \in Calls, NEW session \in Sessions \cup {None}, SendRequest(c, session)
        PROVE  pending'[d] = pending[d]
    <3>1. /\ call[c].device \in Devices
          /\ request_source[call[c].device] # "probe"
      BY <2>4, CallInStage DEF SendRequest
    <3>2. CASE d = call[c].device
      <4>1. pending'[d].source = request_source[d]
        BY <2>4, <3>2 DEF SendRequest, BeginRequest, OtherTimers, Supersede, TypeOK
      <4>2. QED  BY <3>1, <3>2, <4>1 DEF ProbePending
    <3>3. CASE d # call[c].device
      BY <2>4, <3>3 DEF SendRequest, BeginRequest, OtherTimers, Supersede, TypeOK
    <3>4. QED  BY <3>2, <3>3
  <2>5. QED  BY <1>1, <2>1, <2>2, <2>3, <2>4 DEF ServiceStep
<1>2. CASE \E e \in Devices : DeviceReport(e)
  BY <1>2, HandlersKeepPending DEF DeviceReport
<1>3. CASE \E c \in Calls : QuickPlayDone(c)
  <2>1. PICK c \in Calls : QuickPlayEnds(c)
    BY <1>3 DEF QuickPlayDone
  <2>2. CASE QuickPlayReturns(c) \/ QuickPlayUnsupported(c)
    BY <2>2 DEF QuickPlayReturns, QuickPlayUnsupported, ledgerVars
  <2>3. CASE \E err, answered : RequestFailed(call[c].device, err, answered)
    <3>1. call[c].device \in Devices
      BY <2>1, CallInStage DEF QuickPlayEnds, QuickPlayReturns, QuickPlayUnsupported, QuickPlayRaises, Watchdog,
     WatchdogDue
    <3>2. QED  BY <2>3, <3>1, HandlersKeepPending
  <2>4. QED  BY <2>1, <2>2, <2>3 DEF QuickPlayEnds, QuickPlayRaises, Watchdog, WatchdogDue
<1>4. CASE \E e \in Devices : TimerDone(e)
  BY <1>4, HandlersKeepPending DEF TimerDone, RequestTimer
<1>5. QED  BY <1>1, <1>2, <1>3, <1>4 DEF Foreigners, OthersStart

LEMMA ForeignersStayOpen ==
  ASSUME PlayerType, TypeOK, Foreigners
  PROVE  closed' = closed
<1>1. ASSUME NEW v, NEW d \in Devices, Resolve(d, v) PROVE closed' = closed
  BY <1>1 DEF Resolve, OtherTimers
<1>2. CASE ServiceStep
  BY <1>1, <1>2
     DEF ServiceStep, PlayMedia, Announce, RejectAnnounce, RecordOutcome, AbandonPlay,
         SendRequest, BeginRequest, OtherTimers, Supersede, ledgerVars
<1>3. CASE \E d \in Devices : DeviceReport(d)
  BY <1>3, ClosedOnlyByShutdown DEF DeviceReport, DeviceStep
<1>4. CASE \E c \in Calls : QuickPlayDone(c)
  BY <1>4 DEF QuickPlayDone, QuickPlayEnds, QuickPlayReturns, QuickPlayUnsupported, QuickPlayRaises, Watchdog,
     WatchdogDue,
              RequestFailed, Resolve, OtherTimers, ledgerVars
<1>5. CASE \E d \in Devices : TimerDone(d)
  BY <1>5, ClosedOnlyByShutdown DEF TimerDone, RequestTimer, DeviceStep
<1>6. QED  BY <1>2, <1>3, <1>4, <1>5 DEF Foreigners, OthersStart

\* What the coordinator's safety rests on: the task's type, the order of the
\* unload, and the request its task awaits.
ProbeInv ==
    /\ probe \in [Devices -> ProbeTask]
    /\ scheduled => ~closed
    /\ ProbePendingIsAwaited

Awaited(d) ==
    ProbePending(d) /\ ~closed =>
       probe[d].phase \in {"playing", "waiting"} /\ probe[d].id = pending[d].id

LEMMA ProbeStepKeepsInv ==
  ASSUME TypeOK, TimerDiscipline, ProbeInv, NEW d \in Devices,
         ProbePlayed(d) \/ ProbeSettled(d) \/ ProbeGivesUp(d) \/ AppQuit(d)
  PROVE  ProbeInv'
<1>0. /\ UNCHANGED ledgerVars /\ scheduled' = scheduled
      /\ \E phase \in {"off", "waiting", "quitting"} : Move(d, phase)
  BY DEF ProbePlayed, ProbeSettled, ProbeGivesUp, DeadlinePassed, AppQuit, mediaPlayerVars
<1>1. PICK phase \in {"off", "waiting", "quitting"} : Move(d, phase)
  BY <1>0
<1>2. /\ probe' \in [Devices -> ProbeTask]
      /\ probe'[d].phase = phase /\ probe'[d].id = probe[d].id
      /\ \A e \in Devices \ {d} : probe'[e] = probe[e]
  BY <1>1 DEF Move, ProbeInv, ProbeTask
<1>3. \A e \in Devices : Awaited(e)
  BY DEF ProbeInv, ProbePendingIsAwaited, Awaited
<1>4. \A e \in Devices \ {d} : Awaited(e)'
  BY <1>0, <1>2, <1>3 DEF Awaited, ProbePending, Settled, ledgerVars
<1>5. Awaited(d)'
  <2>1. CASE ProbePlayed(d)
    BY <1>0, <1>2, <1>3, <2>1
       DEF ProbePlayed, Move, ProbeInv, ProbeTask, Awaited, ProbePending, Settled, ledgerVars
  <2>2. CASE ProbeSettled(d)
    BY <1>0, <2>2 DEF ProbeSettled, Awaited, ProbePending, Settled, ledgerVars
  <2>3. CASE ProbeGivesUp(d)
    BY <1>0, <2>3 DEF ProbeGivesUp, DeadlinePassed, TimerDiscipline, Awaited, ProbePending, Settled, ledgerVars
  <2>4. CASE AppQuit(d)
    BY <1>0, <1>3, <2>4 DEF AppQuit, Awaited, ProbePending, Settled, ledgerVars
  <2>5. QED  BY <2>1, <2>2, <2>3, <2>4
<1>6. QED
  BY <1>0, <1>2, <1>4, <1>5 DEF ProbeInv, ProbePendingIsAwaited, Awaited, ledgerVars

LEMMA ProbeInvStep ==
  ASSUME PlayerType, TypeOK, TimerDiscipline, ProbeInv, [CoordinatorNext]_coordinatorVars
  PROVE  ProbeInv'
<1>0. \A e \in Devices : Awaited(e)
  BY DEF ProbeInv, ProbePendingIsAwaited, Awaited
<1>1. ASSUME UNCHANGED <<probe, scheduled>>, closed' = closed,
             \A d \in Devices : ProbePending(d)' => pending'[d] = pending[d]
      PROVE  ProbeInv'
  <2>1. ASSUME NEW d \in Devices PROVE Awaited(d)'
    BY <1>0, <1>1 DEF Awaited, ProbePending, Settled
  <2>2. QED  BY <1>1, <2>1 DEF ProbeInv, ProbePendingIsAwaited, Awaited
<1>2. CASE Foreigners
  <2>1. closed' = closed
    BY <1>2, ForeignersStayOpen
  <2>2. QED  BY <1>1, <1>2, <2>1, ForeignersAreLedgerSteps, ForeignersBeginNoProbe
<1>3. CASE \E d \in Devices : Decision(d)
  <2>1. PICK d \in Devices : Decision(d)
    BY <1>3
  <2>2. \A e \in Devices : pending'[e] \in {None, pending[e]}
    BY <2>1, HandlersKeepPending DEF Decision, RecordUnreachable, RecordBusy
  <2>3. closed' = closed
    BY <2>1, DecisionIsDeviceStep, ClosedOnlyByShutdown
  <2>4. QED
    BY <1>1, <2>1, <2>2, <2>3
       DEF Decision, RecordUnreachable, RecordBusy, ProbePending, Settled
<1>4. CASE \E d \in Devices, app_idle \in BOOLEAN, session \in Sessions \cup {None} :
              StartProbe(d, app_idle, session)
  <2>1. PICK d \in Devices, app_idle \in BOOLEAN, session \in Sessions \cup {None} :
           StartProbe(d, app_idle, session)
    BY <1>4
  <2>2. /\ pending'[d].id = begun[d] + 1 /\ begun'[d] = begun[d] + 1 /\ begun[d] \in Nat
        /\ \A e \in Devices \ {d} : pending'[e] = pending[e]
        /\ closed' = closed
    BY <2>1 DEF StartProbe, NewTask, BeginRequest, OtherTimers, Supersede, TypeOK
  <2>3. [phase |-> "playing", id |-> begun'[d], app_idle |-> app_idle] \in ProbeTask
    BY <2>2 DEF ProbeTask
  <2>4. probe' = [probe EXCEPT ![d] =
                    [phase |-> "playing", id |-> begun'[d], app_idle |-> app_idle]]
    BY <2>1 DEF StartProbe, NewTask
  <2>5. /\ probe' \in [Devices -> ProbeTask]
        /\ probe'[d].phase = "playing" /\ probe'[d].id = begun'[d]
        /\ \A e \in Devices \ {d} : probe'[e] = probe[e]
    BY <2>3, <2>4 DEF ProbeInv
  <2>6. ASSUME NEW e \in Devices PROVE Awaited(e)'
    <3>1. CASE e = d
      BY <2>2, <2>5, <3>1 DEF Awaited
    <3>2. CASE e # d
      BY <1>0, <2>2, <2>5, <3>2 DEF Awaited, ProbePending, Settled
    <3>3. QED  BY <3>1, <3>2
  <2>7. scheduled' = scheduled
    BY <2>1 DEF StartProbe, NewTask
  <2>8. QED  BY <2>2, <2>5, <2>6, <2>7 DEF ProbeInv, ProbePendingIsAwaited, Awaited
<1>5. CASE \E d \in Devices, err \in Errors : ProbeFailed(d, err)
  <2>1. PICK d \in Devices, err \in Errors : ProbeFailed(d, err)
    BY <1>5
  <2>2. /\ pending'[d] = None
        /\ \A e \in Devices \ {d} : pending'[e] = pending[e]
        /\ closed' = closed
    BY <2>1 DEF ProbeFailed, ReportFailure, RequestFailed, Resolve, OtherTimers, TypeOK
  <2>3. /\ probe' \in [Devices -> ProbeTask]
        /\ \A e \in Devices \ {d} : probe'[e] = probe[e]
    BY <2>1 DEF ProbeFailed, ReportFailure, Move, ProbeInv, ProbeTask
  <2>4. ASSUME NEW e \in Devices PROVE Awaited(e)'
    <3>1. CASE e = d
      BY <2>2, <3>1 DEF Awaited, ProbePending, Settled
    <3>2. CASE e # d
      BY <1>0, <2>2, <2>3, <3>2 DEF Awaited, ProbePending, Settled
    <3>3. QED  BY <3>1, <3>2
  <2>5. scheduled' = scheduled
    BY <2>1 DEF ProbeFailed, ReportFailure
  <2>6. QED  BY <2>2, <2>3, <2>4, <2>5 DEF ProbeInv, ProbePendingIsAwaited, Awaited
<1>6. CASE \E d \in Devices :
              ProbePlayed(d) \/ ProbeSettled(d) \/ ProbeGivesUp(d) \/ AppQuit(d)
  BY <1>6, ProbeStepKeepsInv
<1>7. CASE StopProbes
  BY <1>7 DEF StopProbes, mediaPlayerVars, ledgerVars, ProbeInv, ProbePendingIsAwaited,
              ProbePending, Settled
<1>8. CASE UnloadLedger
  BY <1>8 DEF UnloadLedger, StopLedger, Shutdown, OtherTimers, probeVars, ProbeInv, ProbePendingIsAwaited
<1>9. CASE Tick \/ UNCHANGED coordinatorVars
  BY <1>9, <1>1 DEF Tick, coordinatorVars, probeVars, mediaPlayerVars, ledgerVars
<1>10. QED
  BY <1>2, <1>3, <1>4, <1>5, <1>6, <1>7, <1>8, <1>9, CoordinatorKinds

LEMMA ProbeInvHolds == CoordinatorSpec => []ProbeInv
<1>1. CoordinatorInit => ProbeInv
  BY DEF CoordinatorInit, MediaPlayerInit, Init, ProbeInv, ProbeTask, ProbePendingIsAwaited,
         ProbePending, Settled
<1>2. PlayerType /\ TypeOK /\ TimerDiscipline /\ ProbeInv /\ [CoordinatorNext]_coordinatorVars
         => ProbeInv'
  BY ProbeInvStep
<1>3. CoordinatorSpec => []TimerDiscipline
  BY SystemUsesLedger, TimersBelongToPending DEF UsesLedger
<1>4. QED  BY <1>1, <1>2, <1>3, CoordinatorPlayerHolds, PTL DEF CoordinatorSpec

\* The task of a probe outlives its request: while the ledger is up no refresh
\* can find a probe pending that nobody awaits.
THEOREM ProbesAreAwaited == CoordinatorSpec => []ProbePendingIsAwaited
<1>1. ProbeInv => ProbePendingIsAwaited
  BY DEF ProbeInv
<1>2. QED  BY <1>1, ProbeInvHolds, PTL

-----------------------------------------------------------------------------
(* The circuit. *)

\* The breaker ignores what is not a probe's success or timeout.
LEMMA NoReaction ==
  ASSUME OnRecord, NEW d \in Devices, records[d] \in Seq(DeliveryRecord),
         NEW r \in DeliveryRecord, records'[d] = Append(records[d], r),
         r.source = "probe" => r.outcome \notin {"ok", "timeout"}
  PROVE  circuit'[d] = circuit[d]
<1>1. records'[d][Len(records'[d])] = r
  BY AppendIndices
<1>2. Reaction(d) = circuit[d]
  BY <1>1 DEF Reaction, TimeoutsNow
<1>3. QED  BY <1>2 DEF OnRecord

\* A circuit moves with a record only when the record ends the pending request.
LEMMA QuietUnlessSettled ==
  ASSUME TypeOK, Settling, [Next]_ledgerVars, OnRecord, NEW d \in Devices, ~Settled(d)'
  PROVE  circuit'[d] = circuit[d]
<1>1. ASSUME records'[d] = records[d] PROVE circuit'[d] = circuit[d]
  <2>1. ~(Len(records'[d]) > Len(records[d]))
    BY <1>1 DEF TypeOK
  <2>2. QED  BY <2>1 DEF OnRecord
<1>2. CASE Shutdown \/ UNCHANGED ledgerVars
  BY <1>1, <1>2 DEF Shutdown, OtherTimers, ledgerVars
<1>3. ASSUME NEW e \in Devices \ {d}, DeviceStep(e) PROVE circuit'[d] = circuit[d]
  BY <1>1, <1>3, OtherDevices
<1>4. CASE DeviceStep(d)
  <2>1. RequestStep(d)
    BY <1>4, RequestSteps DEF Settling
  <2>2. CASE records'[d] = records[d]
    BY <1>1, <2>2
  <2>3. CASE \E r \in DeliveryRecord : Adds(d, begun[d], r) /\ r.outcome = "unknown"
    BY <2>3, NoReaction DEF Adds, TypeOK
  <2>4. CASE \E r \in DeliveryRecord : Adds(d, 0, r) /\ Aside(r.source, r.outcome)
    BY <2>4, NoReaction DEF Adds, Aside, TypeOK
  <2>5. QED  BY <2>1, <2>2, <2>3, <2>4 DEF RequestStep
<1>5. QED  BY <1>2, <1>3, <1>4 DEF Next

LEMMA SilenceStep ==
  ASSUME PlayerType, TypeOK, Settling, OpenCircuitIsSilent, [CoordinatorNext]_coordinatorVars
  PROVE  OpenCircuitIsSilent'
<1>1. SUFFICES ASSUME NEW d \in Devices, ProbePending(d)', circuit'[d] \notin {None, 0}
               PROVE  FALSE
  BY DEF OpenCircuitIsSilent
<1>2. ~Settled(d)' /\ (ProbePending(d) => circuit[d] \in {None, 0})
  BY <1>1 DEF ProbePending, OpenCircuitIsSilent
<1>3. ASSUME OnRecord, pending'[d] \in {None, pending[d]} PROVE FALSE
  <2>1. circuit'[d] = circuit[d]
    BY <1>2, <1>3, QuietUnlessSettled, CoordinatorUsesLedger
  <2>2. ProbePending(d)
    BY <1>1, <1>3 DEF ProbePending, Settled
  <2>3. QED  BY <1>1, <1>2, <2>1, <2>2
<1>4. CASE Foreigners
  BY <1>1, <1>3, <1>4, ForeignersAreLedgerSteps, ForeignersBeginNoProbe
<1>5. CASE \E e \in Devices : Decision(e)
  BY <1>3, <1>5, HandlersKeepPending DEF Decision, RecordUnreachable, RecordBusy
<1>6. CASE \E e \in Devices, app_idle \in BOOLEAN, session \in Sessions \cup {None} :
              StartProbe(e, app_idle, session)
  <2>1. PICK e \in Devices, app_idle \in BOOLEAN, session \in Sessions \cup {None} :
           StartProbe(e, app_idle, session)
    BY <1>6
  <2>2. CASE e = d
    <3>1. circuit'[d] = circuit[d]
      BY <1>2, <2>1, QuietUnlessSettled, CoordinatorUsesLedger DEF StartProbe, NewTask
    <3>2. QED  BY <1>1, <2>1, <2>2, <3>1 DEF StartProbe, NewTask, CircuitAllows
  <2>3. CASE e # d
    BY <1>3, <2>1, <2>3 DEF StartProbe, NewTask, BeginRequest, OtherTimers, Supersede, TypeOK
  <2>4. QED  BY <2>2, <2>3
<1>7. CASE \E e \in Devices, err \in Errors : ProbeFailed(e, err)
  BY <1>3, <1>7, HandlersKeepPending DEF ProbeFailed, ReportFailure
<1>8. CASE \/ \E e \in Devices : ProbePlayed(e) \/ ProbeSettled(e) \/ ProbeGivesUp(e) \/ AppQuit(e)
           \/ StopProbes \/ UnloadLedger \/ UNCHANGED coordinatorVars
  <2>1. circuit' = circuit /\ pending' = pending
    BY <1>8
       DEF ProbePlayed, ProbeSettled, ProbeGivesUp, DeadlinePassed, AppQuit, StopProbes, UnloadLedger,
           StopLedger, Shutdown, OtherTimers, coordinatorVars, probeVars, mediaPlayerVars, ledgerVars
  <2>2. QED  BY <1>1, <1>2, <2>1 DEF ProbePending, Settled
<1>9. CASE Tick
  <2>1. circuit[d] \notin {None, 0} /\ pending' = pending
    BY <1>1, <1>9 DEF Tick, mediaPlayerVars, ledgerVars
  <2>2. QED  BY <1>1, <1>2, <2>1 DEF ProbePending, Settled
<1>10. QED
  BY <1>4, <1>5, <1>6, <1>7, <1>8, <1>9, CoordinatorKinds

\* An open circuit means silence: no probe is under way when a circuit opens,
\* whoever's timeout opened it, and none is begun before it is half-open.
THEOREM OpenCircuitsAreSilent == CoordinatorSpec => []OpenCircuitIsSilent
<1>1. CoordinatorInit => OpenCircuitIsSilent
  BY DEF CoordinatorInit, OpenCircuitIsSilent
<1>2. PlayerType /\ TypeOK /\ Settling /\ OpenCircuitIsSilent /\ [CoordinatorNext]_coordinatorVars
         => OpenCircuitIsSilent'
  BY SilenceStep
<1>3. CoordinatorSpec => []Settling
  BY SystemUsesLedger, SettlingHolds DEF UsesLedger
<1>4. QED  BY <1>1, <1>2, <1>3, CoordinatorPlayerHolds, PTL DEF CoordinatorSpec

-----------------------------------------------------------------------------
(* Refreshes. *)

\* A log gains one entry, at its end.
LEMMA NewIndex ==
  ASSUME NEW log \in Seq(DeliveryRecord), NEW r \in DeliveryRecord, NEW longer,
         longer = Append(log, r), NEW k \in DOMAIN longer \ DOMAIN log
  PROVE  longer[k] = r
<1>1. DOMAIN log = 1 .. Len(log) /\ DOMAIN longer = 1 .. Len(log) + 1
  OBVIOUS
<1>2. k = Len(log) + 1
  BY <1>1
<1>3. QED  BY <1>2

\* While a refresh may decide about a device, no probe of it is pending: what it
\* records is of no request, and the request its probe supersedes is no probe.
LEMMA RefreshSettlesNoProbe ==
  ASSUME TypeOK, ProbeInv, NEW d \in Devices, RefreshStep(d),
         NEW k \in DOMAIN records'[d] \ DOMAIN records[d], records'[d][k].req # 0
  PROVE  records'[d][k].source # "probe"
<1>1. ~ProbePending(d)
  <2>1. scheduled /\ ~Running(d)
    BY DEF RefreshStep, RecordUnreachable, RecordBusy, StartProbe, MayProbe
  <2>2. QED  BY <2>1 DEF ProbeInv, ProbePendingIsAwaited, Running
<1>2. records[d] \in Seq(DeliveryRecord)
  BY DEF TypeOK
<1>3. ASSUME NEW outcome \in {"unreachable", "skipped_busy"}, RecordOutcome(d, outcome, "probe")
      PROVE  FALSE
  <2> DEFINE r == [req |-> 0, source |-> "probe", outcome |-> outcome, responded |-> FALSE]
  <2>1. LogRecord(d, 0, "probe", Verdict(outcome, FALSE))
    BY <1>1, <1>3 DEF RecordOutcome, ProbePending
  <2>2. records'[d] = Append(records[d], r)
    BY <2>1 DEF LogRecord, Verdict, TypeOK
  <2>3. r \in DeliveryRecord
    BY <1>3 DEF DeliveryRecord, Sources, RequestSources, DeliveryOutcome, FAILURE_OUTCOMES
  <2>4. records'[d][k] = r
    BY <1>2, <2>2, <2>3, NewIndex
  <2>5. QED  BY <2>4
<1>4. ASSUME NEW app_idle \in BOOLEAN, NEW session \in Sessions \cup {None},
             StartProbe(d, app_idle, session)
      PROVE  records'[d][k].source # "probe"
  <2> DEFINE r == [req |-> pending[d].id, source |-> pending[d].source,
                   outcome |-> "unknown", responded |-> FALSE]
  <2>1. Supersede(d)
    BY <1>4 DEF StartProbe, BeginRequest
  <2>2. ~Settled(d) /\ LogVerdict(d, Verdict("unknown", FALSE))
    BY <2>1 DEF Supersede
  <2>3. records'[d] = Append(records[d], r)
    BY <2>2, LogVerdictAppends DEF Verdict
  <2>4. r \in DeliveryRecord
    BY <2>2, PendingType DEF DeliveryRecord, Sources, DeliveryOutcome
  <2>5. records'[d][k] = r
    BY <1>2, <2>3, <2>4, NewIndex
  <2>6. QED  BY <1>1, <2>2, <2>5 DEF ProbePending
<1>5. QED  BY <1>3, <1>4 DEF RefreshStep, RecordUnreachable, RecordBusy

\* No refresh gives a probe its verdict, neither by a decision that it records nor by
\* the probe that it starts: the task of a pending probe runs, and every refresh
\* passes its device over.
THEOREM RefreshesAreNoVerdicts == CoordinatorSpec => RefreshesSettleNoProbe
<1> DEFINE Passes ==
      \A d \in Devices : RefreshStep(d) =>
         \A k \in DOMAIN records'[d] \ DOMAIN records[d] :
            records'[d][k].req # 0 => records'[d][k].source # "probe"
<1>1. TypeOK /\ ProbeInv /\ [CoordinatorNext]_coordinatorVars => [Passes]_coordinatorVars
  BY RefreshSettlesNoProbe
<1>2. QED
  BY <1>1, ProbeInvHolds, CoordinatorPlayerHolds, PTL DEF CoordinatorSpec, RefreshesSettleNoProbe

-----------------------------------------------------------------------------
(* The breaker and the log. *)

\* A step of the ledger adds at most one record to the log of a device, and the
\* counters are those with the record in.
LEMMA LogGrows ==
  ASSUME TypeOK, [Next]_ledgerVars, NEW d \in Devices
  PROVE  \/ records'[d] = records[d] /\ health'[d] = health[d]
         \/ \E r \in DeliveryRecord : records'[d] = Append(records[d], r)
<1>1. CASE Shutdown \/ UNCHANGED ledgerVars
  BY <1>1, LogUntouched
<1>2. ASSUME NEW e \in Devices, DeviceStep(e)
      PROVE  \/ records'[d] = records[d] /\ health'[d] = health[d]
             \/ \E r \in DeliveryRecord : records'[d] = Append(records[d], r)
  BY <1>2, LogStep, OtherDevices
<1>3. QED  BY <1>1, <1>2 DEF Next

\* The waiting time of an open circuit is a number of ticks.
LEMMA BackoffType == \A n : Backoff(n) \in Nat \ {0}
BY ProbeAssumption DEF Backoff

\* What the breaker makes of a record.
LEMMA ReactionTo ==
  ASSUME OnRecord, NEW d \in Devices, records[d] \in Seq(DeliveryRecord),
         NEW r \in DeliveryRecord, records'[d] = Append(records[d], r)
  PROVE  circuit'[d] =
           IF ~scheduled \/ r.source # "probe" THEN circuit[d]
           ELSE IF r.outcome = "ok" THEN None
           ELSE IF r.outcome = "timeout" /\ TimeoutsNow(d) >= CIRCUIT_BREAKER_TIMEOUTS
           THEN Backoff(TimeoutsNow(d))
           ELSE circuit[d]
<1>1. records'[d][Len(records'[d])] = r /\ Len(records'[d]) > Len(records[d])
  BY AppendIndices
<1>2. CASE r.source # "probe"
  BY <1>1, <1>2 DEF OnRecord, Reaction
<1>3. CASE r.source = "probe" /\ r.outcome = "ok"
  BY <1>1, <1>3 DEF OnRecord, Reaction
<1>4. CASE r.source = "probe" /\ r.outcome = "timeout"
  BY <1>1, <1>4 DEF OnRecord, Reaction
<1>5. CASE r.source = "probe" /\ r.outcome \notin {"ok", "timeout"}
  BY <1>1, <1>5 DEF OnRecord, Reaction
<1>6. QED  BY <1>2, <1>3, <1>4, <1>5

\* A log that does not grow moves no circuit.
LEMMA NoRecord ==
  ASSUME OnRecord, NEW d \in Devices, records[d] \in Seq(DeliveryRecord),
         records'[d] = records[d]
  PROVE  circuit'[d] = circuit[d]
<1>1. ~(Len(records'[d]) > Len(records[d]))
  OBVIOUS
<1>2. QED  BY <1>1 DEF OnRecord

CircuitType == circuit \in [Devices -> Nat \cup {None}]

\* The kinds of step a circuit sees: what others record, the clock, and the rest.
LEMMA CircuitKinds ==
  ASSUME [CoordinatorNext]_coordinatorVars
  PROVE  \/ OnRecord /\ scheduled' = scheduled
         \/ Tick
         \/ UNCHANGED <<circuit, records, health>> /\ scheduled' \in {scheduled, FALSE}
<1>1. CASE Foreigners
  BY <1>1 DEF Foreigners, OthersStart, QuickPlayDone, TimerDone
<1>2. CASE \E d \in Devices : Decision(d)
  BY <1>2 DEF Decision, RecordUnreachable, RecordBusy
<1>3. CASE \E d \in Devices, app_idle \in BOOLEAN, session \in Sessions \cup {None} :
              StartProbe(d, app_idle, session)
  BY <1>3 DEF StartProbe
<1>4. CASE \E d \in Devices, err \in Errors : ProbeFailed(d, err)
  BY <1>4 DEF ProbeFailed
<1>5. CASE \/ \E d \in Devices :
                 ProbePlayed(d) \/ ProbeSettled(d) \/ ProbeGivesUp(d) \/ AppQuit(d)
           \/ StopProbes \/ UnloadLedger \/ UNCHANGED coordinatorVars
  BY <1>5
     DEF ProbePlayed, ProbeSettled, ProbeGivesUp, AppQuit, StopProbes, UnloadLedger, StopLedger,
         Shutdown, coordinatorVars, probeVars, mediaPlayerVars, ledgerVars
<1>6. QED  BY <1>1, <1>2, <1>3, <1>4, <1>5, CoordinatorKinds

LEMMA CircuitTypeStep ==
  ASSUME PlayerType, TypeOK, CircuitType, [CoordinatorNext]_coordinatorVars
  PROVE  CircuitType'
<1>0. \A d \in Devices : circuit[d] \in Nat \cup {None}
  BY DEF CircuitType
<1>1. CASE OnRecord
  <2>1. ASSUME NEW d \in Devices PROVE circuit'[d] \in Nat \cup {None}
    <3>1. records[d] \in Seq(DeliveryRecord) /\ circuit[d] \in Nat \cup {None}
      BY DEF TypeOK, CircuitType
    <3>2. CASE records'[d] = records[d]
      BY <1>1, <3>1, <3>2, NoRecord
    <3>3. CASE \E r \in DeliveryRecord : records'[d] = Append(records[d], r)
      BY <1>1, <3>1, <3>3, ReactionTo, BackoffType
    <3>4. QED  BY <3>2, <3>3, CoordinatorUsesLedger, LogGrows
  <2>2. QED  BY <1>1, <2>1 DEF OnRecord, CircuitType
<1>2. CASE Tick
  <2>1. \A n \in Nat \ {0} : n - 1 \in Nat
    OBVIOUS
  <2>2. \A d \in Devices : circuit[d] \notin {None, 0} => circuit[d] - 1 \in Nat
    BY <1>0, <2>1
  <2>3. QED  BY <1>0, <1>2, <2>2 DEF Tick, CircuitType
<1>3. CASE UNCHANGED circuit
  BY <1>3 DEF CircuitType
<1>4. QED  BY <1>1, <1>2, <1>3, CircuitKinds

LEMMA CircuitTypeHolds == CoordinatorSpec => []CircuitType
<1>1. CoordinatorInit => CircuitType
  BY DEF CoordinatorInit, CircuitType
<1>2. QED  BY <1>1, CircuitTypeStep, CoordinatorPlayerHolds, PTL DEF CoordinatorSpec

ScheduledType == scheduled \in BOOLEAN

LEMMA ScheduledTypeHolds == CoordinatorSpec => []ScheduledType
<1>1. CoordinatorInit => ScheduledType
  BY DEF CoordinatorInit, ScheduledType
<1>2. ScheduledType /\ [CoordinatorNext]_coordinatorVars => ScheduledType'
  <2>1. ScheduledType /\ scheduled' \in {scheduled, FALSE} => ScheduledType'
    BY Zenon DEF ScheduledType
  <2>2. [CoordinatorNext]_coordinatorVars => scheduled' \in {scheduled, FALSE}
    BY CircuitKinds DEF Tick
  <2>3. QED  BY <2>1, <2>2
<1>3. QED  BY <1>1, <1>2, PTL DEF CoordinatorSpec

\* The circuits, the tasks and everything below them keep their types.
THEOREM CoordinatorTypeCorrect == CoordinatorSpec => []CoordinatorTypeOK
<1>1. PlayerType /\ TypeOK /\ ProbeInv /\ CircuitType /\ ScheduledType => CoordinatorTypeOK
  BY DEF PlayerType, MediaPlayerTypeOK, ProbeInv, CircuitType, ScheduledType, CoordinatorTypeOK
<1>2. QED
  BY <1>1, CoordinatorPlayerHolds, ProbeInvHolds, CircuitTypeHolds, ScheduledTypeHolds, PTL

\* A log that says its device's circuit is not closed.
Armed(log) ==
    \E k \in DOMAIN log :
       OpensAt(log, k) /\ \A j \in DOMAIN log : j > k => ~ProbeOkAt(log, j)

\* What a record says to the breaker, by the log that ends with it.
Opens(log, r) ==
    /\ r.source = "probe" /\ r.outcome = "timeout"
    /\ Cardinality(TimeoutRun(Append(log, r))) >= CIRCUIT_BREAKER_TIMEOUTS

LEMMA PrefixesAfterAppend ==
  ASSUME NEW log \in Seq(DeliveryRecord), NEW r \in DeliveryRecord
  PROVE  /\ \A k \in DOMAIN log : SubSeq(Append(log, r), 1, k) = SubSeq(log, 1, k)
         /\ SubSeq(Append(log, r), 1, Len(log) + 1) = Append(log, r)
<1> DEFINE longer == Append(log, r)
<1>1. /\ longer \in Seq(DeliveryRecord) /\ Len(longer) = Len(log) + 1 /\ Len(log) \in Nat
      /\ \A i \in 1 .. Len(log) : longer[i] = log[i]
      /\ DOMAIN log = 1 .. Len(log)
  OBVIOUS
<1>2. ASSUME NEW k \in DOMAIN log PROVE SubSeq(longer, 1, k) = SubSeq(log, 1, k)
  <2> DEFINE a == SubSeq(longer, 1, k)
             b == SubSeq(log, 1, k)
  <2>1. /\ a \in Seq(DeliveryRecord) /\ b \in Seq(DeliveryRecord)
        /\ Len(a) = k /\ Len(b) = k
        /\ \A i \in 1 .. k : a[i] = longer[i] /\ b[i] = log[i]
    BY <1>1, <1>2
  <2>2. \A i \in 1 .. k : a[i] = b[i]
    BY <1>1, <1>2, <2>1
  <2>3. QED  BY <1>2, <2>1, <2>2, SeqEqual
<1>3. SubSeq(longer, 1, Len(log) + 1) = longer
  <2> DEFINE a == SubSeq(longer, 1, Len(log) + 1)
  <2>1. /\ a \in Seq(DeliveryRecord) /\ Len(a) = Len(longer)
        /\ \A i \in 1 .. Len(longer) : a[i] = longer[i]
    BY <1>1
  <2>2. QED  BY <1>1, <2>1, SeqEqual
<1>4. QED  BY <1>2, <1>3

\* A success of a probe disarms; a timeout that is late enough in its run arms;
\* nothing else matters.
LEMMA ArmedAfterAppend ==
  ASSUME NEW log \in Seq(DeliveryRecord), NEW r \in DeliveryRecord
  PROVE  Armed(Append(log, r)) <=>
           /\ ~(r.source = "probe" /\ r.outcome = "ok")
           /\ Armed(log) \/ Opens(log, r)
<1> DEFINE longer == Append(log, r)
           n == Len(log) + 1
<1>1. /\ DOMAIN longer = DOMAIN log \cup {n} /\ n \notin DOMAIN log /\ n \in Nat
      /\ \A k \in DOMAIN log : longer[k] = log[k] /\ k < n /\ k \in Nat
      /\ longer[n] = r
  BY AppendIndices
<1>2. \A k \in DOMAIN log : OpensAt(longer, k) <=> OpensAt(log, k)
  BY <1>1, PrefixesAfterAppend DEF OpensAt
<1>3. OpensAt(longer, n) <=> Opens(log, r)
  BY <1>1, PrefixesAfterAppend DEF OpensAt, Opens
<1>4. /\ \A k \in DOMAIN log : ProbeOkAt(longer, k) <=> ProbeOkAt(log, k)
      /\ ProbeOkAt(longer, n) <=> r.source = "probe" /\ r.outcome = "ok"
  BY <1>1 DEF ProbeOkAt
<1>5. Opens(log, r) => ~ProbeOkAt(longer, n)
  BY <1>4 DEF Opens
<1> HIDE DEF longer, n
<1>6. CASE ProbeOkAt(longer, n)
  <2>1. ~OpensAt(longer, n)
    BY <1>3, <1>5, <1>6
  <2>2. ~Armed(longer)
    BY <1>1, <1>6, <2>1 DEF Armed
  <2>3. QED  BY <1>4, <1>6, <2>2 DEF longer
<1>7. CASE ~ProbeOkAt(longer, n)
  <2>1. ASSUME Armed(longer) PROVE Armed(log) \/ Opens(log, r)
    <3>1. PICK k \in DOMAIN longer :
             OpensAt(longer, k) /\ \A j \in DOMAIN longer : j > k => ~ProbeOkAt(longer, j)
      BY <2>1 DEF Armed
    <3>2. CASE k = n
      BY <1>3, <3>1, <3>2
    <3>3. CASE k \in DOMAIN log
      BY <1>1, <1>2, <1>4, <3>1, <3>3 DEF Armed
    <3>4. QED  BY <1>1, <3>2, <3>3
  <2>2. ASSUME Armed(log) PROVE Armed(longer)
    <3>1. PICK k \in DOMAIN log :
             OpensAt(log, k) /\ \A j \in DOMAIN log : j > k => ~ProbeOkAt(log, j)
      BY <2>2 DEF Armed
    <3>2. OpensAt(longer, k) /\ \A j \in DOMAIN longer : j > k => ~ProbeOkAt(longer, j)
      BY <1>1, <1>2, <1>4, <1>7, <3>1
    <3>3. QED  BY <1>1, <3>2 DEF Armed
  <2>3. ASSUME Opens(log, r) PROVE Armed(longer)
    <3>1. OpensAt(longer, n) /\ \A j \in DOMAIN longer : j > n => ~ProbeOkAt(longer, j)
      BY <1>1, <1>3, <2>3
    <3>2. QED  BY <1>1, <3>1 DEF Armed
  <2>4. QED  BY <1>4, <1>7, <2>1, <2>2, <2>3 DEF longer
<1>8. QED  BY <1>6, <1>7

Matches(d) == (circuit[d] # None) <=> Armed(records[d])

LEMMA MatchesWithRecord ==
  ASSUME TypeOK, CountersMatchLog', CircuitType, OnRecord, scheduled,
         NEW d \in Devices, Matches(d),
         NEW r \in DeliveryRecord, records'[d] = Append(records[d], r)
  PROVE  Matches(d)'
<1>1. records[d] \in Seq(DeliveryRecord)
  BY DEF TypeOK
<1>2. Armed(records'[d]) <=>
        /\ ~(r.source = "probe" /\ r.outcome = "ok")
        /\ Armed(records[d]) \/ Opens(records[d], r)
  BY <1>1, ArmedAfterAppend
<1>3. TimeoutsNow(d) = Cardinality(TimeoutRun(Append(records[d], r)))
  BY DEF TimeoutsNow, CountersMatchLog
<1>4. Backoff(TimeoutsNow(d)) # None
  BY BackoffType, ProbeAssumption
<1>5. CASE Opens(records[d], r)
  <2>1. circuit'[d] # None
    BY <1>1, <1>3, <1>4, <1>5, ReactionTo DEF Opens
  <2>2. QED  BY <1>2, <1>5, <2>1 DEF Matches, Opens
<1>6. CASE r.source = "probe" /\ r.outcome = "ok"
  <2>1. circuit'[d] = None
    BY <1>1, <1>6, ReactionTo
  <2>2. QED  BY <1>2, <1>6, <2>1 DEF Matches
<1>7. CASE ~Opens(records[d], r) /\ ~(r.source = "probe" /\ r.outcome = "ok")
  <2>1. circuit'[d] = circuit[d]
    BY <1>1, <1>3, <1>7, ReactionTo DEF Opens
  <2>2. QED  BY <1>2, <1>7, <2>1 DEF Matches
<1>8. QED  BY <1>5, <1>6, <1>7

LEMMA MatchesStep ==
  ASSUME PlayerType, TypeOK, CountersMatchLog', CircuitType, [CoordinatorNext]_coordinatorVars,
         scheduled', NEW d \in Devices, scheduled => Matches(d)
  PROVE  Matches(d)'
<1>1. CASE OnRecord /\ scheduled' = scheduled
  <2>1. CASE records'[d] = records[d]
    BY <1>1, <2>1, NoRecord DEF Matches, TypeOK
  <2>2. CASE \E r \in DeliveryRecord : records'[d] = Append(records[d], r)
    BY <1>1, <2>2, MatchesWithRecord
  <2>3. QED  BY <2>1, <2>2, CoordinatorUsesLedger, LogGrows
<1>2. CASE Tick
  <2>1. circuit'[d] # None <=> circuit[d] # None
    BY <1>2, ProbeAssumption DEF Tick, CircuitType
  <2>2. QED  BY <1>2, <2>1 DEF Tick, mediaPlayerVars, ledgerVars, Matches
<1>3. CASE UNCHANGED <<circuit, records, health>> /\ scheduled' \in {scheduled, FALSE}
  BY <1>3 DEF Matches
<1>4. QED  BY <1>1, <1>2, <1>3, CircuitKinds

\* However many records of whatever origin come between them, the circuit of a device
\* is open or half-open exactly if its log holds a probe timeout that was late enough
\* in its run and no success of a probe after it.
THEOREM CircuitFollowsLog == CoordinatorSpec => []CircuitMatchesLog
<1>1. CircuitMatchesLog <=> (scheduled => \A d \in Devices : Matches(d))
  BY DEF CircuitMatchesLog, Matches, Armed
<1>2. CoordinatorInit => CircuitMatchesLog
  BY DEF CoordinatorInit, MediaPlayerInit, Init, CircuitMatchesLog
<1>3. ASSUME PlayerType, TypeOK, CountersMatchLog', CircuitType, CircuitMatchesLog,
             [CoordinatorNext]_coordinatorVars
      PROVE  CircuitMatchesLog'
  <2>1. SUFFICES ASSUME scheduled', NEW d \in Devices PROVE Matches(d)'
    BY DEF CircuitMatchesLog, Matches, Armed
  <2>2. QED  BY <1>1, <1>3, <2>1, MatchesStep
<1>4. CoordinatorSpec => []CountersMatchLog
  BY SystemUsesLedger, CountersCountTheLog DEF UsesLedger
<1>5. QED
  BY <1>2, <1>3, <1>4, CoordinatorPlayerHolds, CircuitTypeHolds, PTL DEF CoordinatorSpec

-----------------------------------------------------------------------------
(* The sensors. *)

\* What the outcome sensor of a device has to show.
Shows(d) ==
    /\ shown[d].outcome = health[d].last_outcome
    /\ shown[d].consecutive_failures = health[d].consecutive_failures
    /\ shown[d].consecutive_timeouts = health[d].consecutive_timeouts
    /\ shown[d].checked = Len(records[d])
    /\ shown[d].circuit_open # (circuit[d] # None) =>
          /\ records[d] # <<>>
          /\ records[d][Len(records[d])].source = "probe"
          /\ records[d][Len(records[d])].outcome \in {"ok", "timeout"}

\* A sensor writes itself anew with every record of its device.
LEMMA ShowsRecord ==
  ASSUME TypeOK, OnRecord, Signal, platforms, NEW d \in Devices,
         NEW r \in DeliveryRecord, records'[d] = Append(records[d], r)
  PROVE  Shows(d)'
<1>1. records[d] \in Seq(DeliveryRecord)
  BY DEF TypeOK
<1>2. /\ Len(records'[d]) > Len(records[d]) /\ records'[d] # <<>>
      /\ records'[d][Len(records'[d])] = r
  BY <1>1, AppendIndices
<1>3. shown'[d] = Read(d)
  BY <1>2 DEF Signal
<1>4. (circuit[d] # None) # (circuit'[d] # None)
         => r.source = "probe" /\ r.outcome \in {"ok", "timeout"}
  BY <1>1, ReactionTo
<1>5. QED  BY <1>2, <1>3, <1>4 DEF Read, Shows

LEMMA ShowsStep ==
  ASSUME PlayerType, TypeOK, CircuitType, CoordinatorNext, Signal, platforms,
         NEW d \in Devices, Shows(d)
  PROVE  Shows(d)'
<1>1. ASSUME UNCHANGED <<records, health>>, circuit'[d] # None <=> circuit[d] # None
      PROVE  Shows(d)'
  <2>1. shown'[d] = shown[d]
    <3>1. ~(Len(records'[d]) > Len(records[d]))
      BY <1>1 DEF TypeOK
    <3>2. QED  BY <3>1 DEF Signal
  <2>2. QED  BY <1>1, <2>1 DEF Shows
<1>2. CASE OnRecord
  <2>1. CASE \E r \in DeliveryRecord : records'[d] = Append(records[d], r)
    BY <1>2, <2>1, ShowsRecord
  <2>2. CASE records'[d] = records[d] /\ health'[d] = health[d]
    <3>1. circuit'[d] = circuit[d] /\ ~(Len(records'[d]) > Len(records[d]))
      BY <1>2, <2>2, NoRecord DEF TypeOK
    <3>2. shown'[d] = shown[d]
      BY <3>1 DEF Signal
    <3>3. QED  BY <2>2, <3>1, <3>2 DEF Shows
  <2>3. QED  BY <2>1, <2>2, CoordinatorUsesLedger, LogGrows
<1>3. CASE Tick
  <2>1. circuit'[d] # None <=> circuit[d] # None
    BY <1>3, ProbeAssumption DEF Tick, CircuitType
  <2>2. QED  BY <1>1, <1>3, <2>1 DEF Tick, mediaPlayerVars, ledgerVars
<1>4. CASE UNCHANGED <<circuit, records, health>>
  BY <1>1, <1>4
<1>5. QED  BY <1>2, <1>3, <1>4, CircuitKinds

LEMMA SensorsRefine == SensorsSpec => CoordinatorSpec
<1>1. SensorsInit => CoordinatorInit
  BY DEF SensorsInit
<1>2. [SensorsNext]_sensorVars => [CoordinatorNext]_coordinatorVars
  BY DEF SensorsNext, UnloadPlatforms, sensorVars
<1>3. QED  BY <1>1, <1>2, PTL DEF SensorsSpec, CoordinatorSpec

\* While the platform is loaded a sensor is never behind the ledger, whoever wrote the
\* last record, and behind the breaker by that record at most.
THEOREM SensorsFollowLedger == SensorsSpec => []SensorsShowLedger
<1>1. SensorsShowLedger <=> (platforms => \A d \in Devices : Shows(d))
  BY DEF SensorsShowLedger, Shows
<1>2. SensorsInit => SensorsShowLedger
  <2>1. SUFFICES ASSUME SensorsInit, NEW d \in Devices PROVE Shows(d)
    BY <1>1
  <2>2. /\ shown[d] = [outcome |-> "unknown", consecutive_failures |-> 0,
                       consecutive_timeouts |-> 0, checked |-> 0, circuit_open |-> FALSE]
        /\ health[d] = [last_outcome |-> "unknown",
                        consecutive_failures |-> 0, consecutive_timeouts |-> 0]
        /\ records[d] = <<>> /\ circuit[d] = None
    BY <2>1 DEF SensorsInit, CoordinatorInit, MediaPlayerInit, Init
  <2>3. shown[d].circuit_open = FALSE
    BY <2>2
  <2>4. shown[d].circuit_open = (circuit[d] # None)
    BY <2>2, <2>3
  <2>5. /\ shown[d].outcome = health[d].last_outcome
        /\ shown[d].consecutive_failures = health[d].consecutive_failures
        /\ shown[d].consecutive_timeouts = health[d].consecutive_timeouts
        /\ shown[d].checked = Len(records[d])
    BY <2>2
  <2>6. QED  BY <2>4, <2>5, Zenon DEF Shows
<1>3. ASSUME PlayerType, TypeOK, CircuitType, SensorsShowLedger, [SensorsNext]_sensorVars
      PROVE  SensorsShowLedger'
  <2>1. SUFFICES ASSUME platforms', NEW d \in Devices PROVE Shows(d)'
    BY DEF SensorsShowLedger, Shows
  <2>2. CASE CoordinatorNext /\ WhileLoaded
    BY <1>1, <1>3, <2>1, <2>2, ShowsStep DEF WhileLoaded
  <2>3. CASE UNCHANGED sensorVars
    BY <1>1, <1>3, <2>1, <2>3
       DEF sensorVars, coordinatorVars, probeVars, mediaPlayerVars, ledgerVars, Shows
  <2>4. QED  BY <1>3, <2>1, <2>2, <2>3 DEF SensorsNext, UnloadPlatforms
<1>4. QED
  BY <1>2, <1>3, SensorsRefine, CoordinatorPlayerHolds, CircuitTypeHolds, PTL DEF SensorsSpec
=============================================================================
