----------------------------- MODULE MediaPlayer -----------------------------
(***************************************************************************)
(* The playback services of CastMediaPlayerEntity (media_player.py):       *)
(* media_player.play_media and cast.announce, each a coroutine that may    *)
(* wait for the media to be resolved, begins a request in the ledger and   *)
(* then waits for quick_play in the executor behind a watchdog. The calls  *)
(* of one entity run concurrently (the platform sets no PARALLEL_UPDATES)  *)
(* and share the entity's _request_source, so every await is a point where *)
(* another call, a status or a timer may come between.                     *)
(***************************************************************************)
EXTENDS DeliveryLedger

CONSTANT Calls      \* bound: the service calls in flight at once

VARIABLES
    call,               \* the service call that runs under each name, or None
    request_source      \* CastMediaPlayerEntity._request_source

playerVars == <<call, request_source>>
mediaPlayerVars == <<ledgerVars, playerVars>>

\* stage: "resolving" until the request is begun, "playing" while quick_play
\* runs; id is the request's, 0 before it is begun.
ServiceCall ==
    [device : Devices, kind : {"play_media", "announce"}, content : Contents,
     stage : {"resolving", "playing"}, id : Nat]

ASSUME NoneCallAssumption == None \notin ServiceCall

InStage(c, stage) == call[c] # None /\ call[c].stage = stage

-----------------------------------------------------------------------------
(* The services. *)

Enter(c, d, kind, content) ==
    /\ call[c] = None
    /\ call' = [call EXCEPT ![c] =
         [device |-> d, kind |-> kind, content |-> content,
          stage |-> "resolving", id |-> 0]]

\* An announcement's finally clause resets the flag. Slip: it does not.
SourceKept(kind, source) == source
SourceAfter(kind, source) == IF kind = "announce" THEN "play_media" ELSE source

\* The call is over.
Leave(c) ==
    /\ call' = [call EXCEPT ![c] = None]
    /\ request_source' = [request_source EXCEPT ![call[c].device] =
         SourceAfter(call[c].kind, @)]

\* async_play_media, up to its first await.
PlayMedia(c, d, content) ==
    /\ Enter(c, d, "play_media", content)
    /\ UNCHANGED <<ledgerVars, request_source>>

\* async_announce with a template that renders and an engine that exists.
Announce(c, d, content) ==
    /\ Enter(c, d, "announce", content)
    /\ request_source' = [request_source EXCEPT ![d] = "announce"]
    /\ UNCHANGED ledgerVars

\* async_announce, the template or the TTS engine fails: recorded, and the call
\* raises before it has asked the device for anything.
RejectAnnounce(d) ==
    /\ RecordOutcome(d, "template_error", "announce")
    /\ UNCHANGED playerVars

\* async_play_media raises, or hands the media to a cast platform, before any
\* request is begun.
AbandonPlay(c) ==
    /\ InStage(c, "resolving")
    /\ Leave(c)
    /\ UNCHANGED ledgerVars

\* _async_quick_play_tracked begins the request under the source the flag has
\* now and the session the entity last saw, and calls quick_play.
SendRequest(c, session) ==
    /\ InStage(c, "resolving")
    /\ BeginRequest(call[c].device, call[c].content,
                    request_source[call[c].device], session)
    /\ call' = [call EXCEPT ![c].stage = "playing", ![c].id = begun'[call[c].device]]
    /\ UNCHANGED request_source

\* quick_play returns, or the call is cancelled: the ledger is told nothing.
QuickPlayReturns(c) ==
    /\ InStage(c, "playing")
    /\ Leave(c)
    /\ UNCHANGED ledgerVars

\* quick_play knows no such app: its NotImplementedError passes both except clauses
\* of the tracking, and async_play_media raises app_not_supported in its place.
QuickPlayUnsupported(c) ==
    /\ InStage(c, "playing")
    /\ call[c].kind = "play_media"
    /\ Leave(c)
    /\ UNCHANGED ledgerVars

\* Slip: the failure is only noted, and the request left to its timer.
QuickPlayRaiseNoted(c, err, answered) ==
    /\ InStage(c, "playing")
    /\ LogRecord(call[c].device, 0, "observed", Classify(err, answered))
    /\ UNCHANGED <<pending, timers, begun, closed>>
    /\ Leave(c)

\* quick_play raises a HomeAssistantError.
QuickPlayRaises(c, err, answered) ==
    /\ InStage(c, "playing")
    /\ RequestFailed(call[c].device, err, answered)
    /\ Leave(c)

\* asyncio.timeout(REQUEST_WATCHDOG) is longer than the request's own timer,
\* which has run or was cancelled by then. Slip: it waits for a call only while
\* the ledger does.
WatchdogDueWhilePending(c) == WaitingId(call[c].device) = call[c].id

WatchdogDue(c) == call[c].id \notin timers[call[c].device]

Watchdog(c) ==
    /\ InStage(c, "playing")
    /\ WatchdogDue(c)
    /\ RequestFailed(call[c].device, "TimeoutError", FALSE)
    /\ Leave(c)

-----------------------------------------------------------------------------
(* The whole entity: its services, its device's callbacks, the timers. *)

MediaPlayerInit ==
    /\ Init
    /\ call = [c \in Calls |-> None]
    /\ request_source = [d \in Devices |-> "play_media"]

\* Callbacks of pychromecast's socket thread, handed to the loop.
DeviceReport(d) ==
    /\ (\E s \in MediaStatus : HandleMediaStatus(d, s)) \/ LoadMediaFailed(d)
    /\ UNCHANGED playerVars

ServiceStep ==
    \/ \E c \in Calls, d \in Devices, content \in Contents :
          PlayMedia(c, d, content) \/ Announce(c, d, content)
    \/ \E d \in Devices : RejectAnnounce(d)
    \/ \E c \in Calls : AbandonPlay(c)
    \/ \E c \in Calls, session \in Sessions \cup {None} : SendRequest(c, session)

QuickPlayEnds(c) ==
    \/ QuickPlayReturns(c) \/ QuickPlayUnsupported(c)
    \/ \E err \in Errors \ {"TimeoutError"}, answered \in BOOLEAN :
          QuickPlayRaises(c, err, answered)
    \/ Watchdog(c)

RequestTimer(d) == Expire(d) /\ UNCHANGED playerVars

StopLedger == Shutdown /\ UNCHANGED playerVars

\* What the program's surroundings start, and what ends what they started.
Stimulus == ServiceStep \/ (\E d \in Devices : DeviceReport(d)) \/ StopLedger
Answers == (\E c \in Calls : QuickPlayEnds(c)) \/ (\E d \in Devices : RequestTimer(d))

MediaPlayerNext == Stimulus \/ Answers

MediaPlayerSpec == MediaPlayerInit /\ [][MediaPlayerNext]_mediaPlayerVars

\* The loop runs its timers: the request's, and the watchdog's. Neither the
\* device nor pychromecast is obliged to anything.
TimersRun ==
    /\ \A d \in Devices : WF_mediaPlayerVars(RequestTimer(d))
    /\ \A c \in Calls : WF_mediaPlayerVars(Watchdog(c))

-----------------------------------------------------------------------------
(* Properties. *)

MediaPlayerTypeOK ==
    /\ TypeOK
    /\ call \in [Calls -> ServiceCall \cup {None}]
    /\ request_source \in [Devices -> {"play_media", "announce"}]

\* The flag that labels requests as announcements is up only while an
\* announcement is in flight: no way out of async_announce leaves it up for the
\* calls that follow (its finally clause).
FlagFollowsAnnouncements ==
    \A d \in Devices :
       request_source[d] = "announce" =>
          \E c \in Calls : call[c] # None /\ call[c].device = d /\ call[c].kind = "announce"

\* Whoever sends a request, the ledger sees it only through its handlers, so
\* what holds of the ledger alone holds of the entity.
UsesLedger == Spec

\* A wedged quick_play does not hold its caller: every call that waits for one
\* is over at some time, though neither the device nor the library answers
\* (REQUEST_WATCHDOG).
PlayingCallsEnd ==
    \A c \in Calls : \A i \in 1 .. MaxRequests :
       (InStage(c, "playing") /\ call[c].id = i)
          ~> ~(InStage(c, "playing") /\ call[c].id = i)
=============================================================================
