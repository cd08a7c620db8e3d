---------------------------- MODULE CastConnection ----------------------------
(***************************************************************************)
(* The connection of one media player entity (CastDevice and               *)
(* CastMediaPlayerEntity in media_player.py, CastStatusListener in         *)
(* helpers.py) between three kinds of threads: the event loop, which       *)
(* connects, and disconnects when the entity is removed or Home Assistant  *)
(* stops; the socket thread of the Chromecast, which reconnects by itself, *)
(* ends only when told to and reports on the way; and the socket threads   *)
(* of the groups the device is a member of.                                *)
(*                                                                         *)
(* The loop's code is one step from await to await, except where the       *)
(* socket thread runs meanwhile and shares what the code reads and writes. *)
(***************************************************************************)
EXTENDS Naturals

VARIABLES
    connect,     \* _async_connect_to_chromecast: where the task is
    disconnect,  \* _async_disconnect, for the removal and for the stop event
    loop,        \* the coroutine in the middle of a step, or "free"
    chromecast,  \* _chromecast is set
    listener,    \* _status_listener is set
    valid,       \* _valid of that listener, which the threads hold on to
    available,   \* _attr_available
    status,      \* a cast or media status is held
    zones,       \* mz_media_status holds something
    socket,      \* pychromecast's thread and what it knows of the device
    ending,      \* the thread was told to end
    report,      \* the callback the socket thread is in
    zoneCall,    \* a callback of a group's thread got past the check of _valid
    early        \* ghost: the connection was reported before connecting was done

taskVars == <<connect, disconnect, loop>>
entityVars == <<chromecast, listener, valid, available, status, zones>>
threadVars == <<socket, ending, report, zoneCall>>
connectionVars == <<taskVars, entityVars, threadVars, early>>

Occasions == {"removal", "stop"}

NoReport == [kind |-> "none", stage |-> "none"]
Reports ==
    {NoReport} \cup
    [kind : {"connected", "unconnected", "status", "disconnected"},
     stage : {"sent", "admitted", "invalidating"}]

Sent(kind) == [kind |-> kind, stage |-> "sent"]
At(stage) == [report EXCEPT !.stage = stage]

\* What Chromecast.disconnect waits for: the thread has made its last report.
\* Slips: it is told to end and not waited for; the wait needs the Chromecast, which
\* the thread drops with its last report.
NotAwaited == ending
EndedWhileSet == socket = "closed" /\ report = NoReport /\ chromecast
ThreadEnded == socket = "closed" /\ report = NoReport

-----------------------------------------------------------------------------
(* Connecting, in the loop. *)

\* The executor built the Chromecast object: the listener is registered and the
\* socket thread started. Whether the entity is still there is not looked at.
StartConnection ==
    /\ connect = "opening"
    /\ loop = "free"
    /\ connect' = "started"
    /\ loop' = "connect"
    /\ chromecast' = TRUE
    /\ listener' = TRUE
    /\ valid' = TRUE
    /\ socket' = "connecting"
    /\ UNCHANGED <<disconnect, available, status, zones, ending, report, zoneCall, early>>

ConnectionFails ==
    /\ connect = "opening"
    /\ loop = "free"
    /\ connect' = "failed"
    /\ UNCHANGED <<disconnect, loop, entityVars, threadVars, early>>

\* The override's part, after start(): the thread may have reported already. What
\* the Chromecast knows of the device by now may be nothing.
\* Slip: the entity counts as available from here on.
AvailableAtOnce == chromecast
InitiallyAvailable == FALSE

FinishConnection ==
    /\ connect = "started"
    /\ loop' = "free"
    /\ available' = InitiallyAvailable
    /\ connect' = IF chromecast THEN "done" ELSE "failed"
    /\ status' \in IF chromecast THEN {status, socket # "connecting"} ELSE {status}
    /\ early' = (available /\ socket = "connected")
    /\ UNCHANGED <<disconnect, chromecast, listener, valid, zones, threadVars>>

-----------------------------------------------------------------------------
(* Disconnecting, in the loop. *)

\* The entity's _invalidate ends with these. Slip: the statuses are forgotten.
ClearZones == UNCHANGED status /\ zones' = FALSE
ClearEntity ==
    /\ status' = FALSE
    /\ zones' = FALSE

\* The first half of _invalidate drops the Chromecast and looks for a listener.
\* Slip: the coroutine awaits something before the second half.
BeginAndYield(t) ==
    /\ loop' = "free"
    /\ disconnect' = [disconnect EXCEPT ![t] = IF listener THEN "dropping" ELSE "clearing"]
    /\ chromecast' = FALSE
BeginInvalidate(t) ==
    /\ loop' = t
    /\ disconnect' = [disconnect EXCEPT ![t] = IF listener THEN "dropping" ELSE "clearing"]
    /\ chromecast' = FALSE

BeginDisconnect(t) ==
    /\ disconnect[t] = "idle"
    /\ loop = "free"
    /\ \/ /\ chromecast
          /\ disconnect' = [disconnect EXCEPT ![t] = "joining"]
          /\ ending' = TRUE
          /\ UNCHANGED <<loop, chromecast>>
       \/ /\ ~chromecast
          /\ BeginInvalidate(t)
          /\ UNCHANGED ending
    /\ UNCHANGED <<connect, listener, valid, available, status, zones, socket, report,
                   zoneCall, early>>

Joined(t) ==
    /\ disconnect[t] = "joining"
    /\ loop = "free"
    /\ ThreadEnded
    /\ BeginInvalidate(t)
    /\ UNCHANGED <<connect, listener, valid, available, status, zones, threadVars, early>>

\* The second half: if the socket thread was faster, the listener found is gone and
\* an AttributeError ends the coroutine.
EndInvalidate(t) ==
    /\ loop = t
    /\ loop' = "free"
    /\ \/ /\ disconnect[t] = "clearing" \/ listener
          /\ disconnect' = [disconnect EXCEPT ![t] = "done"]
          /\ valid' = (valid /\ disconnect[t] = "clearing")
          /\ listener' = FALSE
          /\ available' = FALSE
          /\ ClearEntity
       \/ /\ disconnect[t] = "dropping" /\ ~listener
          /\ disconnect' = [disconnect EXCEPT ![t] = "failed"]
          /\ UNCHANGED <<valid, listener, available, status, zones>>
    /\ UNCHANGED <<connect, chromecast, threadVars, early>>

-----------------------------------------------------------------------------
(* The socket thread. It makes one callback at a time. *)

Reporting(state, kind) ==
    /\ report = NoReport
    /\ socket' = state
    /\ report' = Sent(kind)
    /\ UNCHANGED <<taskVars, entityVars, ending, zoneCall, early>>

SocketConnects == socket \in {"connecting", "lost"} /\ Reporting("connected", "connected")

\* The connection is lost, or an attempt to make it fails and is retried.
SocketFails == socket \in {"connecting", "connected", "lost"} /\ Reporting("lost", "unconnected")

SocketHears == socket = "connected" /\ Reporting("connected", "status")

SocketCloses ==
    /\ ending
    /\ socket \notin {"off", "closed"}
    /\ Reporting("closed", "disconnected")

\* CastStatusListener: forwarded if the listener is valid at this moment.

AdmitReport ==
    /\ report.stage = "sent"
    /\ report' = IF valid THEN At("admitted") ELSE NoReport
    /\ UNCHANGED <<taskVars, entityVars, socket, ending, zoneCall, early>>

NewStatus ==
    /\ report = [kind |-> "status", stage |-> "admitted"]
    /\ status' = TRUE
    /\ report' = NoReport
    /\ UNCHANGED <<taskVars, chromecast, listener, valid, available, zones, socket, ending,
                   zoneCall, early>>

\* Slip: a device is available only once it has sent a status.
AvailableWithStatus == report.kind = "connected" /\ status
NewAvailable == report.kind = "connected"

\* new_connection_status, when it changes availability or not. One that has become
\* available reads the status of the groups it is in.
NewConnectionStatus ==
    /\ report.stage = "admitted"
    /\ report.kind \in {"connected", "unconnected"}
    /\ available' = NewAvailable
    /\ zones' \in IF available' /\ ~available THEN {zones, TRUE} ELSE {zones}
    /\ early' = (early /\ available = available')
    /\ report' = NoReport
    /\ UNCHANGED <<taskVars, chromecast, listener, valid, status, socket, ending, zoneCall>>

\* The same for the last report, in two halves as in the loop.
NewDisconnected ==
    /\ report = [kind |-> "disconnected", stage |-> "admitted"]
    /\ available' = FALSE
    /\ chromecast' = FALSE
    /\ report' = At("invalidating")
    /\ UNCHANGED <<taskVars, listener, valid, status, zones, socket, ending, zoneCall, early>>

InvalidateOnSocket ==
    /\ report.stage = "invalidating"
    /\ report' = NoReport
    /\ valid' = (valid /\ ~listener)
    /\ listener' = FALSE
    /\ ClearEntity
    /\ UNCHANGED <<taskVars, chromecast, available, socket, ending, zoneCall, early>>

-----------------------------------------------------------------------------
(* The threads of the groups, through the multizone manager. *)

ZoneCall ==
    /\ valid
    /\ ~zoneCall
    /\ zoneCall' = TRUE
    /\ UNCHANGED <<taskVars, entityVars, socket, ending, report, early>>

NewZoneStatus ==
    /\ zoneCall
    /\ zoneCall' = FALSE
    /\ zones' = TRUE
    /\ UNCHANGED <<taskVars, chromecast, listener, valid, available, status, socket, ending,
                   report, early>>

-----------------------------------------------------------------------------

ConnectionInit ==
    /\ connect = "opening"
    /\ disconnect = [t \in Occasions |-> "idle"]
    /\ loop = "free"
    /\ chromecast = FALSE
    /\ listener = FALSE
    /\ valid = FALSE
    /\ available = FALSE
    /\ status = FALSE
    /\ zones = FALSE
    /\ socket = "off"
    /\ ending = FALSE
    /\ report = NoReport
    /\ zoneCall = FALSE
    /\ early = FALSE

LoopStep ==
    \/ StartConnection
    \/ ConnectionFails
    \/ FinishConnection
    \/ \E t \in Occasions : BeginDisconnect(t) \/ Joined(t) \/ EndInvalidate(t)

CallbackStep ==
    \/ AdmitReport
    \/ NewStatus
    \/ NewConnectionStatus
    \/ NewDisconnected
    \/ InvalidateOnSocket

ConnectionNext ==
    \/ LoopStep
    \/ SocketConnects
    \/ SocketFails
    \/ SocketHears
    \/ SocketCloses
    \/ CallbackStep
    \/ ZoneCall
    \/ NewZoneStatus

ConnectionSpec == ConnectionInit /\ [][ConnectionNext]_connectionVars

\* Both threads run; a thread told to end does, however often its device reconnects
\* meanwhile. Devices and users do as they like.
ConnectionFairness ==
    /\ WF_connectionVars(FinishConnection)
    /\ \A t \in Occasions : SF_connectionVars(Joined(t)) /\ WF_connectionVars(EndInvalidate(t))
    /\ WF_connectionVars(CallbackStep)
    /\ SF_connectionVars(SocketCloses)

FairConnectionSpec == ConnectionSpec /\ ConnectionFairness

-----------------------------------------------------------------------------
(* Properties. *)

\* Types; one coroutine at a time is in the middle of a step, and only where its
\* task says so.
ConnectionTypeOK ==
    /\ connect \in {"opening", "started", "done", "failed"}
    /\ disconnect \in
        [Occasions -> {"idle", "joining", "dropping", "clearing", "done", "failed"}]
    /\ loop \in {"free", "connect"} \cup Occasions
    /\ chromecast \in BOOLEAN /\ listener \in BOOLEAN /\ valid \in BOOLEAN
    /\ available \in BOOLEAN /\ status \in BOOLEAN /\ zones \in BOOLEAN
    /\ socket \in {"off", "connecting", "connected", "lost", "closed"}
    /\ ending \in BOOLEAN /\ zoneCall \in BOOLEAN /\ early \in BOOLEAN
    /\ report \in Reports
    /\ loop = "connect" <=> connect = "started"
    /\ \A t \in Occasions : loop = t <=> disconnect[t] \in {"dropping", "clearing"}

Quiet == loop = "free" /\ report = NoReport

\* An available entity has a connection, or is just being told otherwise: what the
\* probe coordinator takes for a reachable device is one (media_player.py:506-522).
AvailableIsConnected == available /\ Quiet => socket = "connected" /\ chromecast

\* A connected entity counts as unavailable only if the connection was reported
\* before connecting was done (media_player.py:540), until it is made anew.
ConnectedIsAvailable == Quiet /\ socket = "connected" => available \/ early

\* Not connected or disconnected again, by whichever thread, the entity shows neither a
\* connection nor a status of its device (media_player.py:291-297, 546-564).
DisconnectedShowsNothing == Quiet /\ ~chromecast => ~available /\ ~status

\* The removal and the stop event, one without the other, disconnect without an
\* error, though loop and socket thread both invalidate (media_player.py:279-297).
LoneDisconnectSucceeds ==
    \A t \in Occasions :
        disconnect[t] = "failed" => \A other \in Occasions : disconnect[other] # "idle"

\* Whoever waits for the socket thread to end gets to the end (media_player.py:287).
DisconnectsEnd == \A t \in Occasions : disconnect[t] = "joining" ~> disconnect[t] \in {"done", "failed"}

\* A connection made while connecting is done is shown in the end, if it stays.
ConnectionIsShown ==
    connect = "done" /\ ~early /\ valid /\ socket = "connected" ~> available \/ socket # "connected"
=============================================================================
