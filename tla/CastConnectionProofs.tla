------------------------- MODULE CastConnectionProofs -------------------------
(***************************************************************************)
(* What a player shows is what its connection is, and it disconnects       *)
(* without an error, however the loop, the socket thread and the groups'   *)
(* threads interleave.                                                     *)
(***************************************************************************)
EXTENDS CastConnection, TLAPS

-----------------------------------------------------------------------------

\* A step is one of the loop or one of the other threads.
ThreadStep ==
    \/ SocketConnects \/ SocketFails \/ SocketHears \/ SocketCloses
    \/ CallbackStep
    \/ ZoneCall \/ NewZoneStatus

LEMMA StepIsOfLoopOrThread == ConnectionNext <=> LoopStep \/ ThreadStep
BY DEF ConnectionNext, ThreadStep

-----------------------------------------------------------------------------
(* Types, by whom they belong to: the flags of the entity and the threads, the     *)
(* coroutines in the loop, and the socket thread.                                  *)

FlagsOK ==
    /\ chromecast \in BOOLEAN /\ listener \in BOOLEAN /\ valid \in BOOLEAN
    /\ available \in BOOLEAN /\ status \in BOOLEAN /\ zones \in BOOLEAN
    /\ ending \in BOOLEAN /\ zoneCall \in BOOLEAN /\ early \in BOOLEAN

TasksOK ==
    /\ connect \in {"opening", "started", "done", "failed"}
    /\ disconnect \in
        [Occasions -> {"idle", "joining", "dropping", "clearing", "done", "failed"}]
    /\ loop \in {"free", "connect"} \cup Occasions
    /\ loop = "connect" <=> connect = "started"
    /\ \A t \in Occasions : loop = t <=> disconnect[t] \in {"dropping", "clearing"}

SocketOK ==
    /\ socket \in {"off", "connecting", "connected", "lost", "closed"}
    /\ report \in Reports

LEMMA LoopKeepsFlags ==
  ASSUME FlagsOK, LoopStep
  PROVE  FlagsOK'
<1> USE DEF FlagsOK, entityVars, threadVars
<1>1. CASE StartConnection
  BY <1>1 DEF StartConnection
<1>2. CASE ConnectionFails
  BY <1>2 DEF ConnectionFails
<1>3. CASE FinishConnection
  BY <1>3 DEF FinishConnection, InitiallyAvailable
<1>4. ASSUME NEW t \in Occasions, BeginDisconnect(t)
      PROVE  FlagsOK'
  BY <1>4 DEF BeginDisconnect, BeginInvalidate
<1>5. ASSUME NEW t \in Occasions, Joined(t)
      PROVE  FlagsOK'
  BY <1>5 DEF Joined, BeginInvalidate
<1>6. ASSUME NEW t \in Occasions, EndInvalidate(t)
      PROVE  FlagsOK'
  BY <1>6 DEF EndInvalidate, ClearEntity
<1>7. QED  BY <1>1, <1>2, <1>3, <1>4, <1>5, <1>6 DEF LoopStep

LEMMA ThreadsKeepFlags ==
  ASSUME FlagsOK, ThreadStep
  PROVE  FlagsOK'
<1> USE DEF FlagsOK, entityVars, Reporting
<1>1. CASE SocketConnects \/ SocketFails \/ SocketHears \/ SocketCloses
  BY <1>1 DEF SocketConnects, SocketFails, SocketHears, SocketCloses
<1>2. CASE AdmitReport
  BY <1>2 DEF AdmitReport
<1>3. CASE NewStatus
  BY <1>3 DEF NewStatus
<1>4. CASE NewConnectionStatus
  BY <1>4 DEF NewConnectionStatus, NewAvailable
<1>5. CASE NewDisconnected
  BY <1>5 DEF NewDisconnected
<1>6. CASE InvalidateOnSocket
  BY <1>6 DEF InvalidateOnSocket, ClearEntity
<1>7. CASE ZoneCall
  BY <1>7 DEF ZoneCall
<1>8. CASE NewZoneStatus
  BY <1>8 DEF NewZoneStatus
<1>9. QED
  BY <1>1, <1>2, <1>3, <1>4, <1>5, <1>6, <1>7, <1>8 DEF ThreadStep, CallbackStep

LEMMA LoopKeepsTasks ==
  ASSUME TasksOK, LoopStep
  PROVE  TasksOK'
<1> USE DEF TasksOK, Occasions
<1>1. CASE StartConnection
  BY <1>1 DEF StartConnection
<1>2. CASE ConnectionFails
  BY <1>2 DEF ConnectionFails
<1>3. CASE FinishConnection
  BY <1>3 DEF FinishConnection
<1>4. ASSUME NEW t \in Occasions, BeginDisconnect(t)
      PROVE  TasksOK'
  BY <1>4 DEF BeginDisconnect, BeginInvalidate
<1>5. ASSUME NEW t \in Occasions, Joined(t)
      PROVE  TasksOK'
  BY <1>5 DEF Joined, BeginInvalidate
<1>6. ASSUME NEW t \in Occasions, EndInvalidate(t)
      PROVE  TasksOK'
  BY <1>6 DEF EndInvalidate
<1>7. QED  BY <1>1, <1>2, <1>3, <1>4, <1>5, <1>6 DEF LoopStep

\* The threads do not touch the coroutines.
LEMMA ThreadsKeepTasks ==
  ASSUME TasksOK, ThreadStep
  PROVE  TasksOK'
<1>1. UNCHANGED taskVars
  BY DEF ThreadStep, CallbackStep, SocketConnects, SocketFails, SocketHears, SocketCloses,
     Reporting, AdmitReport, NewStatus, NewConnectionStatus, NewDisconnected,
     InvalidateOnSocket, ZoneCall, NewZoneStatus
<1>2. QED  BY <1>1 DEF TasksOK, taskVars

LEMMA StepKeepsSocket ==
  ASSUME SocketOK, LoopStep \/ ThreadStep
  PROVE  SocketOK'
<1> USE DEF SocketOK, Reports, NoReport, Sent, At
<1>1. CASE LoopStep
  BY <1>1 DEF LoopStep, StartConnection, ConnectionFails, FinishConnection, BeginDisconnect,
     Joined, EndInvalidate, threadVars
<1>2. CASE SocketConnects \/ SocketFails \/ SocketHears \/ SocketCloses
  BY <1>2 DEF SocketConnects, SocketFails, SocketHears, SocketCloses, Reporting
<1>3. CASE AdmitReport
  <2>1. report # NoReport /\ report.stage = "sent"
    BY <1>3 DEF AdmitReport
  <2>2. [report EXCEPT !.stage = "admitted"] \in Reports
    BY <2>1
  <2>3. QED  BY <1>3, <2>2 DEF AdmitReport
<1>4. CASE NewStatus \/ NewConnectionStatus \/ InvalidateOnSocket
  BY <1>4 DEF NewStatus, NewConnectionStatus, InvalidateOnSocket
<1>5. CASE NewDisconnected
  BY <1>5 DEF NewDisconnected
<1>6. CASE ZoneCall \/ NewZoneStatus
  BY <1>6 DEF ZoneCall, NewZoneStatus
<1>7. QED  BY <1>1, <1>2, <1>3, <1>4, <1>5, <1>6 DEF ThreadStep, CallbackStep

LEMMA ConnectionTypeParts == ConnectionTypeOK <=> FlagsOK /\ TasksOK /\ SocketOK
BY DEF ConnectionTypeOK, FlagsOK, TasksOK, SocketOK

\* The entity's fields, the threads and the coroutines keep their types, and one
\* coroutine at a time is between two halves of _invalidate (media_player.py:279-297).
THEOREM ConnectionTypeCorrect == ConnectionSpec => []ConnectionTypeOK
<1>1. ConnectionInit => ConnectionTypeOK
  BY DEF ConnectionInit, ConnectionTypeOK, Reports, Occasions
<1>2. ConnectionTypeOK /\ [ConnectionNext]_connectionVars => ConnectionTypeOK'
  <2> SUFFICES ASSUME ConnectionTypeOK, [ConnectionNext]_connectionVars
               PROVE  ConnectionTypeOK'
    OBVIOUS
  <2>1. CASE ConnectionNext
    <3>1. FlagsOK'
      BY <2>1, StepIsOfLoopOrThread, LoopKeepsFlags, ThreadsKeepFlags, ConnectionTypeParts
    <3>2. TasksOK'
      BY <2>1, StepIsOfLoopOrThread, LoopKeepsTasks, ThreadsKeepTasks, ConnectionTypeParts
    <3>3. SocketOK'
      BY <2>1, StepIsOfLoopOrThread, StepKeepsSocket, ConnectionTypeParts
    <3>4. QED  BY <3>1, <3>2, <3>3 DEF ConnectionTypeOK, FlagsOK, TasksOK, SocketOK
  <2>2. CASE UNCHANGED connectionVars
    BY <2>2 DEF connectionVars, taskVars, entityVars, threadVars, ConnectionTypeOK
  <2>3. QED  BY <2>1, <2>2
<1>3. QED  BY <1>1, <1>2, PTL DEF ConnectionSpec

-----------------------------------------------------------------------------
(* The inductive invariant. The socket thread keeps the Chromecast set while it    *)
(* lives and until it has handled its last report; the listener is dropped after   *)
(* the Chromecast, in the second half of whichever _invalidate comes first.        *)

Live == socket \in {"connecting", "connected", "lost"}

InFlight == report.stage \in {"sent", "admitted"}

\* Nothing happens to an entity before its Chromecast is built.
BeforeStart ==
    /\ socket = "off" => connect \in {"opening", "failed"} /\ report = NoReport /\ ~ending
    /\ connect = "opening" => socket = "off"

\* The kind of a report is the state the thread was in when it sent it, and only
\* the last one invalidates.
ReportsAgree ==
    /\ report # NoReport => report.stage # "none" /\ report.kind # "none"
    /\ report.kind \in {"connected", "status"} => socket = "connected"
    /\ report.kind = "unconnected" => socket = "lost"
    /\ report.kind = "disconnected" => socket = "closed"
    /\ socket = "closed" => report.kind \in {"disconnected", "none"} /\ ending
    /\ report.stage = "invalidating" => report.kind = "disconnected"

ChromecastWhileLive == chromecast <=> Live \/ (socket = "closed" /\ InFlight)

ListenerOutlivesChromecast ==
    /\ valid <=> listener
    /\ chromecast => listener
    /\ listener /\ ~chromecast =>
          \/ report.stage = "invalidating"
          \/ \E t \in Occasions : disconnect[t] = "dropping"
    /\ \A t \in Occasions :
          /\ disconnect[t] = "clearing" => ~listener
          /\ disconnect[t] \in {"dropping", "clearing"} => ~chromecast

AvailableFollowsSocket ==
    /\ available => socket = "connected" \/ (InFlight /\ report.kind \in {"unconnected", "disconnected"})
    /\ socket = "connected" /\ report.kind # "connected" => available \/ early
    /\ connect \in {"opening", "started"} => ~early

StatusNeedsListener == status => listener

\* The thread is told to end by a disconnect, and a listener is found without its
\* Chromecast only while the thread ends.
EndedByDisconnect ==
    /\ ending => \E t \in Occasions : disconnect[t] # "idle"
    /\ \A t \in Occasions :
          /\ disconnect[t] = "joining" => ending
          /\ disconnect[t] \in {"dropping", "failed"} =>
                ending /\ \A other \in Occasions : disconnect[other] # "idle"

ConnectionInv ==
    /\ BeforeStart
    /\ ReportsAgree
    /\ ChromecastWhileLive
    /\ ListenerOutlivesChromecast
    /\ AvailableFollowsSocket
    /\ StatusNeedsListener
    /\ EndedByDisconnect

LEMMA LoopKeepsInv ==
  ASSUME ConnectionTypeOK, ConnectionInv, LoopStep
  PROVE  ConnectionInv'
<1> USE DEF ConnectionTypeOK, Reports, NoReport, Occasions, ConnectionInv, BeforeStart,
      ReportsAgree, ChromecastWhileLive, ListenerOutlivesChromecast, AvailableFollowsSocket,
      StatusNeedsListener, EndedByDisconnect, Live, InFlight, taskVars, entityVars, threadVars
<1>1. CASE StartConnection
  BY <1>1 DEF StartConnection
<1>2. CASE ConnectionFails
  BY <1>2 DEF ConnectionFails
<1>3. CASE FinishConnection
  BY <1>3 DEF FinishConnection, InitiallyAvailable
<1>4. ASSUME NEW t \in Occasions, BeginDisconnect(t)
      PROVE  ConnectionInv'
  BY <1>4 DEF BeginDisconnect, BeginInvalidate
<1>5. ASSUME NEW t \in Occasions, Joined(t)
      PROVE  ConnectionInv'
  BY <1>5 DEF Joined, BeginInvalidate, ThreadEnded
<1>6. ASSUME NEW t \in Occasions, EndInvalidate(t)
      PROVE  ConnectionInv'
  BY <1>6 DEF EndInvalidate, ClearEntity
<1>7. QED  BY <1>1, <1>2, <1>3, <1>4, <1>5, <1>6 DEF LoopStep

LEMMA ThreadsKeepInv ==
  ASSUME ConnectionTypeOK, ConnectionInv, ThreadStep
  PROVE  ConnectionInv'
<1> USE DEF ConnectionTypeOK, Reports, NoReport, Occasions, ConnectionInv, BeforeStart,
      ReportsAgree, ChromecastWhileLive, ListenerOutlivesChromecast, AvailableFollowsSocket,
      StatusNeedsListener, EndedByDisconnect, Live, InFlight, taskVars, entityVars, threadVars
<1>1. CASE SocketConnects
  BY <1>1 DEF SocketConnects, Reporting, Sent
<1>2. CASE SocketFails
  BY <1>2 DEF SocketFails, Reporting, Sent
<1>3. CASE SocketHears
  BY <1>3 DEF SocketHears, Reporting, Sent
<1>4. CASE SocketCloses
  BY <1>4 DEF SocketCloses, Reporting, Sent
<1>5. CASE AdmitReport
  BY <1>5 DEF AdmitReport, At
<1>6. CASE NewStatus
  BY <1>6 DEF NewStatus
<1>7. CASE NewConnectionStatus
  BY <1>7 DEF NewConnectionStatus, NewAvailable
<1>8. CASE NewDisconnected
  BY <1>8 DEF NewDisconnected, At
<1>9. CASE InvalidateOnSocket
  BY <1>9 DEF InvalidateOnSocket, ClearEntity
<1>10. CASE ZoneCall
  BY <1>10 DEF ZoneCall
<1>11. CASE NewZoneStatus
  BY <1>11 DEF NewZoneStatus
<1>12. QED
  BY <1>1, <1>2, <1>3, <1>4, <1>5, <1>6, <1>7, <1>8, <1>9, <1>10, <1>11
  DEF ThreadStep, CallbackStep

LEMMA ConnectionInvHolds == ConnectionSpec => []ConnectionInv
<1>1. ConnectionInit => ConnectionInv
  BY DEF ConnectionInit, NoReport, Occasions, ConnectionInv, BeforeStart, ReportsAgree,
     ChromecastWhileLive, ListenerOutlivesChromecast, AvailableFollowsSocket,
     StatusNeedsListener, EndedByDisconnect, Live, InFlight
<1>2. ConnectionTypeOK /\ ConnectionInv /\ [ConnectionNext]_connectionVars => ConnectionInv'
  <2>1. ASSUME ConnectionInv, UNCHANGED connectionVars
        PROVE  ConnectionInv'
    BY <2>1 DEF connectionVars, taskVars, entityVars, threadVars, ConnectionInv, BeforeStart,
       ReportsAgree, ChromecastWhileLive, ListenerOutlivesChromecast, AvailableFollowsSocket,
       StatusNeedsListener, EndedByDisconnect, Live, InFlight
  <2>2. QED  BY <2>1, StepIsOfLoopOrThread, LoopKeepsInv, ThreadsKeepInv
<1>3. QED  BY <1>1, <1>2, ConnectionTypeCorrect, PTL DEF ConnectionSpec

-----------------------------------------------------------------------------

\* What counts as available is connected or about to hear otherwise: the late report of
\* a connection never outlives the disconnect (media_player.py:506-564).
THEOREM AvailableHasConnection == ConnectionSpec => []AvailableIsConnected
<1>1. ConnectionTypeOK /\ ConnectionInv => AvailableIsConnected
  BY DEF ConnectionInv, AvailableIsConnected, AvailableFollowsSocket, ChromecastWhileLive,
     Quiet, Live, InFlight, NoReport
<1>2. QED  BY <1>1, ConnectionTypeCorrect, ConnectionInvHolds, PTL

\* A connected entity is shown as unavailable only after an early report, whatever was
\* reported and reconnected since (media_player.py:540).
THEOREM ConnectionHasAvailable == ConnectionSpec => []ConnectedIsAvailable
<1>1. ConnectionTypeOK /\ ConnectionInv => ConnectedIsAvailable
  BY DEF ConnectionInv, ConnectedIsAvailable, AvailableFollowsSocket, Quiet, NoReport
<1>2. QED  BY <1>1, ConnectionTypeCorrect, ConnectionInvHolds, PTL

\* Whichever thread invalidated, and if both did, nothing of the device remains
\* (media_player.py:291-297, 546-564).
THEOREM DisconnectedIsBlank == ConnectionSpec => []DisconnectedShowsNothing
<1>1. ConnectionTypeOK /\ ConnectionInv => DisconnectedShowsNothing
  <2> SUFFICES ASSUME ConnectionTypeOK, ConnectionInv, Quiet, ~chromecast
               PROVE  ~available /\ ~status
    BY DEF DisconnectedShowsNothing
  <2>1. ~listener
    BY DEF ConnectionTypeOK, ConnectionInv, ListenerOutlivesChromecast, Quiet, NoReport, Occasions
  <2>2. ~available
    BY DEF ConnectionInv, AvailableFollowsSocket, ChromecastWhileLive, Quiet, NoReport, Live,
       InFlight
  <2>3. QED  BY <2>1, <2>2 DEF ConnectionInv, StatusNeedsListener
<1>2. QED  BY <1>1, ConnectionTypeCorrect, ConnectionInvHolds, PTL

\* The AttributeError of a listener dropped twice needs the removal and the stop event
\* (media_player.py:279-297).
THEOREM LoneDisconnectsSucceed == ConnectionSpec => []LoneDisconnectSucceeds
<1>1. ConnectionTypeOK /\ ConnectionInv => LoneDisconnectSucceeds
  BY DEF ConnectionTypeOK, ConnectionInv, LoneDisconnectSucceeds, EndedByDisconnect
<1>2. QED  BY <1>1, ConnectionTypeCorrect, ConnectionInvHolds, PTL
=============================================================================
