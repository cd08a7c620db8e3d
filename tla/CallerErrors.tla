----------------------------- MODULE CallerErrors -----------------------------
(***************************************************************************)
(* What the callers of the playback services are told, beside what the     *)
(* ledger makes of it (media_player.py): the error a call leaves with once *)
(* its request was begun. A history variable over the media player.        *)
(***************************************************************************)
EXTENDS MediaPlayer

VARIABLE told       \* the errors callers have seen, each with its request

callerVars == <<mediaPlayerVars, told>>

\* "raised": the HomeAssistantError of quick_play; the others are the translation
\* keys of the errors raised in its place.
CallerError ==
    [device : Devices, id : Nat, error : {"raised", "request_watchdog", "app_not_supported"}]

Tell(c, error) ==
    told' = told \cup {[device |-> call[c].device, id |-> call[c].id, error |-> error]}

-----------------------------------------------------------------------------

CallerInit == MediaPlayerInit /\ told = {}

CallEnds(c) ==
    \/ QuickPlayReturns(c) /\ UNCHANGED told
    \/ QuickPlayUnsupported(c) /\ Tell(c, "app_not_supported")
    \/ Watchdog(c) /\ Tell(c, "request_watchdog")
    \/ /\ \E err \in Errors \ {"TimeoutError"}, answered \in BOOLEAN :
             QuickPlayRaises(c, err, answered)
       /\ Tell(c, "raised")

CallerStimulus == Stimulus /\ UNCHANGED told

CallerAnswers ==
    \/ \E c \in Calls : CallEnds(c)
    \/ (\E d \in Devices : RequestTimer(d)) /\ UNCHANGED told

CallerNext == CallerStimulus \/ CallerAnswers

CallerSpec == CallerInit /\ [][CallerNext]_callerVars

\* The bounds limit what is started, never what ends it.
BoundedCallerNext == (CallerStimulus /\ WithinBounds') \/ CallerAnswers

FairCallerSpec == CallerInit /\ [][BoundedCallerNext]_callerVars /\ TimersRun

-----------------------------------------------------------------------------
(* Properties. *)

Waits(t) == WaitingId(t.device) = t.id

\* Whoever is told of an error finds a verdict on the request in the ledger, then
\* and ever after, whatever was begun or reported meanwhile; only the caller of an
\* app nobody knows is told while the request still waits (the except clauses of
\* _async_quick_play_tracked, media_player.py:741-757, and of async_play_media,
\* media_player.py:1009-1014).
ToldErrorsHaveVerdicts ==
    \A t \in told :
       \/ VerdictsIn(records[t.device], t.id) # {}
       \/ t.error = "app_not_supported" /\ Waits(t)
=============================================================================
