-------------------------- MODULE DeliveryOutcomes --------------------------
(***************************************************************************)
(* The closed vocabulary of the delivery ledger: what a play request can   *)
(* end as, who can have asked for it, and how an exception raised while    *)
(* sending it is classified (health.py).                                   *)
(***************************************************************************)

FAILURE_OUTCOMES == {"fetch_failed", "unreachable", "timeout", "template_error"}

DeliveryOutcome == FAILURE_OUTCOMES \cup {"ok", "skipped_busy", "unknown"}

\* Outcomes that say nothing about the device: _append leaves last_outcome alone.
Neutral == {"skipped_busy", "unknown"}

\* Who asks for a delivery; records nobody asked for carry "observed" instead.
RequestSources == {"play_media", "announce", "probe"}
Sources == RequestSources \cup {"observed"}

\* What quick_play raises, by the class async_request_failed tests: the asyncio
\* watchdog, or the pychromecast error behind a HomeAssistantError.
\* "NotConnected" stands for NotConnected and ChromecastConnectionError, "Other"
\* for every other cause and for a HomeAssistantError that has none.
Errors == {"TimeoutError", "RequestTimeout", "RequestFailed", "NotConnected", "Other"}

Verdict(outcome, responded) == [outcome |-> outcome, responded |-> responded]

\* The if/elif chain of async_request_failed. "answered" is the disjunction
\* (connected or launch_failure) of its two keyword arguments.
Classify(err, answered) ==
    CASE err \in {"TimeoutError", "RequestTimeout"} -> Verdict("timeout", FALSE)
      [] err = "RequestFailed" /\ ~answered         -> Verdict("unreachable", FALSE)
      [] err = "NotConnected"                       -> Verdict("unreachable", FALSE)
      [] OTHER                                      -> Verdict("fetch_failed", TRUE)
=============================================================================
