-------------------------------- MODULE Sensors --------------------------------
(***************************************************************************)
(* The health sensors (sensor.py) on top of probes and playback: what the  *)
(* outcome sensor of a device last wrote. It writes when _append sends     *)
(* SIGNAL_HEALTH_UPDATED, which is after the counters and before the       *)
(* listeners of the ledger, the circuit breaker among them.                *)
(***************************************************************************)
EXTENDS ProbeCoordinator

VARIABLES
    platforms,  \* the sensor platform of the entry is loaded
    shown       \* the state and attributes each device's outcome sensor last wrote

sensorVars == <<coordinatorVars, platforms, shown>>

\* checked: how many records the device had, so which is its last_record.
Attributes ==
    [outcome : DeliveryOutcome, consecutive_failures : Nat, consecutive_timeouts : Nat,
     checked : Nat, circuit_open : BOOLEAN]

\* native_value and extra_state_attributes at the time of the signal. The breaker
\* hears of the record later in the same step. Slip: the counters are those before
\* the record.
ReadBefore(d) ==
    [outcome |-> health'[d].last_outcome,
     consecutive_failures |-> health[d].consecutive_failures,
     consecutive_timeouts |-> health[d].consecutive_timeouts,
     checked |-> Len(records'[d]),
     circuit_open |-> circuit[d] # None]
Read(d) ==
    [outcome |-> health'[d].last_outcome,
     consecutive_failures |-> health'[d].consecutive_failures,
     consecutive_timeouts |-> health'[d].consecutive_timeouts,
     checked |-> Len(records'[d]),
     circuit_open |-> circuit[d] # None]

\* Every record signals its device's sensors.
Signal ==
    shown' = [d \in Devices |->
       IF platforms /\ Len(records'[d]) > Len(records[d]) THEN Read(d) ELSE shown[d]]

\* async_unload_entry removes the sensors before it stops the coordinator.
UnloadPlatforms ==
    /\ platforms
    /\ platforms' = FALSE
    /\ UNCHANGED <<coordinatorVars, shown>>

SensorsInit ==
    /\ CoordinatorInit
    /\ platforms = TRUE
    /\ shown = [d \in Devices |->
         [outcome |-> "unknown", consecutive_failures |-> 0, consecutive_timeouts |-> 0,
          checked |-> 0, circuit_open |-> FALSE]]

WhileLoaded == (platforms => scheduled') /\ Signal /\ UNCHANGED platforms

SensorsNext == (CoordinatorNext /\ WhileLoaded) \/ UnloadPlatforms

SensorsSpec == SensorsInit /\ [][SensorsNext]_sensorVars

BoundedSensorsNext == (BoundedCoordinatorNext /\ WhileLoaded) \/ UnloadPlatforms

BoundedSensorsSpec == SensorsInit /\ [][BoundedSensorsNext]_sensorVars

-----------------------------------------------------------------------------
(* Properties. *)

\* A sensor shows the ledger's outcome, counters and last record, whatever wrote
\* them, and its circuit_open is behind the breaker by at most the last record: it
\* disagrees only if that was a probe's success or timeout (CastOutcomeSensor).
SensorsShowLedger ==
    platforms =>
       \A d \in Devices :
          LET log == records[d]
          IN  /\ shown[d].outcome = health[d].last_outcome
              /\ shown[d].consecutive_failures = health[d].consecutive_failures
              /\ shown[d].consecutive_timeouts = health[d].consecutive_timeouts
              /\ shown[d].checked = Len(log)
              /\ shown[d].circuit_open # (circuit[d] # None) =>
                    /\ log # <<>>
                    /\ log[Len(log)].source = "probe"
                    /\ log[Len(log)].outcome \in {"ok", "timeout"}
=============================================================================
