--------------------------- MODULE DeliveryPromise ---------------------------
(***************************************************************************)
(* What the delivery ledger promises, without saying how: every request a  *)
(* caller begins on a device gets exactly one verdict, for good; at most   *)
(* one request per device is still waiting, and it is the newest; a newer  *)
(* request settles the waiting one as "unknown", and nothing else does.    *)
(***************************************************************************)
EXTENDS DeliveryOutcomes, Naturals, Sequences

CONSTANT Devices

VARIABLE verdict    \* verdict[d][i]: what became of the i-th request on d

Waiting(d) == verdict[d] # <<>> /\ verdict[d][Len(verdict[d])] = "waiting"

Settle(d, outcome) ==
    IF Waiting(d) THEN [verdict[d] EXCEPT ![Len(verdict[d])] = outcome]
                  ELSE verdict[d]

Init == verdict = [d \in Devices |-> <<>>]

Ask(d) ==
    verdict' = [verdict EXCEPT ![d] = Append(Settle(d, "unknown"), "waiting")]

Answer(d) ==
    /\ Waiting(d)
    /\ \E outcome \in DeliveryOutcome \ {"unknown"} :
          verdict' = [verdict EXCEPT ![d] = Settle(d, outcome)]

Next == \E d \in Devices : Ask(d) \/ Answer(d)

Spec == Init /\ [][Next]_verdict
=============================================================================
