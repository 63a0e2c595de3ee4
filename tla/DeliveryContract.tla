-------------------------- MODULE DeliveryContract --------------------------
(***************************************************************************)
(* What the outbox promises about one delivery identity, whatever the      *)
(* number of dispatchers, retries and crashes: its public state and the    *)
(* messages the platform has delivered for it.                             *)
(*                                                                         *)
(* Source: DeliveryState and the DeliveryRepository protocol as the rest   *)
(* of the system relies on them.                                           *)
(***************************************************************************)
EXTENDS Naturals

CONSTANT Events

VARIABLES state, delivered

contract == <<state, delivered>>

Init ==
    /\ state = [e \in Events |-> "NONE"]
    /\ delivered = [e \in Events |-> 0]

\* One event's step: its state goes from s to t while its deliveries go from m to n.
Step(s, t, m, n) ==
    \/ s = t /\ m = n
    \* registered by a collection
    \/ s = "NONE" /\ t = "PENDING" /\ m = n
    \* an attempt starts, or the event is given up without one
    \/ s \in {"PENDING", "FAILED"} /\ t \in {"SENDING", "FAILED", "CANCELLED"} /\ m = n
    \* the one delivery, during an attempt
    \/ s = "SENDING" /\ t = "SENDING" /\ m = 0 /\ n = 1
    \* the attempt is settled in agreement with what happened
    \/ s = "SENDING" /\ t = "SENT" /\ m = 1 /\ n = 1
    \/ s = "SENDING" /\ t \in {"FAILED", "CANCELLED"} /\ m = 0 /\ n = 0
    \/ s = "SENDING" /\ t = "UNKNOWN" /\ m = n

Next ==
    /\ state' \in [Events -> {"NONE", "PENDING", "SENDING", "FAILED", "SENT",
                             "UNKNOWN", "CANCELLED"}]
    /\ delivered' \in [Events -> {0, 1}]
    /\ \A e \in Events : Step(state[e], state'[e], delivered[e], delivered'[e])

Spec == Init /\ [][Next]_contract
=============================================================================
