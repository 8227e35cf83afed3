-------------------------- MODULE DeliveryContract --------------------------
(***************************************************************************)
(* What Taktflow promises of a delivery: it is open until it is settled    *)
(* once, as delivered or as failed; a failed delivery leaves exactly one   *)
(* dead letter and a delivered one none.                                   *)
(***************************************************************************)
EXTENDS Naturals

CONSTANT Deliveries

VARIABLES outcome, letters

vars == <<outcome, letters>>

Init ==
    /\ outcome = [d \in Deliveries |-> "open"]
    /\ letters = [d \in Deliveries |-> 0]

Deliver(d) ==
    /\ outcome[d] = "open"
    /\ outcome' = [outcome EXCEPT ![d] = "delivered"]
    /\ UNCHANGED letters

GiveUp(d) ==
    /\ outcome[d] = "open"
    /\ outcome' = [outcome EXCEPT ![d] = "failed"]
    /\ letters' = [letters EXCEPT ![d] = @ + 1]

Next == \E d \in Deliveries : Deliver(d) \/ GiveUp(d)

Spec == Init /\ [][Next]_vars
=============================================================================
