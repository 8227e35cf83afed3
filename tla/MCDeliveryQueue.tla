-------------------------- MODULE MCDeliveryQueue --------------------------
(* Instances of DeliveryQueue for TLC.                                       *)
EXTENDS DeliveryQueue, TLC

CONSTANTS d1, d2, d3, e1, e2, c1, c2

\* One event for two consumers; d3 is a late row for the first of them.
OneEvent == [d \in Deliveries |-> e1]
OnePerConsumer == [d \in Deliveries |-> IF d = d2 THEN c2 ELSE c1]

\* Both rows are of one consumer.
OneConsumer == [d \in Deliveries |-> c1]

\* The events of the two rows are apart.
OneRowPerEvent == [d \in Deliveries |-> IF d = d1 THEN e1 ELSE e2]

\* Workers are interchangeable (used for safety only).
WorkerSymmetry == Permutations(Workers)
=============================================================================
