------------------------------- MODULE MCTenancy ------------------------------
(***************************************************************************)
(* An instance of Tenancy for TLC: a topic and a consumer of each tenant.  *)
(* Its behaviours are of two kinds, each of them one of Tenancy's: in some *)
(* there is a schedule, one delivery, and nobody pauses or deletes the     *)
(* second consumer; in the others there is a second delivery, to replay    *)
(* the first, no schedule, and nothing is deleted but the first consumer.  *)
(***************************************************************************)
EXTENDS Tenancy, TLC

CONSTANTS a, b, p1, p2, c1, c2, d2

MCTopicOwner == [p \in Topics |-> IF p = p1 THEN a ELSE b]
MCFirstOn    == [c \in Consumers |-> IF c = c1 THEN p1 ELSE p2]

VARIABLE kind

Scheduled == kind = "scheduled" /\ owner'[d2] = NoTenant /\ c2 \notin paused' \cup deleted'
Replayed ==
    /\ kind = "replayed" /\ \A s \in Schedules : owner'[s] = NoTenant
    /\ paused' = {} /\ deleted' \subseteq {c1}

TwoKindsInit == kind \in {"scheduled", "replayed"} /\ Init
TwoKindsNext == Next /\ (Scheduled \/ Replayed) /\ UNCHANGED kind

TwoKinds == TwoKindsInit /\ [][TwoKindsNext]_<<kind, vars>>

\* Requests and jobs differ in nothing.
Interchangeable == Permutations(Tasks)
=============================================================================
