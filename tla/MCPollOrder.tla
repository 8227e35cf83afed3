---------------------------- MODULE MCPollOrder ----------------------------
(* Instances of PollOrder for TLC: two rows to push, one nobody pulls.       *)
EXTENDS PollOrder

CONSTANTS p1, p2, q1
=============================================================================
