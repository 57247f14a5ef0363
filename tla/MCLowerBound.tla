---------------------------- MODULE MCLowerBound ----------------------------
(* Four jobs of three priorities, queues of up to five of them. *)
EXTENDS LowerBound

MCJobs == 1..4
MCPriority == <<1, 2, 2, 3>>
=============================================================================
