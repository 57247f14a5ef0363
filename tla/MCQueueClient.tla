--------------------------- MODULE MCQueueClient ----------------------------
(* Small instances of QueueClient: five jobs of three priorities.          *)
EXTENDS QueueClient

MCJobs == 1..5
MCPriority == <<1, 2, 1, 3, 2>>
MCWeight == <<1, 2, 1, 1, 2>>
=============================================================================
