---------------------------- MODULE MCScheduler -----------------------------
(* Two resources: one with a group of two tasks and a queue that refuses,  *)
(* the other with a group of one task and a queue that drops.              *)
EXTENDS Scheduler

MCGroupSeq == <<"1s", "5s">>
MCEntries == [g \in Groups |-> IF g = "1s" THEN <<"a", "b">> ELSE <<"c">>]
MCResourceOf == [g \in Groups |-> IF g = "1s" THEN "plc" ELSE "meter"]
MCConcurrency == [r \in Resources |-> IF r = "plc" THEN 2 ELSE 1]
MCHighWater == [r \in Resources |-> IF r = "plc" THEN 2 ELSE 1]
MCStrategy == [r \in Resources |-> IF r = "plc" THEN "overflow" ELSE "leak"]
=============================================================================
