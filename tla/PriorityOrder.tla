--------------------------- MODULE PriorityOrder ----------------------------
(***************************************************************************)
(* The order of the jobs in the queue of a limiter: descending priority.   *)
(***************************************************************************)
EXTENDS Integers, Sequences

CONSTANTS
  Jobs,      \* the task handlers
  Priority   \* TaskHandler.priority, a higher value is more important

ASSUME PriorityAssumption == Priority \in [Jobs -> Int]

Sorted(q) ==
  \A i, k \in 1..Len(q) : i < k => Priority[q[i]] >= Priority[q[k]]

(* Mutant: a job is put ahead of those that are as important. *)
InsertionPointAhead(q, job, n) ==
  /\ n \in 1..(Len(q) + 1)
  /\ \A i \in 1..(n - 1) : Priority[q[i]] > Priority[job]
  /\ \A i \in n..Len(q) : Priority[q[i]] <= Priority[job]

(* n is the position where job is inserted into q: behind every job that   *)
(* is at least as important, ahead of every job that is less important.    *)
InsertionPoint(q, job, n) ==
  /\ n \in 1..(Len(q) + 1)
  /\ \A i \in 1..(n - 1) : Priority[q[i]] >= Priority[job]
  /\ \A i \in n..Len(q) : Priority[q[i]] < Priority[job]

(* n is the position of the first job of q whose priority is at most p. *)
FirstAtMost(q, p, n) ==
  /\ n \in 1..Len(q)
  /\ Priority[q[n]] <= p
  /\ \A i \in 1..(n - 1) : Priority[q[i]] > p
=============================================================================
