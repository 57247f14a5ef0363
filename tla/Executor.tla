------------------------------ MODULE Executor ------------------------------
(***************************************************************************)
(* What a limiter promises to the ones who use it: it runs jobs, each one  *)
(* at most once, no more than Slots of them at a time, and a job starts    *)
(* only when no waiting job is more important.  It may drop jobs that have *)
(* not started.  Nothing is said of how it finds the next job, of rates    *)
(* and of delays.                                                          *)
(***************************************************************************)
EXTENDS Integers, FiniteSets

CONSTANTS
  Jobs,       \* the jobs
  Priority,   \* their priorities
  Slots       \* how many of them may run together

VARIABLES
  submitted,  \* the jobs that were given to the executor
  waiting,    \* those that wait
  running     \* those that run

vars == <<submitted, waiting, running>>

Init == submitted = {} /\ waiting = {} /\ running = {}

(* A job arrives; it, or others that wait, may be dropped. *)
Submit(job) ==
  /\ job \notin submitted
  /\ submitted' = submitted \union {job}
  /\ waiting' \in SUBSET (waiting \union {job})
  /\ UNCHANGED running

Drop ==
  /\ waiting' = {}
  /\ UNCHANGED <<submitted, running>>

Run(job) ==
  /\ job \in waiting
  /\ \A other \in waiting : Priority[other] <= Priority[job]
  /\ Cardinality(running) < Slots
  /\ waiting' = waiting \ {job}
  /\ running' = running \union {job}
  /\ UNCHANGED submitted

Finish(job) ==
  /\ job \in running
  /\ running' = running \ {job}
  /\ UNCHANGED <<submitted, waiting>>

Next ==
  \/ \E job \in Jobs : Submit(job) \/ Run(job) \/ Finish(job)
  \/ Drop

Spec == Init /\ [][Next]_vars
=============================================================================
