----------------------------- MODULE LowerBound -----------------------------
(***************************************************************************)
(* Where enqueue puts a job: Queue.lowerBound and the test before it, in   *)
(* packages/api/tasks/src/Limiter/Queue.ts.  The loop is a state machine,  *)
(* one step per iteration, so that what it computes can be proved for      *)
(* queues of any length (module JobQueue_proofs).                          *)
(***************************************************************************)
EXTENDS PriorityOrder, SequencesExt

CONSTANT MaxLength   \* bound on the queues that Init enumerates

ASSUME LengthAssumption == MaxLength \in Nat

VARIABLES
  array,   \* the queue, which the search does not change
  sought,  \* the job to insert
  first,   \* the local variables of lowerBound; array is indexed from 0
  count

searchVars == <<array, sought, first, count>>

SearchTypeOK ==
  /\ array \in Seq(Jobs)
  /\ sought \in Jobs
  /\ first \in 0..Len(array)
  /\ count \in 0..Len(array)

(* enqueue pushes the job when the last one is at least as important, and  *)
(* searches otherwise.                                                     *)
StartSearch ==
  /\ array \in BoundedSeq(Jobs, MaxLength)
  /\ Sorted(array)
  /\ sought \in Jobs
  /\ IF array # <<>> /\ Priority[array[Len(array)]] >= Priority[sought]
     THEN first = Len(array) /\ count = 0
     ELSE first = 0 /\ count = Len(array)

(* Mutants of the loop: an equal job is passed on the wrong side, the left *)
(* half keeps its end.                                                     *)
IterateStrict ==
  /\ count > 0
  /\ LET step == count \div 2
         it   == first + step
     IN  IF Priority[sought] - Priority[array[it + 1]] < 0
         THEN first' = it + 1 /\ count' = count - (step + 1)
         ELSE first' = first /\ count' = step
  /\ UNCHANGED <<array, sought>>

IterateLong ==
  /\ count > 0
  /\ LET step == count \div 2
         it   == first + step
     IN  IF Priority[sought] - Priority[array[it + 1]] <= 0
         THEN first' = it + 1 /\ count' = count - (step + 1)
         ELSE first' = first /\ count' = step + 1
  /\ UNCHANGED <<array, sought>>

(* One iteration: the comparator of enqueue is b.priority - a.priority. *)
Iterate ==
  /\ count > 0
  /\ LET step == count \div 2
         it   == first + step
     IN  IF Priority[sought] - Priority[array[it + 1]] <= 0
         THEN first' = it + 1 /\ count' = count - (step + 1)
         ELSE first' = first /\ count' = step
  /\ UNCHANGED <<array, sought>>

SearchSpec == StartSearch /\ [][Iterate]_searchVars
FairSearch == SearchSpec /\ WF_searchVars(Iterate)
-----------------------------------------------------------------------------
(* When the search is over, splice(first, 0, job) keeps the queue ordered: *)
(* behind the jobs that are as important, ahead of the others.             *)
FindsInsertionPoint == count = 0 => InsertionPoint(array, sought, first + 1)

(* The loop halves what is left to search: it ends. *)
Terminates == <>(count = 0)
=============================================================================
