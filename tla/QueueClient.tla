----------------------------- MODULE QueueClient ----------------------------
(***************************************************************************)
(* A job queue and the one who uses it: every job is offered once, the     *)
(* queue is drained and, where MayClear allows it, cleared.  The history   *)
(* variables hold what the properties compare the queue with; the queue    *)
(* itself (module JobQueue) does not see them.                             *)
(***************************************************************************)
EXTENDS JobQueue

CONSTANT MayClear   \* does the client call clear()?

ASSUME ClientAssumption == MayClear \in BOOLEAN

VARIABLES
  offered,    \* the jobs that enqueue() was called with
  accepted,   \* those it answered true to, in that order
  spent,      \* tokens taken out of the bucket since the start
  refills     \* times the refill timer found room in the bucket

historyVars == <<offered, accepted, spent, refills>>
clientVars == <<queueVars, historyVars>>

ClientTypeOK ==
  /\ QueueTypeOK
  /\ offered \subseteq Jobs
  /\ accepted \in Seq(Jobs)
  /\ spent \in Nat
  /\ refills \in Nat

ClientInit ==
  /\ QueueInit
  /\ offered = {}
  /\ accepted = <<>>
  /\ spent = 0
  /\ refills = 0

Offer(job) ==
  /\ job \notin offered
  /\ offered' = offered \union {job}
  /\ \/ Accept(job) /\ accepted' = Append(accepted, job)
     \/ Reject(job) /\ UNCHANGED accepted
  /\ UNCHANGED <<spent, refills>>

Drain(job) ==
  /\ Dequeue(job)
  /\ spent' = IF BucketSize = 0 THEN spent ELSE spent + Weight[job]
  /\ UNCHANGED <<offered, accepted, refills>>

Reset ==
  /\ MayClear
  /\ Clear
  /\ UNCHANGED historyVars

TimerRefills ==
  /\ RefillBucket
  /\ refills' = IF Refills THEN refills + 1 ELSE refills
  /\ UNCHANGED <<offered, accepted, spent>>

PenaltyEnds ==
  /\ Unblock
  /\ UNCHANGED historyVars

ClientNext ==
  \/ \E job \in Jobs : Offer(job) \/ Drain(job)
  \/ Reset
  \/ TimerRefills
  \/ PenaltyEnds

(* Timers fire, and the user of the queue keeps asking for the next job;   *)
(* nobody has to offer a job or to clear the queue.                        *)
ClientFairness ==
  /\ WF_clientVars(TimerRefills)
  /\ WF_clientVars(PenaltyEnds)
  /\ WF_clientVars(\E job \in Jobs : Drain(job))

ClientSpec == ClientInit /\ [][ClientNext]_clientVars
FairClient == ClientSpec /\ ClientFairness
-----------------------------------------------------------------------------
(* Index of a job in the order of acceptance. *)
Age(job) == CHOOSE n \in DOMAIN accepted : accepted[n] = job

(* The next job to leave is one of the most important, and among those the *)
(* one that was accepted first: enqueue is stable, whatever was dropped.   *)
PriorityThenAge ==
  \A i, k \in 1..Len(queue) : i < k =>
    \/ Priority[queue[i]] > Priority[queue[k]]
    \/ /\ Priority[queue[i]] = Priority[queue[k]]
       /\ Age(queue[i]) < Age(queue[k])

(* The bucket limits the rate: what was taken out of it, and what is left, *)
(* is no more than the first bucket and what the timer put in.  Only the   *)
(* clear() that cancels the timer gives tokens away, and one bucketful.    *)
RateBound ==
  BucketSize > 0 =>
    spent + actualBucketSize
      <= BucketSize + TokensPerInterval * refills
         + (IF refillTimer THEN 0 ELSE BucketSize)

(* A full queue that drops a job to take in another one drops a job that   *)
(* is less important than the new one (strategy 'overflow-priority').      *)
DropsLessImportant ==
  [][\A job \in Jobs :
       (job \in offered' \ offered /\ strategy = "overflow-priority") =>
       \A other \in ToSet(queue) \ ToSet(queue') :
         Priority[other] < Priority[job]]_clientVars

(* QueueOptions.i.ts says that tokens are added to the bucket every        *)
(* interval: a bucket with room does not stay as it is for ever.           *)
BucketIsRefilled == actualBucketSize < BucketSize ~> actualBucketSize = BucketSize

(* As long as nothing cancels the refill timer, a job that was accepted    *)
(* leaves the queue: the bucket is refilled until it holds the tokens of   *)
(* the job in front, and only finitely many jobs get in front of another.  *)
(* No job may weigh more than the bucket holds.                            *)
EveryJobLeaves ==
  [](BucketSize > 0 => refillTimer) =>
    \A job \in Jobs : job \in ToSet(queue) ~> job \notin ToSet(queue)
=============================================================================
