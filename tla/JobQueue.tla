------------------------------ MODULE JobQueue ------------------------------
(***************************************************************************)
(* The queue of a limiter: packages/api/tasks/src/Limiter/Queue.ts.        *)
(*                                                                         *)
(* A queue holds the task handlers waiting to be executed, ordered by      *)
(* descending priority and, within a priority, by age.  What happens when  *)
(* it is full depends on its strategy.  When it has a token bucket, a job  *)
(* leaves the queue only if the bucket holds as many tokens as the job     *)
(* weighs; a timer puts tokens back.                                       *)
(*                                                                         *)
(* Every method of the class runs to its end without an await, so each one *)
(* is one action.  Events are not variables: 'seed' and 'refill', the two  *)
(* that a limiter listens to, are the predicates Seeds and Refills.        *)
(***************************************************************************)
EXTENDS PriorityOrder, FiniteSets, SequencesExt

CONSTANTS
  Weight,            \* TaskHandler.weight, the tokens a job takes to leave
  HighWater,         \* options.highWater
  StrategyChoice,    \* the values of options.strategy that are looked at
  BucketSize,        \* options.bucketSize, 0 when there is no rate limit
  TokensPerInterval  \* options.tokensPerInterval

Strategies == {"leak", "overflow", "overflow-priority", "block"}

(* What checkOptions demands of the options.  It says nothing of weights;  *)
(* a negative one would put tokens into the bucket and is left out here.   *)
ASSUME QueueAssumption ==
  /\ Weight \in [Jobs -> Nat]
  /\ HighWater \in Nat \ {0}
  /\ StrategyChoice \subseteq Strategies
  /\ BucketSize \in Nat
  /\ TokensPerInterval \in Nat
  /\ BucketSize > 0 => TokensPerInterval \in 1..BucketSize

VARIABLES
  queue,             \* the waiting jobs, the next one to leave first
  actualBucketSize,  \* tokens left in the bucket
  refillTimer,       \* is the timer that refills the bucket armed?
  blocked,           \* the penalty of strategy 'block' is running
  strategy           \* options.strategy, which does not change

queueVars == <<queue, actualBucketSize, refillTimer, blocked, strategy>>

QueueTypeOK ==
  /\ queue \in Seq(Jobs)
  /\ actualBucketSize \in 0..BucketSize
  /\ refillTimer \in BOOLEAN
  /\ blocked \in BOOLEAN
  /\ strategy \in Strategies

QueueInit ==
  /\ queue = <<>>
  /\ actualBucketSize = BucketSize
  /\ refillTimer = (BucketSize > 0)
  /\ blocked = FALSE
  /\ strategy \in StrategyChoice
-----------------------------------------------------------------------------
(***************************************************************************)
(* Operations of the class.                                                *)
(***************************************************************************)

(* The code appends when the last job is at least as important and makes a *)
(* binary search otherwise; module LowerBound shows that both end at the   *)
(* insertion point.                                                        *)
Insert(q, job) ==
  \E n \in 1..(Len(q) + 1) :
    /\ InsertionPoint(q, job, n)
    /\ queue' = InsertAt(q, n, job)

(* Mutant: a job as important as the new one may be dropped. *)
DropThresholdEqual(job) ==
  IF strategy = "leak" THEN Priority[queue[1]] ELSE Priority[job]

(* The priority up to which dropByPriory takes a job out of the full queue *)
(* to make room for job.                                                   *)
DropThreshold(job) ==
  IF strategy = "leak" THEN Priority[queue[1]] ELSE Priority[job] - 1

Full == Len(queue) >= HighWater

(* Mutant: the tokens come back though no timer runs. *)
EmptyGivesTokens ==
  /\ queue' = <<>>
  /\ refillTimer' = FALSE
  /\ actualBucketSize' = BucketSize

(* clear() forgets the jobs, gives the bucket all its tokens and cancels   *)
(* the refill timer, which nothing arms again.                             *)
Empty ==
  /\ queue' = <<>>
  /\ refillTimer' = FALSE
  /\ actualBucketSize' = IF refillTimer THEN BucketSize ELSE actualBucketSize

Clear == Empty /\ UNCHANGED <<blocked, strategy>>

(* handleQueueStrategy answers true and the job is inserted. *)
Accept(job) ==
  /\ ~blocked
  /\ \/ ~Full /\ Insert(queue, job)
     \/ /\ Full
        /\ strategy \in {"leak", "overflow-priority"}
        /\ \E n \in 1..Len(queue) :
             /\ FirstAtMost(queue, DropThreshold(job), n)
             /\ Insert(RemoveAt(queue, n), job)
  /\ UNCHANGED <<actualBucketSize, refillTimer, blocked, strategy>>

(* handleQueueStrategy answers false: the queue is blocked, or it is full  *)
(* and the strategy makes no room.  Strategy 'block' also empties the      *)
(* queue and starts the penalty.                                           *)
Reject(job) ==
  \/ blocked /\ UNCHANGED queueVars
  \/ ~blocked /\ Full /\ strategy = "overflow" /\ UNCHANGED queueVars
  \/ /\ ~blocked /\ Full /\ strategy = "overflow-priority"
     /\ \A i \in 1..Len(queue) : Priority[queue[i]] > DropThreshold(job)
     /\ UNCHANGED queueVars
  \/ /\ ~blocked /\ Full /\ strategy = "block"
     /\ Empty
     /\ blocked' = TRUE
     /\ UNCHANGED strategy

(* Mutant: the last token is never spent. *)
TakeTokensButOne(weight) ==
  IF BucketSize = 0
  THEN UNCHANGED actualBucketSize
  ELSE /\ actualBucketSize > weight
       /\ actualBucketSize' = actualBucketSize - weight

(* checkAndDecrementBucketSize answers true. *)
TakeTokens(weight) ==
  IF BucketSize = 0
  THEN UNCHANGED actualBucketSize
  ELSE /\ actualBucketSize >= weight
       /\ actualBucketSize' = actualBucketSize - weight

(* Mutant: pop() for shift(). *)
DequeueLast(job) ==
  /\ queue # <<>>
  /\ job = Last(queue)
  /\ TakeTokens(Weight[job])
  /\ queue' = Front(queue)
  /\ UNCHANGED <<refillTimer, blocked, strategy>>

(* dequeue() on a queue that is not empty; it answers undefined, and       *)
(* changes nothing, when the first job weighs more than the bucket holds.  *)
Dequeue(job) ==
  /\ queue # <<>>
  /\ job = Head(queue)
  /\ TakeTokens(Weight[job])
  /\ queue' = Tail(queue)
  /\ UNCHANGED <<refillTimer, blocked, strategy>>

OutOfTokens ==
  /\ queue # <<>>
  /\ BucketSize > 0
  /\ actualBucketSize < Weight[Head(queue)]

(* The refill timer fires; it arms itself again. *)
RefillBucket ==
  /\ refillTimer
  /\ actualBucketSize' =
       IF actualBucketSize + TokensPerInterval < BucketSize
       THEN actualBucketSize + TokensPerInterval
       ELSE BucketSize
  /\ UNCHANGED <<queue, refillTimer, blocked, strategy>>

(* The penalty timer fires.  There is one timer at most, because a blocked *)
(* queue refuses a job before it looks at its strategy.                    *)
Unblock ==
  /\ blocked
  /\ blocked' = FALSE
  /\ UNCHANGED <<queue, actualBucketSize, refillTimer, strategy>>
-----------------------------------------------------------------------------
(***************************************************************************)
(* The events a limiter listens to, as predicates on a step.               *)
(***************************************************************************)

(* enqueue() emits 'seed' when the queue holds one job after an insertion. *)
Seeds == Len(queue') = 1

(* Mutant: 'refill' for 'seed' of an empty bucket. *)
RefillsEmpty == actualBucketSize = 0

(* refillBucket emits 'refill' only when there is room for tokens. *)
Refills == actualBucketSize < BucketSize
-----------------------------------------------------------------------------
(* The queue never holds a job behind a less important one: enqueue and    *)
(* handleQueueStrategy, whatever they drop first, keep the order that the  *)
(* binary search relies on.                                                *)
SortedByPriority == Sorted(queue)

(* The queue never holds more jobs than highWater, though strategy 'leak'  *)
(* lets every job in: dropByPriory always finds one to drop.               *)
WithinHighWater == Len(queue) <= HighWater

(* While the penalty of strategy 'block' runs there is no job in the       *)
(* queue: nothing waits behind a queue that refuses everything.            *)
BlockedIsEmpty == blocked => queue = <<>>
=============================================================================
