------------------------------- MODULE Limiter ------------------------------
(***************************************************************************)
(* A limiter: packages/api/tasks/src/Limiter/Limiter.ts and the state      *)
(* handler that it extends.  It runs the jobs of its queue, at most        *)
(* Concurrency of them at a time and with a delay between them.            *)
(*                                                                         *)
(* nextJobExecution is an async function that calls itself: each call that *)
(* has not returned is a chain.  One chain at most has the thread (turn):  *)
(* it is about to look for a job, or the function of the job that it just  *)
(* started makes its first, synchronous part.  The others await the job    *)
(* that took the last slot (awaiting) or wait for the delay (delaying).    *)
(* Chains start in start() and in the callbacks of setImmediate that the   *)
(* events 'seed' and 'refill' queue (immediates).  Promise continuations   *)
(* run before the next timer or immediate.                                 *)
(*                                                                         *)
(* The client calls between the turns, or from the first part of a job;    *)
(* only a start() from there, a chain inside a chain, is left out.         *)
(*                                                                         *)
(* A job is a task handler that is scheduled once, with the default retry  *)
(* strategy; module TaskHandler has the handler.                           *)
(***************************************************************************)
EXTENDS JobQueue

CONSTANTS
  Concurrency,   \* options.concurrency
  HasDelay,      \* options.delay > 0
  AutoStart,     \* options.autoStart
  ClientOps,     \* which of start, stop, clear and waitUntilEmpty are called
  Cancellable    \* the jobs whose handler may be cancelled

ASSUME LimiterAssumption ==
  /\ Concurrency \in Nat \ {0}
  /\ HasDelay \in BOOLEAN
  /\ AutoStart \in BOOLEAN
  /\ ClientOps \subseteq {"start", "stop", "clear", "waitUntilEmpty"}
  /\ Cancellable \subseteq Jobs /\ IsFiniteSet(Cancellable)

VARIABLES
  limiterState,  \* only whether it is "stopped" matters to the code
  concurrency,   \* the counter behind pending
  onDelayTime,   \* the flag that keeps events from starting a chain
  immediates,    \* callbacks of setImmediate that are still to run
  turn,          \* what the chain that has the thread does, if there is one
  awaiting,      \* the jobs that a chain awaits
  delaying,      \* number of chains that wait for the delay
  scheduled,     \* the jobs given to schedule() or execute()
  listening,     \* the jobs whose 'done' the limiter still listens to
  started,       \* the jobs whose execute() was called
  running,       \* those whose function has not settled
  cancelled,     \* the jobs cancelled while the limiter was listening
  waiting        \* is a promise of waitUntilEmpty() pending?

chainVars == <<onDelayTime, immediates, turn, awaiting, delaying>>
jobVars == <<scheduled, listening, started, running, cancelled>>
vars == <<queueVars, limiterState, concurrency, chainVars, jobVars, waiting>>

TypeOK ==
  /\ QueueTypeOK
  /\ limiterState \in {"stopped", "idle", "starting"}
  /\ concurrency \in Int
  /\ onDelayTime \in BOOLEAN
  /\ immediates \in Nat
  /\ turn \in {"idle", "looking", "started"}
  /\ awaiting \subseteq Jobs
  /\ delaying \in Nat
  /\ scheduled \subseteq Jobs
  /\ listening \subseteq scheduled
  /\ started \subseteq scheduled
  /\ running \subseteq started
  /\ cancelled \subseteq scheduled
  /\ waiting \in BOOLEAN

Init ==
  /\ QueueInit
  /\ limiterState = IF AutoStart THEN "idle" ELSE "stopped"
  /\ concurrency = 0
  /\ onDelayTime = FALSE
  /\ immediates = 0
  /\ turn = "idle"
  /\ awaiting = {}
  /\ delaying = 0
  /\ scheduled = {}
  /\ listening = {}
  /\ started = {}
  /\ running = {}
  /\ cancelled = {}
  /\ waiting = FALSE
-----------------------------------------------------------------------------
(* Mutant: one job too many. *)
AtCapacityLate == concurrency > Concurrency

AtCapacity == concurrency >= Concurrency

CanProcessMore == ~AtCapacity /\ queue # <<>> /\ limiterState # "stopped"

(* Continuations of promises run before timers and immediates. *)
BetweenTasks == turn = "idle" /\ awaiting \subseteq running

(* No client runs while a chain looks for a job. *)
ClientRuns == turn # "looking"

(* Mutant: 'and' for 'or'. *)
WakeUpIdle ==
  immediates' = IF concurrency = 0 /\ queue' # <<>> /\ ~onDelayTime
                THEN immediates + 1
                ELSE immediates

(* The queue emitted 'seed' or 'refill': onEnqueueEvent. *)
WakeUp ==
  immediates' = IF (concurrency = 0 \/ queue' # <<>>) /\ ~onDelayTime
                THEN immediates + 1
                ELSE immediates

(* Mutant: what runs is forgotten. *)
NotifyWaiterQueued == waiting' = (waiting /\ queue' # <<>>)

(* The limiter emitted 'done': the listener of waitUntilEmpty looks. *)
NotifyWaiter == waiting' = (waiting /\ ~(queue' = <<>> /\ concurrency' = 0))

(* Mutants: the limiter listens again and again; it emits 'done' before it *)
(* gives back the slot.                                                    *)
DoneAgain(job) ==
  /\ concurrency' = concurrency - 1
  /\ listening' = listening \ {job}
  /\ NotifyWaiter

DoneEarly(job) ==
  IF job \in listening
  THEN /\ concurrency' = concurrency - 1
       /\ listening' = listening \ {job}
       /\ waiting' = (waiting /\ ~(queue' = <<>> /\ concurrency = 0))
  ELSE UNCHANGED <<concurrency, listening, waiting>>

(* The handler emitted 'done'.  The limiter listens once. *)
Done(job) ==
  IF job \in listening
  THEN /\ concurrency' = concurrency - 1
       /\ listening' = listening \ {job}
       /\ NotifyWaiter
  ELSE UNCHANGED <<concurrency, listening, waiting>>
-----------------------------------------------------------------------------
(***************************************************************************)
(* What the client calls.                                                  *)
(***************************************************************************)

(* schedule(job) or execute(job): they differ in the promise of execute(), *)
(* which is pending as long as the limiter listens.  A job that the queue  *)
(* refuses is cancelled at once and does not count.                        *)
Schedule(job) ==
  /\ ClientRuns
  /\ job \notin scheduled
  /\ scheduled' = scheduled \union {job}
  /\ UNCHANGED <<limiterState, concurrency, onDelayTime, turn, awaiting,
                 delaying, started, running, cancelled>>
  /\ \/ /\ Accept(job)
        /\ listening' = listening \union {job}
        /\ IF Seeds THEN WakeUp ELSE UNCHANGED immediates
        /\ UNCHANGED waiting
     \/ /\ Reject(job)
        /\ NotifyWaiter
        /\ UNCHANGED <<listening, immediates>>

(* job.cancel(): the handler emits 'done'.  Neither does the job leave the *)
(* queue nor does its function stop.                                       *)
Cancel(job) ==
  /\ ClientRuns
  /\ job \in Cancellable \intersect listening
  /\ cancelled' = cancelled \union {job}
  /\ UNCHANGED <<queueVars, limiterState, chainVars, scheduled, started, running>>
  /\ Done(job)

Start ==
  /\ "start" \in ClientOps
  /\ turn = "idle"
  /\ limiterState' = "starting"
  /\ turn' = "looking"
  /\ UNCHANGED <<queueVars, concurrency, onDelayTime, immediates, awaiting,
                 delaying, jobVars, waiting>>

Stop ==
  /\ "stop" \in ClientOps
  /\ ClientRuns
  /\ limiterState' = "stopped"
  /\ UNCHANGED <<queueVars, concurrency, chainVars, jobVars, waiting>>

ClearQueue ==
  /\ "clear" \in ClientOps
  /\ ClientRuns
  /\ Clear
  /\ UNCHANGED <<limiterState, concurrency, chainVars, jobVars, waiting>>

(* It returns at once when there is nothing to wait for. *)
WaitUntilEmpty ==
  /\ "waitUntilEmpty" \in ClientOps
  /\ ClientRuns
  /\ ~(queue = <<>> /\ concurrency = 0)
  /\ waiting' = TRUE
  /\ UNCHANGED <<queueVars, limiterState, concurrency, chainVars, jobVars>>
-----------------------------------------------------------------------------
(***************************************************************************)
(* The chains.                                                             *)
(***************************************************************************)

(* What a chain does after the job that it started: wait, or go on. *)
Pause ==
  IF HasDelay
  THEN onDelayTime' = TRUE /\ delaying' = delaying + 1 /\ turn' = "idle"
  ELSE UNCHANGED <<onDelayTime, delaying>> /\ turn' = "looking"

RunImmediate ==
  /\ BetweenTasks
  /\ immediates > 0
  /\ immediates' = immediates - 1
  /\ turn' = "looking"
  /\ UNCHANGED <<queueVars, limiterState, concurrency, onDelayTime, awaiting,
                 delaying, jobVars, waiting>>

(* nextJobExecution finds a job.  The one that takes the last slot is      *)
(* awaited, the others are left to run.                                    *)
StartJob(job) ==
  /\ turn = "looking"
  /\ CanProcessMore
  /\ Dequeue(job)
  /\ concurrency' = concurrency + 1
  /\ started' = started \union {job}
  /\ running' = running \union {job}
  /\ IF AtCapacity'
     THEN awaiting' = awaiting \union {job} /\ turn' = "idle"
     ELSE UNCHANGED awaiting /\ turn' = "started"
  /\ UNCHANGED <<limiterState, onDelayTime, immediates, delaying, scheduled, listening,
                 cancelled, waiting>>

(* The first part of the job is over, and the chain does not await the rest. *)
LeaveJob ==
  /\ turn = "started"
  /\ Pause
  /\ UNCHANGED <<queueVars, limiterState, concurrency, immediates, awaiting,
                 jobVars, waiting>>

(* nextJobExecution returns: nothing can be processed, or no tokens. *)
EndChain ==
  /\ turn = "looking"
  /\ ~CanProcessMore \/ OutOfTokens
  /\ turn' = "idle"
  /\ UNCHANGED <<queueVars, limiterState, concurrency, onDelayTime, immediates,
                 awaiting, delaying, jobVars, waiting>>

(* The function of a job settles; the handler emits 'done'. *)
Settle(job) ==
  /\ turn = "idle"
  /\ job \in running
  /\ running' = running \ {job}
  /\ UNCHANGED <<queueVars, limiterState, chainVars, scheduled, started, cancelled>>
  /\ Done(job)

(* The await on runTask is over. *)
Resume(job) ==
  /\ turn = "idle"
  /\ job \in awaiting \ running
  /\ awaiting' = awaiting \ {job}
  /\ Pause
  /\ UNCHANGED <<queueVars, limiterState, concurrency, immediates, jobVars, waiting>>

DelayOver ==
  /\ BetweenTasks
  /\ delaying > 0
  /\ delaying' = delaying - 1
  /\ onDelayTime' = FALSE
  /\ turn' = "looking"
  /\ UNCHANGED <<queueVars, limiterState, concurrency, immediates, awaiting,
                 jobVars, waiting>>

Refill ==
  /\ BetweenTasks
  /\ RefillBucket
  /\ IF Refills THEN WakeUp ELSE UNCHANGED immediates
  /\ UNCHANGED <<limiterState, concurrency, onDelayTime, turn, awaiting,
                 delaying, jobVars, waiting>>

PenaltyOver ==
  /\ BetweenTasks
  /\ Unblock
  /\ UNCHANGED <<limiterState, concurrency, chainVars, jobVars, waiting>>
-----------------------------------------------------------------------------
Next ==
  \/ \E job \in Jobs :
       \/ Schedule(job) \/ Cancel(job)
       \/ StartJob(job) \/ Settle(job) \/ Resume(job)
  \/ Start \/ Stop \/ ClearQueue \/ WaitUntilEmpty
  \/ RunImmediate \/ LeaveJob \/ EndChain \/ DelayOver \/ Refill \/ PenaltyOver

(* A turn ends, timers fire, callbacks that are queued run, and every      *)
(* function settles: the watchdog of retry bounds each of its attempts.    *)
(* The event loop serves its phases in turn, so calls of the client that   *)
(* take turns in between (start() for ever) do not keep it from the rest:  *)
(* fairness is strong there.  No client has to call anything.              *)
Fairness ==
  /\ WF_vars(LeaveJob \/ EndChain \/ \E job \in Jobs : StartJob(job))
  /\ SF_vars(\E job \in Jobs : Settle(job) \/ Resume(job))
  /\ SF_vars(RunImmediate \/ DelayOver)
  /\ SF_vars(Refill)
  /\ SF_vars(PenaltyOver)

Spec == Init /\ [][Next]_vars
FairSpec == Spec /\ Fairness
-----------------------------------------------------------------------------
(***************************************************************************)
(* Properties.                                                             *)
(***************************************************************************)

(* No job is too heavy to leave the queue. *)
WeightsFit == BucketSize = 0 \/ \A job \in Jobs : Weight[job] <= BucketSize

(* Neither clear() nor a penalty has emptied the queue, and with it        *)
(* cancelled the refill timer.                                             *)
QueueKept ==
  IF BucketSize > 0
  THEN refillTimer
  ELSE "clear" \notin ClientOps /\ "block" \notin StrategyChoice

(* The counter behind pending and the capacity test is the number of jobs  *)
(* that run and were not cancelled, less the number of jobs that were      *)
(* cancelled before they started: the listener of a cancelled job gives    *)
(* back a slot that the job never had.                                     *)
CounterIsRunning ==
  concurrency = Cardinality(running \intersect listening)
                - Cardinality(cancelled \ started)

(* options.concurrency bounds the jobs that run together, but for one more *)
(* for every job that was cancelled.                                       *)
ConcurrencyBound == Cardinality(running) <= Concurrency + Cardinality(cancelled)

(* As long as no job was cancelled, a job that waits in a limiter that is  *)
(* not stopped is not forgotten: a callback is queued, a chain is delayed  *)
(* or awaits a job, or the refill timer will find room in the bucket.      *)
NoLostWakeup ==
  (/\ queue # <<>> /\ limiterState # "stopped" /\ turn = "idle"
   /\ cancelled = {} /\ QueueKept) =>
    \/ immediates > 0
    \/ delaying > 0
    \/ awaiting # {}
    \/ refillTimer /\ actualBucketSize < BucketSize

(* waitUntilEmpty resolves when nothing is queued and nothing runs, as     *)
(* long as no job was cancelled.                                           *)
ResolvesDrained ==
  [][waiting /\ ~waiting' /\ cancelled' = {} => queue' = <<>> /\ running' = {}]_vars

(* What both liveness properties need: the limiter is not stopped for      *)
(* good, and the queue is not emptied behind its back.                     *)
GoesOn == <>[](limiterState # "stopped") /\ []QueueKept

(* waitUntilEmpty resolves, unless a cancelled job upsets the counter. *)
WaiterResolves ==
  (GoesOn /\ [](cancelled = {})) => (waiting ~> ~waiting)

(* Every job that is queued starts or makes room for another one. *)
EveryJobStarts ==
  (GoesOn /\ [](cancelled = {})) =>
    \A job \in Jobs : job \in ToSet(queue) ~> job \notin ToSet(queue)

(* README.md: scheduled tasks "are added to the queue, and they will be    *)
(* executed when the limiter is ready to process them", whether or not     *)
(* other tasks are cancelled.                                              *)
StartsWhenReady ==
  GoesOn => \A job \in Jobs : job \in ToSet(queue) ~> job \notin ToSet(queue)

(* The limiter implements an executor, whose slots are its own and one     *)
(* more for every job that may be cancelled.                               *)
Abstract == INSTANCE Executor WITH
  Slots <- Concurrency + Cardinality(Cancellable),
  submitted <- scheduled, waiting <- ToSet(queue)

Implements == Abstract!Spec
=============================================================================
