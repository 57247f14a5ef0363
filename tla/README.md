# Verification of mdf.js

TLA+ models of the parts of mdf.js that decide *when* and *in which order*
things happen: the task limiter and its queue, the task handlers with their
retries, the scheduler with its polling groups, the provider state machine, the
firehose, the OpenC2 gateway, the registries of a cluster, and the ports of seven
providers. Each module is translated from the TypeScript source; TLC checks small instances, TLAPS proves some of the
results for every instance. Paths below are relative to `src/packages/`.

## 1. The system

mdf.js is a monorepo of packages for industrial data services. All the code
runs on the event loop of Node.js: a function runs without interruption up to
its end or its next `await`, so one action of a model is one such piece of
code, and interleaving happens at awaits, timers, `setImmediate` callbacks and
events of `EventEmitter`s (whose listeners run synchronously).

| component | where | state | operations | interacts with |
|---|---|---|---|---|
| job queue | `api/tasks/src/Limiter/Queue.ts` | ordered array of handlers, token bucket, refill timer, penalty flag | enqueue, dequeue, clear, refill and penalty timers | owned by a limiter, tells it `seed` and `refill` |
| limiter | `api/tasks/src/Limiter/Limiter.ts`, `LimiterStateHandler.ts` | state, counter of running jobs, delay flag, pending chains of `nextJobExecution` | schedule, execute, start, stop, clear, waitUntilEmpty, pipe | executes task handlers, listens to their `done` |
| task handlers | `api/tasks/src/Tasks` | status, result, collected results and errors (groups) | execute, cancel | `retry`, nested handlers |
| retry | `api/utils/src/retry/retry.ts` | attempt counter, abort promise, watchdog | retry, retryBind | any async function |
| polling, scheduler | `api/tasks/src/Polling`, `Scheduler` | pending task set, fast/slow/off lists, resources and their limiters | schedule, start, stop, add/drop resource | one limiter per resource, piped to a main limiter |
| provider manager | `api/core/src/Layer/Provider` | current state object, its listeners on the port, last error | start, stop, fail, close, events of the port | any `Port` (redis, mqtt, kafka, ...) |
| ports of the providers | `providers/{elastic,redis,mongo,mqtt,kafka,amqp,socket-client}/src` | flags, timers, requests under way, listeners on the library | start, stop, checks of the system | a client library, the provider manager |
| jobs | `api/core/src/Jobs` | pending confirmations, errors, status | done, addError | firehose, openc2-core |
| firehose | `api/firehose/src` | streams, open jobs, uncleaned entries, credits | read, write, start, stop | plugs of the user, jobs |
| openc2-core | `api/openc2-core/src` | registry of pending commands, consumer map, timers | command, lookup, start, stop | an adapter of the network, jobs |
| service registry | `components/service-registry/src` | registries of errors and health of master and workers | start, stop, polling of the workers | cluster messages |
| the rest | crash, logger, doorkeeper, faker, middlewares, utils, service-setup, adapters and the other providers | mostly data | formatting, validation, thin wrappers | third-party packages |

What makes each one correct:

* queue: descending priority and age order under every strategy; never more
  than `highWater` jobs; no more tokens spent than the bucket was given; a
  drop hits a less important job; every job leaves as long as the bucket is
  refilled.
* limiter: no more than `concurrency` jobs at a time; jobs in order of
  importance; no job forgotten in the queue; `waitUntilEmpty` resolves, and not
  early; `pending` counts what runs.
* task handlers: one `done` per end; final status when nothing is in progress;
  what each retry strategy allows; the outcome of a group and of a sequence;
  every call settles.
* retry: at most `attempts` invocations; at most one race with the signal after an
  abort.
* provider: the current state, and no other object, listens to the port; a
  running provider has access to its resources; the promises of start and stop
  settle in the state they announce; an error state can be left.
* ports: a provider that was stopped stays so; what it says follows the system
  behind, in both directions.
* polling: a group that is polled never falls silent and has one loop, and the queue
  of its resource is not forgotten; every task is polled again and again; scheduler: a slot of a limiter is held by
  somebody, and `start()` and `stop()` keep timers and cycles in step.
* jobs, firehose: every job reaches every sink once and in order; it is cleaned
  and reported only when a sink has confirmed it; a source goes on reading as
  long as the sinks accept; what could not be cleaned is tried again.
* openc2-core: a command is answered once and truly, by an answer or by its
  timeout, and leaves no listener and no timer behind; the gateway offers what
  its consumers can do; every job ends.
* service registry: late answers do not falsify a round; a round that begins after a
  `clear()` does not bring cleared errors back; the report catches up with what the workers hold.

What is hard here: chains and timers of the limiter that restart each other;
listeners that act on state objects that are no longer current; `execute()`
called while an execution is under way; functions that go on running after
their watchdog; `cancel()`, which changes the status and stops nothing; a
`done` that belongs to a cycle, a start or a round that is over; answers that
come late, twice or not at all; a `start()` that fails halfway and a `stop()` in
the middle of everything.
`PROJECT.json` lists these hazards line by line.

## 2. Modules

| module | models | extends |
|---|---|---|
| `PriorityOrder` | the order of the queue: sortedness, insertion point, first job to drop | |
| `LowerBound` | the binary search of `Queue.lowerBound` and the test before it in `enqueue`, one step per iteration | `PriorityOrder` |
| `JobQueue` | `Queue.ts`: variables and operations, without a `Next` | `PriorityOrder` |
| `QueueClient` | a queue and one who offers, drains and clears | `JobQueue` |
| `JobQueue_proofs` | proofs about `LowerBound` and `QueueClient`, and what each operation of the queue preserves | `QueueClient`, `LowerBound` |
| `Limiter` | `Limiter.ts` and `LimiterStateHandler.ts`, composed with the queue | `JobQueue` |
| `Limiter_proofs` | proofs about `Limiter`, and that it implements `Executor` | `Limiter`, `JobQueue_proofs` |
| `Executor` | abstract specification: what a limiter promises | |
| `Retry` | `retry.ts`: variables and operations of concurrent calls | |
| `TaskHandler` | `TaskHandler.ts`, `Single.ts`, `Group.ts`, `Sequence.ts` | `Retry` |
| `TaskHandler_proofs` | proofs about `TaskHandler` and `Retry` | `TaskHandler` |
| `Scheduler` | `Scheduler.ts`, `PollingManager.ts`, `PollingExecutor.ts`, and the limiters piped into one | |
| `Scheduler_proofs` | proofs about `Scheduler` | `Scheduler` |
| `Provider` | `Manager.ts` and the three states, with any port | |
| `Provider_proofs` | proofs about `Provider` and `ManagedPort` | `Provider`, `ManagedPort` |
| `PortManager` | what the ports of the providers share, and the manager from the side of one port, without a `Next` | |
| `ManagedPort` | the `Port.ts` of elastic, redis, mongo, mqtt and socket-client, and the `BasePort.ts` of kafka over its `Client.ts` and of amqp over `Sender.ts` and `Container.ts` | `PortManager` |
| `Firehose` | `Firehose.ts`, its engine, sources and sinks, and the jobs of `JobHandler.ts` | |
| `Firehose_proofs` | proofs about `Firehose` | `Firehose` |
| `PlugWrapper` | `Source/core/PlugWrapper.ts`: jobs that were not cleaned | |
| `Gateway` | `Gateway.ts` over `Producer.ts`, `ConsumerMap.ts`, `Consumer.ts`, `Registry.ts` and `Component.ts` | |
| `Gateway_proofs` | proofs about `Gateway` | `Gateway` |
| `ClusterRegistry` | the ports and aggregators of the registries of health and errors, master and workers | |
| `ClusterRegistry_proofs` | proofs about `ClusterRegistry` | `ClusterRegistry` |
| `MC*` | small values of the constants for TLC | |

Some definitions have a *mutant* beside them (named in a comment): the form a
plausible bug would give them. They are used to test the properties, never by
the specifications.

### How state and actions correspond to the code

**JobQueue.** `queue`, `actualBucketSize`, `refillTimer` and `blocked` are the
members of the class; `strategy` is the option, chosen once in `Init` among the
ones a run looks at. Every method is synchronous, so each one is one action:
`Accept`/`Reject` are `handleQueueStrategy` answering true or false together
with the rest of `enqueue`; `Dequeue` includes the test of the bucket;
`RefillBucket` and `Unblock` are the timers. Lengths of intervals are left out:
a timer that is armed fires at any time. `Insert` puts the job at the insertion
point, which `LowerBound` shows to be where the code puts it.

**Limiter.** A call of the async function `nextJobExecution` that has not
returned is a *chain*. `turn` says what the chain that has the thread does,
`awaiting` holds the jobs that a chain awaits (the ones that took the last
slot), `delaying` counts the chains in their delay, `immediates` the callbacks
of `setImmediate` that are queued. `concurrency` is the counter behind
`pending`; `listening` the jobs whose `done` gives back a slot; `running` the
jobs whose function has not settled, which the code does not know. `Resume`
(the continuation of an `await`) comes before the next timer or immediate, as
promises do in Node.js (`BetweenTasks`). A cancelled job emits `done` at once
and its function goes on.

**Executor.** The limiter implements an executor with
`concurrency + |cancellable jobs|` slots: jobs run at most once, in order of
importance among those that wait, and waiting jobs may be dropped. Cancelled
jobs need the additional slots, see `limiter_cancel` in section 5.

**Retry, TaskHandler.** A call is one call of `execute()`. `phase`, `attempt`
and `inFlight` model the race of function, watchdog and abort signal; a function
whose attempt lost goes on (`Straggle`). A function that throws before it returns a
promise is caught before the race begins (phase `thrown`): the signal does not stop
what follows. `late` counts the races that a call has entered since the signal. `status` is the status of the handler;
`results` and `errors` are the lengths of the members that all the executions of
a group share. Groups and sequences run their tasks in order; a task succeeds or
fails as it likes. `outcomes` and `executed` are history variables.

**Provider.** State objects are numbered in the order of creation; `state` is
`Manager._state`, `attached` who listens to what, `ops` the pending calls of
`port.start()` and `port.stop()` per state object. A call of the manager, an
answer of the port and an event of the port are one action each, with all the
listeners that the event calls. `healthy` is the truth about the port's
resources, which the manager does not know; `upsets` is history.

**ManagedPort.** One port, chosen in `PortInit`, with the system behind it (`system`)
and the connection of its library (`link`). `started` is the flag that `start()` and
`stop()` look at, `isHealthy` and `first` those of the checks, `timer` the handle of the
interval and `stray` the timers whose handle mqtt overwrote, `listeners` how often the
port is attached to its library; `amqp` holds the sender and what is attached to it
and to its connection. An event is emitted by the action of the port
(`said`) and heard by the manager in `Hear` before anything else happens. Where
`Provider` has any port and calls that overlap, the client here waits for the answer
of a call: `stateKind` and `listens` are enough for the state object.

**Scheduler.** `pending` is the set of a `PollingManager`, `slow` what its
errors moved out of the fast entries, `scanTimer` the handle of a
`PollingExecutor` and `orphans` the timers whose handle was overwritten.
`queue`/`taken` are the limiter of a resource and `mainQueue`/`mainTaken` the main
one. The chains of the resource's limiter appear one by one: `looks` counts those that
are about to look at its queue, because a first job came into it (`Seed`) or because the
job they awaited is done. A chain that looks (`Look`) gives the main limiter all the jobs
it may, each with its slot, and awaits the one that takes the last slot; `mainAwaited` and
`awaited` say which jobs, of the main queue and of those that run, are awaited. So a `done`
that nobody awaits starts nothing, and a chain whose job is cleared from the main queue is
dead. `MainStart` runs a job, and its one `done` (`Settle`) gives back both
slots and tells the group. The main limiter has no chains here: it is never left
with a dead one, and `Limiter` shows that what waits in it is started. A `Look` may come
between the steps of a `stop()` whatever made it; in the code only continuations run there,
and no callback of `setImmediate`. A scan offers one task after the other, and a refused
one is done at once, with the end of the cycle inside the scan: the operators
`Scan`, `Offer`, `TaskDone`, `EndCycle` are functions of a record of the state for
that reason. `Stop` handles one group per step, since the code awaits in between.

**Firehose.** `sourceBuffer`, `engine` and `buffer`/`writing` are the Node streams,
whose rules are modelled by what they do for the code: `Read` is a call of
`_read()` (`reading` while none may come), `Pump` the transform with its
strategies, `Deliver` the pipe to all the sinks, `SinkDone` a plug that has
published or given up. `Confirm` is `JobHandler.done()`, `Cleaned` a settled
`postConsume()`. `phase` and `step` are where `start()` and `stop()` stand between
two awaits; `wraps` counts how often the firehose listens to its source.

**PlugWrapper.** `uncleaned`, `unknown` and `interval` are the members of the
class; a check (`CheckPendingJobs`) is a sequence of tries that the plug settles
in any order, and `Splice` is the removal at its end, with the positions that
`splice` and `indexOf` really address. It stands alone because its jobs come back
from a plug that the firehose does not look at.

**Gateway.** One entry of `exchange` per command of the producer: the lookup is
number 0, and the others have the number of the command from upstream that they
forward. `listening`, `timers` and `publishing` are what an exchange has left in
the adapter, the timers and the promise of `publish()`; answers over the bus, the
answer of `publish()`, its failure and the timeout are one action each. `map` and
`agingTimer` are the `ConsumerMap`; `registered` and `interval` the `Registry`.

**ClusterRegistry.** A round (`rounds`) is one call of `onSendRequest` with its
closure: the pending count, the answers heard, and the listener on the cluster.
`toWorker` and `toMaster` are the IPC channels; whether a message has the current
request number is kept with it. `report` is what the aggregator of the master says
of each worker. Health and errors share the ports' code but for three lines, so
`kind` chooses between them. Fork, disconnect and exit are those of Node's
cluster.

## 3. Runs

| run | module | result | what it shows |
|---|---|---|---|
| `lower_bound` | `MCLowerBound` | pass | all sorted queues of up to 5 jobs of 3 priorities: the search ends at the insertion point |
| `queue` | `MCQueueClient` | pass | 5 jobs of 3 priorities and 2 weights, `highWater` 2, bucket of 2, the four strategies, `clear()` |
| `limiter` | `MCLimiter` | pass | 3 jobs, 2 slots, delay, bucket of 2, strategies `overflow-priority` and `block`, start/stop/clear/waitUntilEmpty, one job may be cancelled |
| `task` | `TaskHandler` | pass | 3 calls, 2 attempts, watchdog, abort signal, 1 cancel, four kinds, four strategies |
| `scheduler` | `MCScheduler` | pass | 3 tasks in 2 groups on 2 resources, one main slot, one queue that refuses and one that drops, two `start()`s |
| `provider` | `Provider` | pass | up to 4 state objects and 2 pending calls of each kind per object |
| `managed_port` | `ManagedPort` | pass | seven ports, a system that comes and goes, 3 requests of the status under way, listeners and timers up to three times |
| `firehose` | `MCFirehose` | pass | 3 jobs, 2 sinks, three kinds of source, buffers of one job, a failing strategy, a failed `start()`, a `stop()` |
| `plug_wrapper` | `PlugWrapper` | pass | 2 jobs, checks that overlap, a plug that fails until it recovers |
| `gateway` | `Gateway` | pass | 2 commands, 2 consumers, a lookup, one `stop()` |
| `cluster_registry` | `ClusterRegistry` | pass | 2 workers of which one comes and goes, both kinds, one `clear()`, two overlapping rounds |
| `provider_recovery` | `Provider` | violation | an error state whose `start()` failed is deaf |

Deadlock is not checked, except in `cluster_registry` and `managed_port`: the other systems may stop
when nobody calls them.

Some configurations are kept beside the runs. `limiter_cancel`, `task_group`,
`task_success`, `queue_clear_refill`, `scheduler_restart`, `plug_wrapper_splice`,
`gateway_failure`, `cluster_gone`, `cluster_restart`, `firehose_confirm` and
`managed_port_stop`, `_loss` and `_flap` reproduce what section 5 says; `scheduler_types`, `plug_wrapper_types` (which also has `UncleanedIsWatched`: the timer runs while there is an
entry), `cluster_types` and, beside its property, `managed_port_loss` check the type
invariants of the modules that have no theorem about it; `firehose_types` is a firehose with
four jobs, and checks the bounds of its buffers too.

### Bounds, and why they are enough

* `queue`: five jobs through a queue of two, so that every strategy is applied
  several times, with jobs above, below and equal to the ones in the queue; a
  job of weight 2 needs the whole bucket.
* `limiter`: two slots tell the awaited job (last slot) from the others; three
  jobs fill them and leave one in the queue, which is full with two. `immediates`
  and `delaying` are not bounded: the number of events bounds them.
* `task`: three calls are needed for a call to see the status that the second
  one left while the first is under way.
* `scheduler`: one main slot makes the tasks of one resource wait for those of
  the other; one group has two tasks, so that a cycle ends with the second. Two
  starts let the `done` of a task of the first run meet the cycles of the second.
  `MaxTimers` only says how many lost timers are told apart, and `MaxLooks` how many
  chains that are about to look: 1 in the run, since the second would find what the first
  left, and 2 in `scheduler_types` and `scheduler_restart`. The properties pass with 2 as
  well, and the safety ones are proved for any number.
* `provider`: the third state object can be created while the first one still
  awaits the port, and the fourth follows it. `MaxObjects` and `MaxPending` are
  guards of the actions.
* `managed_port`: two requests are needed for answers that come after a change, and
  for one that is left when `stop()` returns; `MaxRepeats` 2 lets a start attach, and
  arm, beside what an earlier one left, twice. What amqp attaches more often than that
  is counted as the bound, and one listener less or not.
* `firehose`: with buffers of one job three jobs fill source, engine and a sink
  at the same time; the sink that publishes several at once has room for all. So no sink
  is full before the jobs are over: `firehose_types`, with a fourth job and without
  liveness, has full sinks that make the pipe wait.
* `plug_wrapper`: two entries are enough for `splice()` to take one that was not
  cleaned; `MaxChecks` and `MaxUncleaned` cut checks off only until the plug has
  recovered.
* `gateway`: two commands share the registry and its timer; two consumers are
  needed for a broadcast, and for one to age while the other answers.
* `cluster_registry`: `MaxInFlight` 2 lets an answer to the round before be on its
  way when the next round begins, behind or before a `clear`; `MaxRounds` 2 lets
  two rounds count the same answer. A worker holds one error at a time.

### Fairness

Timers fire (weak fairness of `Refill` and `PenaltyOver`, in `QueueClient` `TimerRefills` and
`PenaltyEnds`, of `Watchdog`, `TryNext`,
`ScanTimer`, `CheckOldPendingJobs`, `CheckPendingJobs`, `SendRequest` and the
`Timeout` of a round), continuations of promises and queued callbacks run. In
`Limiter` fairness of the callbacks is strong: a client may call in between again
and again, and the event loop still serves each of its phases in turn. Settling
of jobs is assumed fair in `Limiter` and `Scheduler` because the watchdog of
`retry` bounds every attempt; in `TaskHandler` functions need not settle, and
`EveryCallSettles` shows that they do not have to. In `Firehose` the plugs settle
and the streams of Node run; in `PlugWrapper` the tries settle, and the plug need
not recover: `Recovers` says what happens if it does. In `Gateway` nothing but the
timer of the registry is fair: no adapter has to deliver. In `ClusterRegistry` no
worker has to answer, and in `ManagedPort` the libraries notice a lost connection
and reconnect when they can, and calls of them are answered; that is what the options
of the ports ask of them. `ReportCatchesUp` of the registries has as its premise that one does in
time. In `Scheduler` nothing is assumed of a chain that awaits a job: it looks again when
that job is done, and never if a `stop()` cleared it. No client is obliged to call anything.

The liveness properties of the limiter hold in a limiter that stays started
(`GoesOn`) and whose queue was not emptied by `clear()` or a penalty; those of the
queue only as long as the refill timer is armed; those of the scheduler as long
as it stays started, a slot of the resource is left, and no group of the resource was
disturbed by a refused task or by one of an earlier cycle or start; that
of the firehose while it stays started and a sequence is never left without a
job. The premises are not decoration: without them the properties fail, for the
reasons in section 5.

## 4. Proofs

TLAPS checks the following for every value of the constants that satisfies the
named assumptions of the modules (`PriorityAssumption`, `LengthAssumption`,
`QueueAssumption`, `ClientAssumption`, `LimiterAssumption`, `ProviderAssumption`,
`RetryAssumption`, `TaskAssumption`, `FirehoseAssumption`, `GatewayAssumption`,
`SchedulerAssumption`, `ClusterAssumption`); TLC
evaluates the assumptions in the runs. `QueueAssumption` excludes negative weights,
which `checkOptions` does not look at; `LimiterAssumption` says that there is at
least one slot and that only finitely many jobs are cancelled, of any number of
jobs; `SchedulerAssumption` that every task has one group and no list names anything
twice (they are maps in the code), that limiters have a slot and queues room for a
job; `FirehoseAssumption` that the sinks are a list without repetitions; the others say that
sizes are natural numbers and sets finite.

| theorem | of | says |
|---|---|---|
| `FindsInsertionPointTheorem` | `JobQueue_proofs` | the search of `enqueue` ends at the insertion point, in sorted queues of any length |
| `ClientTypeCorrect`, `WithinHighWaterAlways`, `BlockedIsEmptyAlways` | `JobQueue_proofs` | types and bucket bounds; never more than `highWater` jobs; no job in a queue whose penalty runs |
| `RateBoundAlways` | `JobQueue_proofs` | tokens spent and left never exceed the tokens given, but for one bucketful after `clear()` or a penalty |
| `PriorityThenAgeAlways`, `SortedByPriorityAlways` | `JobQueue_proofs` | the queue is ordered by priority and age; sorted, as the search needs |
| `DropsLessImportantAlways` | `JobQueue_proofs` | `overflow-priority` drops only less important jobs |
| `TypeCorrect` | `Limiter_proofs` | types, and what must have happened to a job that runs, awaits or listens |
| `CounterIsRunningAlways` | `Limiter_proofs` | what the counter behind `pending` counts |
| `ConcurrencyBoundAlways` | `Limiter_proofs` | how many functions run together at most |
| `NoLostWakeupAlways` | `Limiter_proofs` | no job that waits is forgotten, if none is heavier than the bucket |
| `ResolvesDrainedAlways` | `Limiter_proofs` | `waitUntilEmpty` resolves when nothing waits or runs |
| `ImplementsExecutor` | `Limiter_proofs` | every limiter implements the executor (safety) |
| `TypeCorrect` | `Provider_proofs` | the state is one of the state objects, listeners are objects |
| `CurrentListensAlways`, `OnlyTheStateListensAlways` | `Provider_proofs` | who listens to the port |
| `RunningIsHealthyAlways`, `PromisesHoldAlways` | `Provider_proofs` | what a running provider and a settled promise say |
| `StaysStoppedAlways` | `Provider_proofs` | a provider of mongo or kafka (`ManagedPort`) that was stopped stays so |
| `HoldsWhatItUsesAlways` | `Provider_proofs` | a provider that runs can notice a loss; one that is stopped has let go of library and timer |
| `TypeCorrect`, `AttemptsBoundAlways` | `TaskHandler_proofs` | types; no call invokes its function more than `attempts` times, nor races with the signal more than once after it; a function that throws at once is bounded by `attempts` only |
| `OneExecutionAlways`, `EveryEndIsToldAlways` | `TaskHandler_proofs` | `failAfterExecuted` executes once, also when calls overlap; how many `done` there are |
| `OutcomeContractAlways` | `TaskHandler_proofs` | when a group rejects, what a sequence executes and when it succeeds |
| `SlotsAccountedAlways` | `Scheduler_proofs` | who holds the slots of the limiters, and how many there are at most |
| `PollingGoesOnAlways`, `OneLoopAlways` | `Scheduler_proofs` | a group that is polled never falls silent, and as long as no job of its resource was lost a chain looks after the queue; a group has one loop |
| `CleanedIsConfirmedAlways` | `Firehose_proofs` | what is resolved, cleaned and reported was confirmed |
| `EverySinkOnceAlways` | `Firehose_proofs` | every job reaches every sink once and in order |
| `TypeCorrect`, `BuffersAreBoundedAlways` | `Firehose_proofs` | types; no stream holds more than its high water |
| `TypeCorrect`, `OffersWhatItKnowsAlways` | `Gateway_proofs` | types; what the gateway offers upstream |
| `SettledIsForgottenAlways`, `PendingIsWatchedAlways` | `Gateway_proofs` | what a command leaves behind; when the timer of the registry is armed |
| `ResponseIsTrueAlways` | `Gateway_proofs` | one response, and a true one |
| `ClearedStaysClearedAlways` | `ClusterRegistry_proofs` | no round that begins after a `clear()` hears of errors that it deleted, from a worker that listened to it; the round that is open at the `clear()` is not covered |
| `RoundsAreTrueAlways` | `ClusterRegistry_proofs` | what a round counts, and which answer ends it |

**Search.** `SearchInv` adds to the types that the interval `[first, first + count)`
lies in the queue, between jobs at least as important as the new one and jobs
that are less important. Without the second half the last iteration would know
nothing of the jobs it left out.

**Queue.** `QueueInv` (types, `WithinHighWater`, `BlockedIsEmpty`) is inductive
as it stands, and is preserved by every operation of `JobQueue` by itself; the
lemmas of `JobQueue_proofs` are stated per operation so that other clients of a
queue, such as the limiter, can use them. `InsertAtFacts` and `RemoveAtFacts` say what
`splice` does element by element. `RateBound` is inductive together with
`QueueInv`, since it needs the bounds of the bucket.

**Order.** `PriorityThenAge` is not inductive: the age of a job is defined by
its place in `accepted`, which is only well defined if no job was accepted
twice, and a new job is the youngest only if it was not accepted before.
`OrderInv` adds that `accepted` is injective, holds offered jobs only, and
contains every job of the queue. Each operation then maps a pair of jobs of the
new queue, in order, to a pair of the old one or to a pair with the new job
(`RemoveOrdered`, `InsertOrdered`).

**Limiter.** `BaseInv` says where a job can be: it is queued only before it
starts, once, and in a queue that is sorted (`ContentsInv`, from the lemmas of
`JobQueue_proofs` on what `Accept`, `Dequeue` and `Empty` leave in a queue); it
runs, is awaited and is listened to only as a started or a scheduled job
(`JobSets`). `CounterIsRunning` is inductive on top of it: each step lets one
job enter or leave one of the two finite sets whose sizes the counter compares,
and `listening` decides that it does so once. `ConcurrencyBound` follows from the
counter at the moment a job starts (`StartBound`): the counter is below
`concurrency`, and it misses at most one running job per cancelled one. The
refinement goes step by step: `StartJob` is the executor's `Run` because the
head of a queue that is sorted and free of duplicates is the most important
waiting job and the only copy of it; `StartBound` gives the free slot.

`NoLostWakeup` is not inductive, because an event that finds the limiter busy is
ignored. `WakeInv` says why that is sound: the flag of the delay is only set while a
chain is in its delay, and, if nothing was cancelled, a limiter without a free slot
awaits a job that runs. `FirstSeeds` adds that the first job of an empty queue always
emits the event. The hypothesis `WeightsFit` is a condition on the options: a job that is
heavier than the bucket waits for ever beside a full bucket (section 5). `ResolvesDrained` follows from
`CounterIsRunning`: when the counter is 0 and no job was cancelled, no job runs.

**Provider.** `ObjectInv` adds to the types that nothing is pending for objects
that do not exist yet, and that an object listens only to the events of its
kind; without the latter a `healthy` event could move a state that runs.
`LeftIsPending` strengthens `CurrentListens`: a state that does not listen awaits
the very call whose answer replaces it. `Undisturbed` strengthens
`OnlyTheStateListens`: without an overlap one call at most is pending, it is one
of the state, and if its answer will replace the state, nobody listens
meanwhile. `RunningIsHealthy` and the action property `PromisesHold` follow from
it. With a real port below the manager, `KeptInv` says why mongo and kafka stay stopped: they
listen to their library only while they are started, they are not any more when the state
comes to be stopped, and nothing that was said is then left to be heard. `HoldsInv` is
behind `HoldsWhatItUses`: for each port it says what its flag stands
for, in which states of the manager a call is awaited, and what is there when a call has
ended, listeners and timer included.

**Task handlers.** `StepShapes` says once what a step can be: it changes no call,
or it opens, closes or moves on one of them, or it is a cancel; every invariant is
then proved by those shapes and not by the actions. `CountInv` adds to the
types that a call which waits has an attempt left, which the bound of the attempts
needs. `AbortInv` says of every call that has entered a race since the signal that it is in
that race or over: no other one follows. A function that throws at once enters none, and
`CountInv` bounds its invocations like all others. `ExecInv` says which
calls are recorded as executions; with it `OnceInv` shows that the pending status
stands for "nobody executed yet". `EveryEndIsTold` counts: `TellInv` adds that the
sets of calls that ended and were refused are finite, so that each step adds one
to a cardinality and to the counter of `done` events; `StatusInv` says that the
status is pending only before the first execution ends or while one is under way.
`OutcomeInv` is for groups and sequences: before finally is reached nothing of a
sequence has failed (`SequenceInv`), and the errors that the executions of a group share
are those of a call as long as no other one executes it (`GroupInv`).

**Firehose.** `ResolvedInv` ties the count of confirmations to the status of a
job: one that is pending still waits for its one confirmation, so no stream can
have resolved it. `ListeningInv` says that the firehose listens once to its source
unless a `start()` failed, and `ReportInv` that a job is then reported when it is
cleaned, which happens once. For `EverySinkOnce`, `OnceInv` splits the numbers
1 .. `created` among the buffers: each buffer holds a run of consecutive numbers that
ends where the one before it begins (`Follow`), a sink writes or has confirmed exactly
the numbers up to its buffer, and an idle sink has nothing in its buffer, so that a job may
go past it. `IdleInv` says that nothing has moved before `start()` succeeds. For
`BuffersAreBounded`, `BoundInv` adds that a plug of a flow that is on has room left, and
that a sink that is full makes the pipe wait (`Held`); a jet that takes several jobs at once
writes no more than it had in its buffer (`FirstAtMost`). `TypeCorrect` needs with them that
start() and stop() stay within the parts, and that whoever can stop listens (`LifeInv`).

**Scheduler.** `LoopOf` strengthens `OneLoop`: every task of an undisturbed group is in
flight once at most, and its cycle waits for those that are; without it a `done` could
leave a second timer. `ControlInv` says that only the groups that a `stop()` in progress
has not reached are polled, and that all limiters are on before. `ChainInv` is behind
the last part of `PollingGoesOn`: a limiter without a free slot, of which no job was lost,
awaits one of the jobs that hold them (`Linked`), and a queue of a polled group
that is not empty has a chain that will look at it, or one that awaits a job (`Guarded`);
neither is enough alone, for a chain that looks and finds no slot must leave the queue to
one that awaits. A handler counts for its task and its resource
(`Handlers`), so that a start or an end of one moves each cardinality by one. A scan is a fold
over the entries with one step per task, of which `FoldExists` makes a sequence of states:
`OfferTrace` follows one offer, with the end of the cycle that it may
bring, `FirstPass` and `SecondPass` say what is left to offer, and `ScanKeeps` and `StartsKeep`
what they leave. `FoldExists` and `TraceInduction` rest on induction over naturals, proved
from the library's facts about well-founded relations.

**Cluster registries.** `ClearedStaysCleared` is about what a round has heard; `OrderAt`
says it of what is on the way, as far as the channels keep their order: a worker holds nothing older than the
round that asks, or a `clear` is ahead of the request. `OneRequestAt`
says that the current request or its answer is on the way once; with it `Sound`, the
first part of `RoundsAreTrue`, is inductive. `LinkAt` says that nothing is on the way
to a worker that left. `StillOpen`, which picks the rounds that stay open, keeps their
order (`RankExists`, `StillOpenFacts`).

**Gateway.** `ExchangeInv` strengthens `SettledIsForgotten` by what a new command
has not left behind (nothing is issued for a command that was not received, nobody
waits for a silent one). `JobInv` puts `PendingIsWatched` and `ResponseIsTrue`
together with the fact that a command has no job before it is received: a response
is then the first one. `MapInv` is `OffersWhatItKnows` with its types.

All of them were checked by TLC before they were proved. `PollingGoesOn` turned out to be
false between the steps of a `stop()` when two groups share a resource: the first of
them to be stopped empties the queue with the tasks that the other waits for. It says so now.

The provers know nothing of `SelectSeq`, and little of folds over sets: the
cardinalities and positions that the models use instead are there for that reason.

## 5. Where the code and its documentation disagree

The finding of `PROJECT.json` has the run `provider_recovery`. These have a
configuration that reproduces them:

* `firehose_confirm` (`AllSinksConfirm`): a job that is created from an object has one
  confirmation, whatever its `numberOfHandlers` says (`JobHandler.ts:180`), so that one
  with two sinks is completed by the first. `FirehoseOptions.i.ts:31`: "default options
  is all of them".
* `managed_port_flap` (`HealthyIsTrue`): the second branch of `evaluateStats` does not
  look at the error (`elastic/src/provider/Port.ts:125`, `redis/src/provider/Port.ts:227`):
  while the system is red every second check says `healthy`, and the provider leaves
  its error state for one interval. `core/README.md:381`: "when the port has recovered".
* `managed_port_loss` (`EveryLossIsTold`): mqtt, mongo and kafka compare with a flag that
  is false before the first checks: a system that is lost until then is not told, and the
  provider runs on. Elastic emits only an `error` when the system does not answer, which
  changes no state. Kafka does not listen any more after a `stop()` that failed, and the
  next `start()` has nothing to do (`kafka/src/Common/BasePort.ts:48`); redis is deaf in
  the same way after a start that the library refused as "already connecting".
* `managed_port_stop` (`AllStayStopped`): a request of elastic, or one of redis that is
  answered together with `quit()`, is evaluated after `stop()`; mqtt does not stop while
  its connection is lost (`mqtt/src/provider/Port.ts:85`), and reconnects; a start of
  socket-client that finds its connection lost attaches listeners twice, and `stop()`
  detaches them once.
* `queue_clear_refill` (`BucketIsRefilled`): `clear()` cancels the refill timer and
  nothing arms it again (`Queue.ts:152`); `QueueOptions.i.ts:39` speaks of tokens
  "added to the bucket at the beginning of the interval". A queue whose bucket
  was spent stops for ever.
* `limiter_cancel` (`StartsWhenReady`): a cancelled job gives its slot back and
  starts no chain (`Limiter.ts:65`): jobs wait though there is a slot.
* `task_group` (`GroupOutcome`): the errors of a group live as long as the group
  (`Group.ts:16`): one that failed once fails for ever.
* `task_success` (`FailsAfterSuccess`): the refusal of the second call overwrites the
  status that the third looks at (`TaskHandler.ts:189`): `failAfterSuccess` lets it run.
* `scheduler_restart` (`StoppedIsIdle`): a job in the queue of the main limiter holds a
  slot of the limiter of its resource (`Limiter.ts:165`); `stop()` clears that queue
  (`Scheduler.ts:290`), so the job is never done and the slot never given back. After
  as many stops as the resource has slots its tasks are not polled any more. The chain
  that awaited such a job (`Limiter.ts:169`) is dead as well: what waits in the queue of
  the resource is then looked at only if another chain awaits a job, or when a job comes
  into an empty queue. `PollingGoesOn` promises nothing of that queue once a job was lost.
* `plug_wrapper_splice` (`UncleanedIsRegistered`): `splice(indexOf(id))` has no count
  and may get -1 (`PlugWrapper.ts:147`): entries that were not cleaned leave the list.
  The comment in `postConsume()` says that they "will be removed in the next check".
* `gateway_failure` (`FailureEndsTheJob`): `catch(job.done)` loses its object
  (`Gateway.ts:326`) and throws; the job of a rejected command ends only when the
  registry finds it too old. `JobHandler.ts:28` says of `done` that it "is emitted when
  a job has ended, either due to completion or failure".
* `cluster_gone` (`GoneIsNotConnected`): `updateWorkersChecks` replaces entries and
  never removes one (`health/Aggregator/Aggregator.ts:153`): a worker that exits
  between two rounds stays reported as it was, "connected". `health/Ports/MasterPort.ts:27`
  promises "an updated view".
* `cluster_restart` (`OnePolling`): `stop()` leaves the round that runs, so that after
  `start()` two rounds count the same answers (`MasterPort.ts:60`, "Ensures that only
  one polling mechanism is active at any given time").

Seen while modelling, without a configuration:

Tasks:

* Strategy `leak` drops the *first* job, the oldest of the *highest* priority
  (`Queue.ts:113`); `Strategy.t.ts:10` says the oldest of the lowest. It also
  lets a less important job in, which the README of the package says it does not.
* The penalty of strategy `block` is not extended by jobs that arrive meanwhile
  (`Queue.ts:303`, `Strategy.t.ts:29`).
* A `setImmediate` queued before a delay starts a job during the delay
  (`Limiter.ts:157`, comment at `Limiter.ts:22`).
* Cancelling lets more than `concurrency` functions run, and a job cancelled in
  the queue runs all the same (`Limiter.ts:65`, `TaskHandler.ts:288`). The model
  says by how much: `ConcurrencyBound`, `CounterIsRunning`.
* `clear()` and the penalty leave `waitUntilEmpty` pending (`Limiter.ts:133`).
* `start()` of a started limiter launches another chain (`Limiter.ts:142`; the
  README says it does nothing).
* A handler that answers from memory (`notExecAfterSuccess`) emits no `done`: a
  limiter that runs it never gets its slot back (`TaskHandler.ts:285`).
* A job heavier than the bucket blocks the queue behind it (`Queue.ts:269`).
* Dropped and cleared jobs emit no `done`: the promise of `execute()` stays
  pending (`Queue.ts:136`, `Queue.ts:147`). In a polling group the cycle then waits
  for ever, also with the `leak` that examples of the package's README use.
* A function that throws before it returns a promise is caught before `Promise.race` is
  formed (`retry.ts:252`, `retry.ts:306`): an abort signal does not stop it, and it is
  invoked again, up to `attempts` times after the signal. Nobody handles the promise of
  the signal then, nor that of the watchdog: its rejection is an unhandled one, of whose
  consequences for the process the model says nothing.
* `failAfterExecuted` refuses a task that was cancelled before its first
  execution (`TaskHandler.ts:171`).
* A `done` that comes after a restart, or a refused task, ends a cycle twice: two
  timers are armed, the handle of the first is lost, and `stop()` does not stop it
  (`PollingExecutor.ts:96`). A fast task that is refused is offered again as a slow one
  of the same cycle; slow tasks never become fast again.

Provider and firehose:

* `Manager.close()` leaves the state of the manager as it is (`Manager.ts:242`).
* In the error state a rejected start after a `healthy` event is an unhandled
  rejection (`states/Error.ts:25`).
* A `start()` of mongo that fails at its collections leaves the flag that it is
  connected: the next one has nothing to do, and the provider runs without them
  (`mongo/src/provider/Port.ts:54`).
* A monitor of kafka that connected goes on polling when the client beside it did not
  connect: `stop()` then has nothing to do (`kafka/src/Common/BasePort.ts:64`).
* A connection of amqp that could not be opened once does not reconnect any more: the
  option that is switched off meanwhile is not restored (`amqp/src/Client/Container.ts:211`).
  A sender that is made while another was closed by the broker is not listened to
  (`Sender.ts:200`), every `start()` attaches the port once more
  (`Common/BasePort.ts:48`), and a receiver is reset on the connection as it is, also
  when `stop()` closed it (`Receiver.ts:157`).
* A `start()` of a firehose that fails leaves its listeners on the source: after the
  next one every job is reported twice (`Firehose.ts:320`).
* A sequence that ingests nothing is not asked again (`Source/Sequence.ts:29`).
* A credits flow grants `highWaterMark` credits for every push: its buffer is not
  bounded by `highWaterMark`.
* The timer of the uncleaned jobs goes on after `stop()`; when checks overlap the
  list may never drain (`overlapped` in `Recovers`).

openc2-core:

* The gateway hands its handlers to the health wrapper without itself
  (`Gateway.ts:213`): an error throws inside the rejection of `publish()`, whose
  command then never settles (`stuck` in the model); a change of status throws too,
  and in `ConsumerMap.update` before the aging timer is armed.
* A direct answer after the timeout is pushed into the array that the caller already
  has; direct answers of a broadcast settle it without the filter of the others.
* A command that wants no response has no default response (`Helpers.ts:161`), and the
  checks refuse a command by returning one (`Checkers.ts:92`): one that is not supported or
  comes too late becomes a job all the same (`Consumer.ts:286`), and the gateway forwards it.
* A command that wants only an acknowledgement is acknowledged and never becomes a
  job. The gateway answers OK upstream even when no consumer answered.

Service registry:

* `clear()` of the errors of a master leaves those reported by its workers until the
  next round ends, for ever if the port is stopped (`errors/Aggregator/Aggregator.ts:132`).
  Workers that answered the open round before they heard of the `clear()` have their
  errors in its report again: `ClearedStaysCleared` speaks of the rounds that begin later;
  a worker that misses one round has no errors until the next one.
* A worker that is disconnected and has not exited is waited for: every round ends
  with its timeout (`MasterPort.ts:86`).
* A round that ends after `close()` fills the closed aggregator again.
* `close()` of the errors' aggregator hands `off()` a new closure, which removes no
  listener (`errors/Aggregator/Aggregator.ts:138`).

## 6. What is only model-checked, and what is not modelled

Left to TLC are liveness under fairness, with it all that `ManagedPort` says of the system behind,
all of `PlugWrapper` (the
removal at the end of a check is a fold over positions that `indexOf` looks up again), and
the type invariants of `Scheduler`, `PortManager` and `ClusterRegistry`, of which the proofs need, and
state, only a part.

Left out of the modelled components:

* limiter: a `start()` called from the synchronous part of a job; `retry`: the
  deprecated option `interrupt`, which ends the attempts like an irresolvable error;
* scheduler: resources that are added and dropped while it runs, `cleanup()`, a
  bounded queue or a delay of the main limiter, overlapping calls of `stop()`, the
  listeners that the scheduler attaches after `manager.start()`;
* firehose: strategies but for their failure, backpressure between the two sides of
  the engine (one buffer here), metrics and health checks;
* ports of the providers: `close()`, options that turn checks or reconnection off, the
  checks of failed commands of mongo, calls of the client that overlap (module
  `Provider` has those), the receiver of amqp, and a second system behind one client;
* gateway: resolvers, actuators, checks of messages, the router and its timeouts,
  the service bus, lookups that overlap;
* cluster registries: a second `start()` of a worker's port, the local checks and
  errors of the master, the metrics registry;
* everywhere: lengths of waits, delays and intervals, metadata, logging, metrics.

The components without a module are listed in `PROJECT.json` with the reason: most
are data and formatting (crash, logger, doorkeeper, faker, service-setup, the
serialisers of the amqp provider) or wrappers over a third-party client, where a
model would be one of the client.

## 7. Plan

1. `close()` of the managed ports, and the receiver of amqp with its `reset()`.
2. Resources of the scheduler at run time (`addResource`, `dropResource`,
   `cleanup()`), with the limiters they leave behind.
3. A refinement of `Firehose` to a pipeline that delivers at least once, and of
   `Gateway` to a service that answers each command once.
4. Proofs: what a check of `PlugWrapper` removes; the type invariants of `Scheduler`,
   `PortManager` and `ClusterRegistry`.
