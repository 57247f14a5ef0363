------------------------------ MODULE Scheduler -----------------------------
(***************************************************************************)
(* The scheduler of periodic tasks (packages/api/tasks, Scheduler.ts and   *)
(* Polling/): groups of tasks that are scanned again and again, a limiter  *)
(* per resource, and the main limiter into which those are piped.          *)
(*                                                                         *)
(* The limiter of a resource appears with its chains of nextJobExecution.  *)
(* A chain looks at the queue when a first job comes into it ('seed'), and *)
(* when the job it awaits is done: that is the one with which it took the  *)
(* last slot.  The 'done' of any other job only gives a slot back.  The    *)
(* queue of the main limiter is not bounded (the default), and its chains  *)
(* await jobs that run, which no stop() takes away: it appears by what     *)
(* module Limiter shows of it, that a queued job starts when there is a    *)
(* free slot.  All tasks have the same priority.  A task that settles is   *)
(* an action of its own, whatever it did; so is every timer.               *)
(***************************************************************************)
EXTENDS Integers, Sequences, FiniteSets, SequencesExt

CONSTANTS
  Tasks,            \* identifiers of the tasks
  GroupSeq,         \* the polling groups, in the order in which they were added
  Entries,          \* the tasks of each group, a sequence
  ResourceOf,       \* the resource of each group
  Concurrency,      \* slots of the limiter of each resource
  MainConcurrency,  \* slots of the main limiter
  HighWater,        \* length of the queue of each resource
  Strategy,         \* of each resource, for a full queue: "overflow" refuses the task,
                    \* "leak" drops the first one
  MaxStarts,        \* bound: calls of start()
  MaxLooks,         \* bound: chains of a resource that are about to look; more are forgotten
  MaxTimers         \* bound: timers of a group whose handle is lost; more are forgotten

Groups == ToSet(GroupSeq)
Resources == {ResourceOf[g] : g \in Groups}

ASSUME SchedulerAssumption ==
  /\ GroupSeq \in Seq(Groups) /\ IsInjective(GroupSeq)
  /\ \A g \in Groups : /\ Entries[g] \in Seq(Tasks) /\ Entries[g] # <<>>
                        /\ IsInjective(Entries[g])
  /\ \A task \in Tasks : \E g \in Groups : task \in ToSet(Entries[g])
  /\ \A g, h \in Groups : g # h => ToSet(Entries[g]) \intersect ToSet(Entries[h]) = {}
  /\ Concurrency \in [Resources -> Nat \ {0}]
  /\ MainConcurrency \in Nat \ {0}
  /\ HighWater \in [Resources -> Nat \ {0}]
  /\ Strategy \in [Resources -> {"overflow", "leak"}]
  /\ MaxStarts \in Nat /\ MaxTimers \in Nat /\ MaxLooks \in Nat \ {0}

VARIABLES
  isRunning,   \* the flag of the scheduler
  stopAt,      \* how many groups a pending stop() has stopped; 0 when there is none
  limiterOn,   \* the resources whose limiter is started
  mainOn,      \* whether the main limiter is started
  attached,    \* the groups whose executor listens to its manager
  scanTimer,   \* the groups whose scanTimer is armed
  orphans,     \* armed timers of a group that scanTimer does not hold any more
  pending,     \* per group, the tasks its cycle waits for
  slow,        \* the tasks in the slow entries
  queue,       \* per resource, the queue of its limiter
  taken,       \* per resource, the counter of slots of its limiter
  looks,       \* per resource, the chains that are about to look at the queue
  mainQueue, mainTaken,  \* the queue and the counter of slots of the main limiter
  mainAwaited, \* for each job of mainQueue, whether a chain of its resource awaits it
  running,     \* per task, how many of its handlers run
  awaited,     \* per task, how many of those a chain of its resource awaits
  starts,      \* history: calls of start()
  lost,        \* history: per resource, jobs that stop() cleared from the main queue
  disturbed    \* history: groups that were scanned while one of their tasks was in
               \* flight, or one of whose tasks was refused

pollingVars == <<attached, scanTimer, orphans, pending, slow, queue, looks, disturbed>>
vars == <<isRunning, stopAt, limiterOn, mainOn, taken, mainQueue, mainTaken, mainAwaited,
          running, awaited, starts, lost, pollingVars>>

GroupOf(task) == CHOOSE g \in Groups : task \in ToSet(Entries[g])
Home(task) == ResourceOf[GroupOf(task)]
JobsOf(r, jobs) == Cardinality({i \in DOMAIN jobs : Home(jobs[i]) = r})

(* The handlers that run, each by its task and a number. *)
Handlers == UNION {{task} \X (1 .. running[task]) : task \in Tasks}
JobsRunning(r) == Cardinality({h \in Handlers : Home(h[1]) = r})

Init ==
  /\ isRunning = FALSE /\ stopAt = 0
  /\ limiterOn = {} /\ mainOn = FALSE
  /\ attached = {} /\ scanTimer = {} /\ slow = {} /\ disturbed = {}
  /\ orphans = [g \in Groups |-> 0]
  /\ pending = [g \in Groups |-> {}]
  /\ queue = [r \in Resources |-> <<>>]
  /\ taken = [r \in Resources |-> 0]
  /\ lost = [r \in Resources |-> 0]
  /\ looks = [r \in Resources |-> 0]
  /\ mainQueue = <<>> /\ mainTaken = 0 /\ mainAwaited = <<>>
  /\ running = [task \in Tasks |-> 0]
  /\ awaited = [task \in Tasks |-> 0]
  /\ starts = 0
-----------------------------------------------------------------------------
(***************************************************************************)
(* What a step does to the polling groups, as functions of a record that   *)
(* holds their state: start() scans one group after the other, and every   *)
(* scan offers one task after the other.                                   *)
(***************************************************************************)
Polling ==
  [attached |-> attached, scanTimer |-> scanTimer, orphans |-> orphans, pending |-> pending,
   slow |-> slow, queue |-> queue, looks |-> looks, disturbed |-> disturbed,
   taken |-> taken, mainQueue |-> mainQueue, mainAwaited |-> mainAwaited]

PollingBecomes(outcome) ==
  \E p \in {outcome} :
    /\ attached' = p.attached /\ scanTimer' = p.scanTimer /\ orphans' = p.orphans
    /\ pending' = p.pending /\ slow' = p.slow /\ queue' = p.queue
    /\ looks' = p.looks /\ disturbed' = p.disturbed /\ taken' = p.taken
    /\ mainQueue' = p.mainQueue /\ mainAwaited' = p.mainAwaited

InFlight(p, task) ==
  \/ task \in ToSet(p.queue[Home(task)]) \union ToSet(p.mainQueue)
  \/ running[task] > 0

(* A chain of the resource awaits a job, in the main queue or running. *)
IsAwaited(p, r) ==
  \/ \E i \in DOMAIN p.mainQueue : Home(p.mainQueue[i]) = r /\ p.mainAwaited[i]
  \/ \E task \in Tasks : Home(task) = r /\ awaited[task] > 0

(* The cycle of a group ends: its executor, if it listens, arms a timer    *)
(* and forgets the one it had.                                             *)
EndCycle(p, g) ==
  IF g \notin p.attached THEN p
  ELSE [p EXCEPT !.scanTimer = @ \union {g},
                 !.orphans[g] = IF g \in p.scanTimer /\ @ < MaxTimers THEN @ + 1 ELSE @]

(* Mutants: only a success ends the cycle; every task does. *)
TaskDoneSuccess(p, task, failed) ==
  LET g == GroupOf(task)
      left == p.pending[g] \ {task}
  IN  IF failed THEN [p EXCEPT !.pending[g] = left, !.slow = @ \union {task}]
      ELSE IF left = {} THEN EndCycle([p EXCEPT !.pending[g] = left], g)
      ELSE [p EXCEPT !.pending[g] = left]

TaskDoneEach(p, task, failed) ==
  LET g == GroupOf(task)
  IN  EndCycle([p EXCEPT !.pending[g] = @ \ {task},
                         !.slow = IF failed THEN @ \union {task} ELSE @], g)

(* The 'done' of a handler, as the manager of its group takes it. *)
TaskDone(p, task, failed) ==
  LET g == GroupOf(task)
      left == p.pending[g] \ {task}
      next == [p EXCEPT !.pending[g] = left,
                        !.slow = IF failed THEN @ \union {task} ELSE @]
  IN  IF left = {} THEN EndCycle(next, g) ELSE next

(* One more chain will look at the queue of the resource. *)
WillLook(p, r) == [p EXCEPT !.looks[r] = IF @ < MaxLooks THEN @ + 1 ELSE @]

(* A new handler of the task is scheduled on the limiter of its resource,  *)
(* whose queue emits 'seed' when it holds one job now.  A handler that is  *)
(* refused is cancelled, and is done at once.                              *)
Seed(p, r) == IF Len(p.queue[r]) = 1 THEN WillLook(p, r) ELSE p
Offer(p, task) ==
  LET g == GroupOf(task)
      r == Home(task)
      waits == [p EXCEPT !.pending[g] = @ \union {task}]
  IN  IF Len(p.queue[r]) < HighWater[r]
      THEN Seed([waits EXCEPT !.queue[r] = Append(@, task)], r)
      ELSE IF Strategy[r] = "leak"
      THEN Seed([waits EXCEPT !.queue[r] = Append(Tail(@), task),
                              !.disturbed = @ \union {g}], r)
      ELSE TaskDone([waits EXCEPT !.disturbed = @ \union {g}], task, TRUE)

(* A loop over the entries that are slow, or over those that are not, as   *)
(* they are when their turn comes.  (The slow ones come here in the order  *)
(* of the entries, not in the one in which they became slow.)              *)
OfferIf(p, task, isSlow) == IF (task \in p.slow) = isSlow THEN Offer(p, task) ELSE p
OfferAll(p, g, isSlow) ==
  FoldLeft(LAMBDA q, task : OfferIf(q, task, isSlow), p, Entries[g])

(* Mutant: slow entries are left out. *)
ScanFast(p, g) == OfferAll(p, g, FALSE)

(* The fast entries are offered, then the slow ones, with those that have  *)
(* become slow meanwhile.  (The outcome is the only one there is to        *)
(* choose: this way it is computed once.)                                  *)
Scan(p, g) ==
  LET first == [p EXCEPT !.disturbed =
                  IF \E task \in ToSet(Entries[g]) : InFlight(p, task)
                  THEN @ \union {g} ELSE @]
  IN  CHOOSE scanned \in {OfferAll(fast, g, TRUE) : fast \in {OfferAll(first, g, FALSE)}} : TRUE

(* Mutant: the capacity is compared before the slot is counted. *)
LaunchUncounted(p, r) ==
  LET free == Concurrency[r] - p.taken[r]
      n == IF free < Len(p.queue[r]) THEN free ELSE Len(p.queue[r])
  IN  [p EXCEPT !.queue[r] = SubSeq(@, n + 1, Len(@)), !.taken[r] = @ + n,
                !.mainQueue = @ \o SubSeq(p.queue[r], 1, n),
                !.mainAwaited = @ \o [i \in 1 .. n |-> p.taken[r] + i - 1 = Concurrency[r]]]

(* A chain of a resource gives the main limiter all the jobs it may, with  *)
(* their slots, and awaits the one that takes the last slot.               *)
Launch(p, r) ==
  LET free == Concurrency[r] - p.taken[r]
      n == IF free < Len(p.queue[r]) THEN free ELSE Len(p.queue[r])
  IN  [p EXCEPT !.queue[r] = SubSeq(@, n + 1, Len(@)), !.taken[r] = @ + n,
                !.mainQueue = @ \o SubSeq(p.queue[r], 1, n),
                !.mainAwaited = @ \o [i \in 1 .. n |-> p.taken[r] + i = Concurrency[r]]]

(* PollingExecutor.start: listen, start the limiter, scan. *)
StartGroup(p, g) ==
  Scan(Launch([p EXCEPT !.attached = @ \union {g}], ResourceOf[g]), g)

StartGroups(p) == FoldLeft(StartGroup, p, GroupSeq)
-----------------------------------------------------------------------------
(***************************************************************************)
(* The client.                                                             *)
(***************************************************************************)
Start ==
  /\ ~isRunning /\ starts < MaxStarts
  /\ starts' = starts + 1
  /\ isRunning' = TRUE /\ mainOn' = TRUE /\ limiterOn' = Resources
  /\ PollingBecomes(StartGroups(Polling))
  /\ UNCHANGED <<stopAt, mainTaken, running, awaited, lost>>

(* Mutant: the timer stays armed. *)
StopGroupOnly(g) ==
  /\ attached' = attached \ {g}
  /\ limiterOn' = limiterOn \ {ResourceOf[g]}
  /\ queue' = [queue EXCEPT ![ResourceOf[g]] = <<>>]
  /\ UNCHANGED scanTimer

(* PollingExecutor.stop: what is in the queue of the limiter is forgotten. *)
StopGroup(g) ==
  /\ attached' = attached \ {g}
  /\ limiterOn' = limiterOn \ {ResourceOf[g]}
  /\ queue' = [queue EXCEPT ![ResourceOf[g]] = <<>>]
  /\ scanTimer' = scanTimer \ {g}

(* stop() stops the groups one by one, and lets the continuations of       *)
(* promises run in between.                                                *)
Stop ==
  /\ isRunning /\ stopAt < Len(GroupSeq)
  /\ stopAt' = stopAt + 1
  /\ StopGroup(GroupSeq[stopAt + 1])
  /\ UNCHANGED <<isRunning, mainOn, orphans, pending, slow, taken, looks, mainQueue, mainTaken,
                 mainAwaited, running, awaited, starts, lost, disturbed>>

(* What is in the main queue is forgotten: the slots of those jobs do not  *)
(* come back, and a chain that awaits one of them looks never again.       *)
StopEnd ==
  /\ isRunning /\ stopAt = Len(GroupSeq)
  /\ stopAt' = 0 /\ isRunning' = FALSE
  /\ mainOn' = FALSE /\ mainQueue' = <<>> /\ mainAwaited' = <<>>
  /\ lost' = [r \in Resources |-> lost[r] + JobsOf(r, mainQueue)]
  /\ UNCHANGED <<limiterOn, taken, mainTaken, running, awaited, starts, pollingVars>>
-----------------------------------------------------------------------------
(***************************************************************************)
(* The limiters, the tasks and the timers.                                 *)
(***************************************************************************)

(* A chain of nextJobExecution looks at the queue of its resource.  (While *)
(* a stop() is under way only continuations do so, and no callback of      *)
(* setImmediate; the two are not told apart here.)                         *)
Look(r) ==
  /\ looks[r] > 0
  /\ LET p == [Polling EXCEPT !.looks[r] = @ - 1]
     IN  PollingBecomes(IF r \in limiterOn THEN Launch(p, r) ELSE p)
  /\ UNCHANGED <<isRunning, stopAt, limiterOn, mainOn, mainTaken, running, awaited, starts, lost>>

MainStart ==
  /\ mainOn /\ mainQueue # <<>> /\ mainTaken < MainConcurrency
  /\ mainQueue' = Tail(mainQueue) /\ mainAwaited' = Tail(mainAwaited)
  /\ mainTaken' = mainTaken + 1
  /\ running' = [running EXCEPT ![Head(mainQueue)] = @ + 1]
  /\ awaited' = IF Head(mainAwaited) THEN [awaited EXCEPT ![Head(mainQueue)] = @ + 1] ELSE awaited
  /\ UNCHANGED <<isRunning, stopAt, limiterOn, mainOn, taken, starts, lost, pollingVars>>

(* Of the handlers of a task that run, one that a chain awaits settles, or *)
(* one that none does.                                                     *)
Settles(task, isLast) ==
  /\ IF isLast THEN awaited[task] > 0 ELSE running[task] > awaited[task]
  /\ running' = [running EXCEPT ![task] = @ - 1]
  /\ awaited' = IF isLast THEN [awaited EXCEPT ![task] = @ - 1] ELSE awaited
  /\ mainTaken' = mainTaken - 1

(* Mutant: only the main limiter hears of the 'done'. *)
SettleMain(task, failed, isLast) ==
  /\ Settles(task, isLast)
  /\ PollingBecomes(TaskDone(Polling, task, failed))
  /\ UNCHANGED <<isRunning, stopAt, limiterOn, mainOn, starts, lost>>

(* A handler is done: both limiters get their slots back, its manager      *)
(* hears of it, whether or not the group was stopped since, and the chain  *)
(* that awaits the handler, which took the last slot, will look.           *)
Settle(task, failed, isLast) ==
  /\ Settles(task, isLast)
  /\ LET free == [Polling EXCEPT !.taken[Home(task)] = @ - 1]
     IN  PollingBecomes(TaskDone(IF isLast THEN WillLook(free, Home(task)) ELSE free,
                                 task, failed))
  /\ UNCHANGED <<isRunning, stopAt, limiterOn, mainOn, starts, lost>>

(* Timers fire between turns, and stop() is within one. *)
ScanTimer(g) ==
  /\ g \in scanTimer /\ stopAt = 0
  /\ PollingBecomes(Scan([Polling EXCEPT !.scanTimer = @ \ {g}], g))
  /\ UNCHANGED <<isRunning, stopAt, limiterOn, mainOn, mainTaken, running, awaited, starts, lost>>

OrphanTimer(g) ==
  /\ orphans[g] > 0 /\ stopAt = 0
  /\ PollingBecomes(Scan([Polling EXCEPT !.orphans[g] = @ - 1], g))
  /\ UNCHANGED <<isRunning, stopAt, limiterOn, mainOn, mainTaken, running, awaited, starts, lost>>

Next ==
  \/ Start \/ Stop \/ StopEnd \/ MainStart
  \/ \E r \in Resources : Look(r)
  \/ \E task \in Tasks, failed, isLast \in BOOLEAN : Settle(task, failed, isLast)
  \/ \E g \in Groups : ScanTimer(g) \/ OrphanTimer(g)

(* Timers, setImmediate callbacks and continuations run; the main limiter  *)
(* starts what it may (Limiter!EveryJobStarts); every handler settles, for *)
(* its watchdog bounds each attempt.  Nothing is assumed of a chain that   *)
(* awaits a job.  Nobody has to call start() or stop(), but a stop() that  *)
(* began ends.                                                             *)
Fairness ==
  /\ WF_vars(stopAt > 0 /\ (Stop \/ StopEnd))
  /\ WF_vars(MainStart)
  /\ \A r \in Resources : WF_vars(Look(r))
  /\ \A task \in Tasks : WF_vars(\E failed, isLast \in BOOLEAN : Settle(task, failed, isLast))
  /\ \A g \in Groups : WF_vars(ScanTimer(g))

Spec == Init /\ [][Next]_vars
FairSpec == Spec /\ Fairness
-----------------------------------------------------------------------------
TypeOK ==
  /\ isRunning \in BOOLEAN /\ mainOn \in BOOLEAN
  /\ stopAt \in 0 .. Len(GroupSeq)
  /\ limiterOn \subseteq Resources
  /\ attached \subseteq Groups /\ scanTimer \subseteq Groups /\ disturbed \subseteq Groups
  /\ orphans \in [Groups -> 0 .. MaxTimers]
  /\ \A g \in Groups : pending[g] \subseteq ToSet(Entries[g])
  /\ slow \subseteq Tasks
  /\ \A r \in Resources : queue[r] \in Seq(Tasks) /\ Len(queue[r]) <= HighWater[r]
  /\ taken \in [Resources -> Int] /\ lost \in [Resources -> Nat]
  /\ looks \in [Resources -> 0 .. MaxLooks]
  /\ mainQueue \in Seq(Tasks) /\ mainTaken \in Int
  /\ mainAwaited \in Seq(BOOLEAN) /\ Len(mainAwaited) = Len(mainQueue)
  /\ running \in [Tasks -> Nat] /\ awaited \in [Tasks -> Nat]
  /\ \A task \in Tasks : awaited[task] <= running[task]
  /\ starts \in 0 .. MaxStarts

(* A slot of a resource is held by a job that waits in the main limiter,   *)
(* by one that runs, or by one that stop() threw away: the one 'done' of a *)
(* job gives back one slot of each of the two limiters, and neither runs   *)
(* more than it may, whatever the stops, restarts and late answers.        *)
SlotsAccounted ==
  /\ \A r \in Resources :
       /\ taken[r] = JobsOf(r, mainQueue) + JobsRunning(r) + lost[r]
       /\ taken[r] <= Concurrency[r]
  /\ mainTaken = Cardinality(Handlers)
  /\ mainTaken <= MainConcurrency

(* A group that is polled never falls silent: a timer will scan it, or it  *)
(* waits for tasks that are all in a queue or run, never for one that is   *)
(* gone.  (With "leak" a task is dropped without a 'done', and nothing is  *)
(* promised; a stop() that has begun empties the queue of a resource under *)
(* the groups it did not stop yet.)  And the queue of its resource is not  *)
(* forgotten, though few 'done' start a job: when it holds jobs, a chain   *)
(* of the limiter is about to look at it, or awaits a job that will be     *)
(* done.  This is promised only while no stop() has cleared a job of the   *)
(* resource from the main queue: after that the chain may await that job   *)
(* for ever, and the tasks that wait in the queue are never done.          *)
PollingGoesOn ==
  \A g \in attached :
    LET r == ResourceOf[g]
    IN  /\ Strategy[r] = "overflow" =>
             /\ g \in scanTimer \/ orphans[g] > 0 \/ pending[g] # {}
             /\ stopAt = 0 => \A task \in pending[g] : InFlight(Polling, task)
        /\ stopAt = 0 /\ lost[r] = 0 /\ queue[r] # <<>> => looks[r] > 0 \/ IsAwaited(Polling, r)

(* A group has one loop: unless a scan met tasks of an earlier one, or a   *)
(* task was refused, it waits either for its tasks or for its only timer;  *)
(* and after stop() no timer will scan it behind the client's back.        *)
OneLoop ==
  /\ \A g \in attached \ disturbed :
       orphans[g] = 0 /\ (g \in scanTimer <=> pending[g] = {})
  /\ ~isRunning => scanTimer = {} /\ \A g \in Groups \ disturbed : orphans[g] = 0

Undisturbed(r) == \A g \in disturbed : ResourceOf[g] # r

(* Every task of a scheduler that stays started runs again and again, as   *)
(* long as its resource has a slot that no stop() lost, and if no group of *)
(* the resource was ever disturbed: no scan met a task of an earlier cycle *)
(* or of an earlier start(), and no task was refused or dropped.           *)
EveryTaskIsPolled ==
  \A task \in Tasks :
    <>[](/\ isRunning /\ stopAt = 0
         /\ lost[Home(task)] < Concurrency[Home(task)]
         /\ Undisturbed(Home(task)))
    => []<>(running[task] > 0)

(* README.md of the package: stop() stops the limiters, start() starts     *)
(* them again.  When nothing runs any more the counter of a stopped        *)
(* limiter, "the actual number of concurrent jobs", should be zero.        *)
StoppedIsIdle ==
  ~isRunning /\ (\A task \in Tasks : running[task] = 0) =>
    \A r \in Resources : taken[r] = 0
=============================================================================
