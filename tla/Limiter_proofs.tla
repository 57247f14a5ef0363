--------------------------- MODULE Limiter_proofs ---------------------------
(***************************************************************************)
(* What holds of a limiter for any number of jobs, any priorities, weights *)
(* and options.                                                            *)
(***************************************************************************)
EXTENDS Limiter, JobQueue_proofs, FiniteSetTheorems

(* The types of the limiter's own variables. *)
OwnTypeOK ==
  /\ limiterState \in {"stopped", "idle", "starting"}
  /\ concurrency \in Int
  /\ onDelayTime \in BOOLEAN
  /\ immediates \in Nat
  /\ turn \in {"idle", "looking", "started"}
  /\ awaiting \subseteq Jobs
  /\ delaying \in Nat
  /\ waiting \in BOOLEAN

(* Where a job can be: a job that the limiter listens to was not           *)
(* cancelled, it has not started or it runs; a job that runs is listened   *)
(* to or was cancelled.                                                    *)
JobSets ==
  /\ scheduled \subseteq Jobs /\ IsFiniteSet(scheduled)
  /\ listening \subseteq scheduled /\ cancelled \subseteq scheduled /\ started \subseteq scheduled
  /\ running \subseteq started
  /\ cancelled \subseteq Cancellable
  /\ listening \intersect cancelled = {}
  /\ listening \intersect started \subseteq running
  /\ running \subseteq listening \union cancelled

(* What waits was scheduled and has not started, and waits once. *)
ContentsInv ==
  /\ Sorted(queue) /\ Injective(queue)
  /\ \A i \in 1..Len(queue) :
       queue[i] \in (scheduled \ started) \intersect (listening \union cancelled)

BaseInv == QueueInv /\ OwnTypeOK /\ JobSets /\ ContentsInv

LEMMA BaseTypes == BaseInv => TypeOK
BY DEF BaseInv, QueueInv, OwnTypeOK, JobSets, TypeOK

LEMMA InitBase == Init => BaseInv
<1> SUFFICES ASSUME Init PROVE BaseInv
  OBVIOUS
<1>1. QueueInv
  BY InitQueueInv DEF Init
<1>2. OwnTypeOK
  <2>1. limiterState \in {"stopped", "idle", "starting"}
    <3>1. limiterState = IF AutoStart THEN "idle" ELSE "stopped"
      BY DEF Init
    <3> QED BY <3>1
  <2>2. concurrency \in Int /\ immediates \in Nat /\ delaying \in Nat
    BY DEF Init
  <2>3. onDelayTime \in BOOLEAN /\ waiting \in BOOLEAN
    BY DEF Init
  <2>4. turn \in {"idle", "looking", "started"} /\ awaiting \subseteq Jobs
    BY DEF Init
  <2> QED BY <2>1, <2>2, <2>3, <2>4 DEF OwnTypeOK
<1>3. JobSets
  BY FS_EmptySet DEF Init, JobSets
<1>4. ContentsInv
  <2>1. queue = <<>>
    BY DEF Init, QueueInit
  <2> QED BY <2>1 DEF ContentsInv, Sorted, Injective
<1> QED BY <1>1, <1>2, <1>3, <1>4 DEF BaseInv

(* A step that leaves the queue as it is, or empties it. *)
LEMMA SameContents ==
  ASSUME ContentsInv, queue' = queue \/ queue' = <<>>, scheduled \subseteq scheduled',
         started' = started, listening \union cancelled \subseteq listening' \union cancelled'
  PROVE  ContentsInv'
<1>1. CASE queue' = queue
  BY <1>1 DEF ContentsInv
<1>2. CASE queue' = <<>>
  BY <1>2 DEF ContentsInv, Sorted, Injective
<1> QED BY <1>1, <1>2

LEMMA NotifyType ==
  ASSUME waiting \in BOOLEAN, NotifyWaiter \/ waiting' = waiting PROVE waiting' \in BOOLEAN
<1>1. CASE waiting' = waiting
  BY <1>1
<1>2. CASE waiting' = (waiting /\ ~(queue' = <<>> /\ concurrency' = 0))
  <2>1. (waiting /\ ~(queue' = <<>> /\ concurrency' = 0)) \in BOOLEAN
    OBVIOUS
  <2> QED BY <1>2, <2>1
<1> QED BY <1>1, <1>2 DEF NotifyWaiter

LEMMA DoneFacts ==
  ASSUME OwnTypeOK, NEW job, Done(job)
  PROVE  /\ listening' = listening \ {job} /\ waiting' \in BOOLEAN /\ concurrency' \in Int
         /\ job \in listening => concurrency' = concurrency - 1
         /\ job \notin listening => concurrency' = concurrency
<1>1. waiting' \in BOOLEAN
  BY NotifyType DEF Done, OwnTypeOK
<1> QED BY <1>1 DEF Done, OwnTypeOK

LEMMA ScheduleBase ==
  ASSUME BaseInv, NEW job \in Jobs, Schedule(job) PROVE BaseInv'
<1>1. QueueInv'
  BY AcceptQueueInv, RejectQueueInv DEF Schedule, BaseInv
<1>2. OwnTypeOK'
  <2>1. waiting' \in BOOLEAN
    BY NotifyType DEF Schedule, BaseInv, OwnTypeOK
  <2>2. immediates' \in Nat
    BY DEF Schedule, WakeUp, BaseInv, OwnTypeOK
  <2> QED BY <2>1, <2>2 DEF Schedule, BaseInv, OwnTypeOK
<1>3. JobSets'
  <2>1. scheduled' = scheduled \union {job} /\ job \notin scheduled
    BY DEF Schedule
  <2>2. IsFiniteSet(scheduled')
    BY <2>1, FS_AddElement DEF BaseInv, JobSets
  <2>3. /\ started' = started /\ running' = running /\ cancelled' = cancelled
        /\ listening' = listening \/ listening' = listening \union {job}
    BY DEF Schedule
  <2> QED BY <2>1, <2>2, <2>3 DEF BaseInv, JobSets
<1>4. ContentsInv'
  <2>1. /\ scheduled' = scheduled \union {job} /\ job \notin scheduled
        /\ started' = started /\ cancelled' = cancelled
    BY DEF Schedule
  <2>2. CASE Accept(job) /\ listening' = listening \union {job}
    <3>1. \A i \in 1..Len(queue) : queue[i] # job
      BY <2>1 DEF BaseInv, ContentsInv
    <3>2. /\ Sorted(queue') /\ Injective(queue')
          /\ \A i \in 1..Len(queue') :
               queue'[i] = job \/ \E a \in 1..Len(queue) : queue'[i] = queue[a]
      BY <2>2, <3>1, AcceptContents DEF BaseInv, ContentsInv
    <3>3. job \in (scheduled' \ started') \intersect (listening' \union cancelled')
      BY <2>1, <2>2 DEF BaseInv, JobSets
    <3>4. ASSUME NEW i \in 1..Len(queue')
          PROVE  queue'[i] \in (scheduled' \ started') \intersect (listening' \union cancelled')
      <4>1. CASE queue'[i] = job
        BY <3>3, <4>1
      <4>2. CASE \E a \in 1..Len(queue) : queue'[i] = queue[a]
        <5>1. PICK a \in 1..Len(queue) : queue'[i] = queue[a]
          BY <4>2
        <5> QED BY <2>1, <2>2, <5>1 DEF BaseInv, ContentsInv
      <4> QED BY <3>2, <4>1, <4>2
    <3> QED BY <3>2, <3>4 DEF ContentsInv
  <2>3. CASE Reject(job) /\ listening' = listening
    <3>1. queue' = queue \/ queue' = <<>>
      BY <2>3 DEF Reject, Empty, queueVars
    <3> QED BY <2>1, <2>3, <3>1, SameContents DEF BaseInv
  <2> QED BY <2>2, <2>3 DEF Schedule
<1> QED BY <1>1, <1>2, <1>3, <1>4 DEF BaseInv

LEMMA CancelBase ==
  ASSUME BaseInv, NEW job \in Jobs, Cancel(job) PROVE BaseInv'
<1>1. /\ queue' = queue /\ started' = started /\ scheduled' = scheduled /\ running' = running
      /\ job \in listening /\ job \in Cancellable /\ cancelled' = cancelled \union {job}
  BY DEF Cancel, queueVars
<1>2. listening' = listening \ {job} /\ waiting' \in BOOLEAN /\ concurrency' \in Int
  BY DoneFacts DEF Cancel, BaseInv
<1>3. QueueInv'
  BY StutterQueueInv DEF Cancel, BaseInv
<1>4. OwnTypeOK'
  BY <1>2 DEF Cancel, chainVars, BaseInv, OwnTypeOK
<1>5. JobSets'
  BY <1>1, <1>2 DEF BaseInv, JobSets
<1>6. ContentsInv'
  BY <1>1, <1>2, SameContents DEF BaseInv
<1> QED BY <1>3, <1>4, <1>5, <1>6 DEF BaseInv

LEMMA StartJobBase ==
  ASSUME BaseInv, NEW job \in Jobs, StartJob(job)
  PROVE  /\ BaseInv' /\ job \in (scheduled \ started) \intersect (listening \union cancelled)
         /\ \A i \in 1..Len(queue') : queue'[i] # job
         /\ \A i \in 1..Len(queue) : queue[i] = job \/ \E k \in 1..Len(queue') : queue'[k] = queue[i]
         /\ \A i \in 1..Len(queue') : \E a \in 1..Len(queue) : queue'[i] = queue[a]
         /\ \A i \in 1..Len(queue) : Priority[queue[i]] <= Priority[job]
<1>1. /\ queue \in Seq(Jobs) /\ queue # <<>> /\ job = Head(queue) /\ queue' = Tail(queue)
      /\ Tail(queue) \in Seq(Jobs)
  BY DEF StartJob, Dequeue, BaseInv, QueueInv, QueueTypeOK
<1>2. job = queue[1] /\ 1 \in 1..Len(queue)
  BY <1>1
<1>3. job \in (scheduled \ started) \intersect (listening \union cancelled)
  BY <1>2 DEF BaseInv, ContentsInv
<1>4. QueueInv'
  BY DequeueQueueInv DEF StartJob, BaseInv
<1>5. OwnTypeOK'
  BY DEF StartJob, BaseInv, OwnTypeOK
<1>6. JobSets'
  BY <1>3 DEF StartJob, BaseInv, JobSets
<1>7. /\ Drawn(queue', queue) /\ \A i \in 1..Len(queue') : queue'[i] # job
      /\ \A i \in 1..Len(queue) : queue[i] = job \/ \E k \in 1..Len(queue') : queue'[k] = queue[i]
  BY <1>1, TailDrawn DEF BaseInv, ContentsInv
<1>8. \A i \in 1..Len(queue') : \E a \in 1..Len(queue) : queue'[i] = queue[a]
  BY <1>7 DEF Drawn
<1>9. ContentsInv'
  <2>1. Sorted(queue') /\ Injective(queue')
    BY <1>1, <1>7, DrawnFacts DEF BaseInv, ContentsInv
  <2>2. ASSUME NEW i \in 1..Len(queue')
        PROVE  queue'[i] \in (scheduled' \ started') \intersect (listening' \union cancelled')
    <3>1. PICK a \in 1..Len(queue) : queue'[i] = queue[a]
      BY <1>8
    <3>2. queue[a] \in (scheduled \ started) \intersect (listening \union cancelled)
      BY DEF BaseInv, ContentsInv
    <3> QED BY <1>7, <3>1, <3>2 DEF StartJob
  <2> QED BY <2>1, <2>2 DEF ContentsInv
<1>10. ASSUME NEW i \in 1..Len(queue) PROVE Priority[queue[i]] <= Priority[job]
  <2>1. Priority[queue[i]] \in Int /\ Priority[job] \in Int
    BY <1>1, PriorityAssumption
  <2>2. CASE i = 1
    BY <1>2, <2>1, <2>2
  <2>3. CASE 1 < i
    BY <1>2, <2>1, <2>3 DEF BaseInv, ContentsInv, Sorted
  <2> QED BY <1>1, <2>2, <2>3
<1> QED BY <1>3, <1>4, <1>5, <1>6, <1>7, <1>8, <1>9, <1>10 DEF BaseInv

LEMMA SettleBase ==
  ASSUME BaseInv, NEW job \in Jobs, Settle(job) PROVE BaseInv'
<1>1. /\ queue' = queue /\ started' = started /\ scheduled' = scheduled /\ cancelled' = cancelled
      /\ job \in running /\ running' = running \ {job}
  BY DEF Settle, queueVars
<1>2. listening' = listening \ {job} /\ waiting' \in BOOLEAN /\ concurrency' \in Int
  BY DoneFacts DEF Settle, BaseInv
<1>3. QueueInv'
  BY StutterQueueInv DEF Settle, BaseInv
<1>4. OwnTypeOK'
  BY <1>2 DEF Settle, chainVars, BaseInv, OwnTypeOK
<1>5. JobSets'
  BY <1>1, <1>2 DEF BaseInv, JobSets
<1>6. \A i \in 1..Len(queue) : queue[i] # job
  BY <1>1 DEF BaseInv, ContentsInv, JobSets
<1>7. ContentsInv'
  BY <1>1, <1>2, <1>6 DEF BaseInv, ContentsInv
<1> QED BY <1>3, <1>4, <1>5, <1>7 DEF BaseInv

(* The other steps change neither the jobs nor, but for clear(), the queue. *)
LEMMA OtherBase ==
  ASSUME BaseInv, UNCHANGED jobVars, QueueInv', OwnTypeOK', queue' = queue \/ queue' = <<>>
  PROVE  BaseInv'
<1>1. JobSets'
  BY DEF jobVars, BaseInv, JobSets
<1>2. ContentsInv'
  BY SameContents DEF jobVars, BaseInv
<1> QED BY <1>1, <1>2 DEF BaseInv

(* What all of these steps have in common. *)
Other ==
  \/ Start \/ Stop \/ ClearQueue \/ WaitUntilEmpty
  \/ RunImmediate \/ LeaveJob \/ EndChain \/ DelayOver \/ Refill \/ PenaltyOver
  \/ \E job \in Jobs : Resume(job)
  \/ UNCHANGED vars

LEMMA PauseTypes ==
  ASSUME OwnTypeOK, Pause
  PROVE  /\ onDelayTime' \in BOOLEAN /\ delaying' \in Nat
         /\ turn' \in {"idle", "looking", "started"}
<1>1. CASE HasDelay
  <2>1. delaying' \in Nat
    BY <1>1 DEF Pause, OwnTypeOK
  <2>2. onDelayTime' \in BOOLEAN /\ turn' \in {"idle", "looking", "started"}
    BY <1>1 DEF Pause
  <2> QED BY <2>1, <2>2
<1>2. CASE ~HasDelay
  <2>1. delaying' \in Nat /\ turn' \in {"idle", "looking", "started"}
    BY <1>2 DEF Pause, OwnTypeOK
  <2>2. onDelayTime' \in BOOLEAN
    BY <1>2 DEF Pause, OwnTypeOK
  <2> QED BY <2>1, <2>2
<1> QED BY <1>1, <1>2

LEMMA OtherFacts ==
  ASSUME BaseInv, Other
  PROVE  /\ UNCHANGED <<jobVars, concurrency>> /\ BaseInv'
         /\ queue' = queue \/ queue' = <<>>
<1>1. QueueInv /\ OwnTypeOK
  BY DEF BaseInv
<1>2. ASSUME UNCHANGED queueVars, UNCHANGED jobVars, OwnTypeOK' PROVE BaseInv'
  <2>1. QueueInv' /\ queue' = queue
    BY <1>1, <1>2, StutterQueueInv DEF queueVars
  <2> QED BY <1>2, <2>1, OtherBase
<1>3. CASE Start
  BY <1>1, <1>2, <1>3 DEF Start, OwnTypeOK, queueVars
<1>4. CASE Stop
  BY <1>1, <1>2, <1>4 DEF Stop, OwnTypeOK, queueVars, chainVars
<1>5. CASE ClearQueue
  <2>1. QueueInv' /\ queue' = <<>> /\ UNCHANGED <<jobVars, concurrency>>
    BY <1>1, <1>5, ClearQueueInv DEF ClearQueue, Clear, Empty
  <2>2. OwnTypeOK'
    BY <1>1, <1>5 DEF ClearQueue, OwnTypeOK, chainVars
  <2> QED BY <2>1, <2>2, OtherBase
<1>6. CASE WaitUntilEmpty
  BY <1>1, <1>2, <1>6 DEF WaitUntilEmpty, OwnTypeOK, queueVars, chainVars
<1>7. CASE RunImmediate
  BY <1>1, <1>2, <1>7 DEF RunImmediate, OwnTypeOK, queueVars
<1>8. CASE LeaveJob
  <2>1. OwnTypeOK'
    BY <1>1, <1>8, PauseTypes DEF LeaveJob, OwnTypeOK
  <2> QED BY <1>2, <1>8, <2>1 DEF LeaveJob, queueVars
<1>9. CASE EndChain
  BY <1>1, <1>2, <1>9 DEF EndChain, OwnTypeOK, queueVars
<1>10. CASE DelayOver
  <2>1. delaying' \in Nat
    BY <1>1, <1>10 DEF DelayOver, OwnTypeOK
  <2>2. OwnTypeOK'
    BY <1>1, <1>10, <2>1 DEF DelayOver, OwnTypeOK
  <2> QED BY <1>2, <1>10, <2>2 DEF DelayOver, queueVars
<1>11. CASE Refill
  <2>1. QueueInv' /\ queue' = queue /\ UNCHANGED <<jobVars, concurrency>>
    BY <1>1, <1>11, RefillQueueInv DEF Refill, RefillBucket
  <2>2. OwnTypeOK'
    BY <1>1, <1>11 DEF Refill, WakeUp, OwnTypeOK
  <2> QED BY <2>1, <2>2, OtherBase
<1>12. CASE PenaltyOver
  <2>1. QueueInv' /\ queue' = queue /\ UNCHANGED <<jobVars, concurrency>>
    BY <1>1, <1>12, UnblockQueueInv DEF PenaltyOver, Unblock
  <2>2. OwnTypeOK'
    BY <1>1, <1>12 DEF PenaltyOver, chainVars, OwnTypeOK
  <2> QED BY <2>1, <2>2, OtherBase
<1>13. ASSUME NEW job \in Jobs, Resume(job) PROVE UNCHANGED <<queueVars, jobVars, concurrency>> /\ OwnTypeOK'
  <2>1. OwnTypeOK'
    BY <1>1, <1>13, PauseTypes DEF Resume, OwnTypeOK
  <2> QED BY <1>13, <2>1 DEF Resume
<1>14. CASE UNCHANGED vars
  BY <1>1, <1>2, <1>14 DEF vars, chainVars, OwnTypeOK, queueVars
<1> QED BY <1>2, <1>3, <1>4, <1>5, <1>6, <1>7, <1>8, <1>9, <1>10, <1>11, <1>12, <1>13, <1>14
        DEF Other, queueVars

LEMMA NextCases ==
  [Next]_vars =>
    \/ \E job \in Jobs : Schedule(job) \/ Cancel(job) \/ StartJob(job) \/ Settle(job)
    \/ Other
BY DEF Next, Other

LEMMA AlwaysBase == Spec => []BaseInv
<1>1. BaseInv /\ [Next]_vars => BaseInv'
  BY NextCases, ScheduleBase, CancelBase, StartJobBase, SettleBase, OtherFacts
<1> QED BY <1>1, InitBase, PTL DEF Spec

(* The variables of a limiter and of its queue keep their types. *)
THEOREM TypeCorrect == Spec => []TypeOK
BY BaseTypes, AlwaysBase, PTL
-----------------------------------------------------------------------------
(* The counter: a job enters and leaves the two sets that it counts.       *)
LEMMA CountFinite ==
  ASSUME JobSets
  PROVE  /\ IsFiniteSet(running \intersect listening) /\ IsFiniteSet(cancelled \ started)
         /\ IsFiniteSet(running) /\ IsFiniteSet(cancelled)
         /\ Cardinality(running \intersect listening) \in Nat
         /\ Cardinality(cancelled \ started) \in Nat
<1>1. IsFiniteSet(running) /\ IsFiniteSet(cancelled)
  BY FS_Subset DEF JobSets
<1>2. IsFiniteSet(running \intersect listening) /\ IsFiniteSet(cancelled \ started)
  BY <1>1, FS_Intersection, FS_Difference
<1> QED BY <1>1, <1>2, FS_CardinalityType

LEMMA NextCounter == BaseInv /\ CounterIsRunning /\ [Next]_vars => CounterIsRunning'
<1> SUFFICES ASSUME BaseInv, CounterIsRunning, [Next]_vars PROVE CounterIsRunning'
  OBVIOUS
<1> DEFINE counted == running \intersect listening
           early == cancelled \ started
<1>1. /\ IsFiniteSet(counted) /\ IsFiniteSet(early)
      /\ Cardinality(counted) \in Nat /\ Cardinality(early) \in Nat
      /\ concurrency = Cardinality(counted) - Cardinality(early)
      /\ JobSets /\ OwnTypeOK /\ concurrency \in Int
  BY CountFinite DEF BaseInv, CounterIsRunning, OwnTypeOK
<1>2. ASSUME NEW c \in Int, NEW e \in Int, Cardinality(counted') = c, Cardinality(early') = e,
             concurrency' = c - e
      PROVE  CounterIsRunning'
  BY <1>2 DEF CounterIsRunning
<1> HIDE DEF counted, early
<1>3. ASSUME NEW job \in Jobs, Schedule(job) PROVE CounterIsRunning'
  <2>1. concurrency' = concurrency /\ early' = early
    BY <1>3 DEF Schedule, early
  <2>2. counted' = counted
    BY <1>1, <1>3 DEF Schedule, JobSets, counted
  <2> QED BY <1>1, <1>2, <2>1, <2>2
<1>4. ASSUME NEW job \in Jobs, Cancel(job) PROVE CounterIsRunning'
  <2>1. /\ listening' = listening \ {job} /\ concurrency' = concurrency - 1 /\ job \in listening
        /\ running' = running /\ started' = started /\ cancelled' = cancelled \union {job}
    BY <1>1, <1>4, DoneFacts DEF Cancel
  <2>2. CASE job \in started
    <3>1. job \in counted /\ counted' = counted \ {job} /\ early' = early
      BY <1>1, <2>1, <2>2 DEF JobSets, counted, early
    <3>2. Cardinality(counted') = Cardinality(counted) - 1
      BY <1>1, <3>1, FS_RemoveElement
    <3>3. concurrency' = (Cardinality(counted) - 1) - Cardinality(early)
      BY <1>1, <2>1
    <3>4. Cardinality(counted) - 1 \in Int /\ Cardinality(counted) + 1 \in Int
          /\ Cardinality(early) - 1 \in Int /\ Cardinality(early) + 1 \in Int
      BY <1>1
    <3> QED BY <1>1, <1>2, <3>1, <3>2, <3>3, <3>4
  <2>3. CASE job \notin started
    <3>1. job \notin early /\ counted' = counted /\ early' = early \union {job}
      BY <1>1, <2>1, <2>3 DEF JobSets, counted, early
    <3>2. Cardinality(early') = Cardinality(early) + 1
      BY <1>1, <3>1, FS_AddElement
    <3>3. concurrency' = Cardinality(counted) - (Cardinality(early) + 1)
      BY <1>1, <2>1
    <3>4. Cardinality(counted) - 1 \in Int /\ Cardinality(counted) + 1 \in Int
          /\ Cardinality(early) - 1 \in Int /\ Cardinality(early) + 1 \in Int
      BY <1>1
    <3> QED BY <1>1, <1>2, <3>1, <3>2, <3>3, <3>4
  <2> QED BY <2>2, <2>3
<1>5. ASSUME NEW job \in Jobs, StartJob(job) PROVE CounterIsRunning'
  <2>1. /\ listening' = listening /\ concurrency' = concurrency + 1 /\ cancelled' = cancelled
        /\ running' = running \union {job} /\ started' = started \union {job}
        /\ job \notin started /\ job \in listening \union cancelled
    BY <1>5, StartJobBase DEF StartJob
  <2>2. CASE job \in listening
    <3>1. job \notin counted /\ counted' = counted \union {job} /\ early' = early
      BY <1>1, <2>1, <2>2 DEF JobSets, counted, early
    <3>2. Cardinality(counted') = Cardinality(counted) + 1
      BY <1>1, <3>1, FS_AddElement
    <3>3. concurrency' = (Cardinality(counted) + 1) - Cardinality(early)
      BY <1>1, <2>1
    <3>4. Cardinality(counted) - 1 \in Int /\ Cardinality(counted) + 1 \in Int
          /\ Cardinality(early) - 1 \in Int /\ Cardinality(early) + 1 \in Int
      BY <1>1
    <3> QED BY <1>1, <1>2, <3>1, <3>2, <3>3, <3>4
  <2>3. CASE job \notin listening
    <3>1. job \in early /\ counted' = counted /\ early' = early \ {job}
      BY <1>1, <2>1, <2>3 DEF JobSets, counted, early
    <3>2. Cardinality(early') = Cardinality(early) - 1
      BY <1>1, <3>1, FS_RemoveElement
    <3>3. concurrency' = Cardinality(counted) - (Cardinality(early) - 1)
      BY <1>1, <2>1
    <3>4. Cardinality(counted) - 1 \in Int /\ Cardinality(counted) + 1 \in Int
          /\ Cardinality(early) - 1 \in Int /\ Cardinality(early) + 1 \in Int
      BY <1>1
    <3> QED BY <1>1, <1>2, <3>1, <3>2, <3>3, <3>4
  <2> QED BY <2>2, <2>3
<1>6. ASSUME NEW job \in Jobs, Settle(job) PROVE CounterIsRunning'
  <2>1. /\ listening' = listening \ {job} /\ started' = started /\ cancelled' = cancelled
        /\ job \in running /\ running' = running \ {job}
        /\ job \in listening => concurrency' = concurrency - 1
        /\ job \notin listening => concurrency' = concurrency
    BY <1>1, <1>6, DoneFacts DEF Settle
  <2>2. counted' = counted \ {job} /\ early' = early
    BY <2>1 DEF counted, early
  <2>3. Cardinality(counted') = IF job \in counted THEN Cardinality(counted) - 1 ELSE Cardinality(counted)
    BY <1>1, <2>2, FS_RemoveElement
  <2>4. job \in counted <=> job \in listening
    BY <2>1 DEF counted
  <2>5. CASE job \in listening
    <3>1. concurrency' = (Cardinality(counted) - 1) - Cardinality(early) /\ Cardinality(counted) - 1 \in Int
      BY <1>1, <2>1, <2>5
    <3> QED BY <1>1, <1>2, <2>2, <2>3, <2>4, <2>5, <3>1
  <2>6. CASE job \notin listening
    BY <1>1, <1>2, <2>1, <2>2, <2>3, <2>4, <2>6
  <2> QED BY <2>5, <2>6
<1>7. CASE Other
  <2>1. concurrency' = concurrency /\ counted' = counted /\ early' = early
    BY <1>7, OtherFacts DEF jobVars, counted, early
  <2> QED BY <1>1, <1>2, <2>1
<1> QED BY <1>3, <1>4, <1>5, <1>6, <1>7, NextCases

(* What pending says, for any number of jobs and cancellations.            *)
THEOREM CounterIsRunningAlways == Spec => []CounterIsRunning
<1>1. Init => CounterIsRunning
  <2> SUFFICES ASSUME Init PROVE CounterIsRunning
    OBVIOUS
  <2>1. running \intersect listening = {} /\ cancelled \ started = {} /\ concurrency = 0
    BY DEF Init
  <2> QED BY <2>1, FS_EmptySet DEF CounterIsRunning
<1> QED BY <1>1, NextCounter, AlwaysBase, PTL DEF Spec
-----------------------------------------------------------------------------
(* A job starts only if fewer run than the bound allows. *)
LEMMA StartBound ==
  ASSUME BaseInv, CounterIsRunning, concurrency < Concurrency
  PROVE  Cardinality(running) < Concurrency + Cardinality(cancelled)
<1> DEFINE counted == running \intersect listening
           early == cancelled \ started
           late  == cancelled \intersect started
<1>1. /\ IsFiniteSet(counted) /\ IsFiniteSet(early) /\ IsFiniteSet(running) /\ IsFiniteSet(cancelled)
      /\ Cardinality(counted) \in Nat /\ Cardinality(early) \in Nat
      /\ concurrency = Cardinality(counted) - Cardinality(early)
      /\ JobSets /\ Concurrency \in Nat
  BY CountFinite, LimiterAssumption DEF BaseInv, CounterIsRunning
<1>2. IsFiniteSet(late) /\ Cardinality(late) \in Nat
  BY <1>1, FS_Intersection, FS_CardinalityType
<1>3. Cardinality(running) <= Cardinality(counted) + Cardinality(late)
  <2>1. running \subseteq counted \union late
    BY <1>1 DEF JobSets
  <2>2. IsFiniteSet(counted \union late) /\ IsFiniteSet(counted \intersect late)
        /\ Cardinality(counted \union late)
             = Cardinality(counted) + Cardinality(late) - Cardinality(counted \intersect late)
    BY <1>1, <1>2, FS_Union, FS_Intersection
  <2>3. Cardinality(counted \intersect late) \in Nat
    BY <2>2, FS_CardinalityType
  <2>4. Cardinality(running) <= Cardinality(counted \union late)
    BY <2>1, <2>2, FS_Subset
  <2>5. Cardinality(running) \in Nat
    BY <1>1, FS_CardinalityType
  <2> QED BY <1>1, <1>2, <2>2, <2>3, <2>4, <2>5
<1>4. Cardinality(cancelled) = Cardinality(early) + Cardinality(late)
  <2>1. Cardinality(early) = Cardinality(cancelled) - Cardinality(late)
    BY <1>1, FS_Difference
  <2>2. Cardinality(cancelled) \in Nat
    BY <1>1, FS_CardinalityType
  <2> QED BY <1>1, <1>2, <2>1, <2>2
<1>5. Cardinality(running) \in Nat
  BY <1>1, FS_CardinalityType
<1> HIDE DEF counted, early, late
<1> QED BY <1>1, <1>2, <1>3, <1>4, <1>5

LEMMA NextBound ==
  BaseInv /\ BaseInv' /\ CounterIsRunning /\ ConcurrencyBound /\ [Next]_vars => ConcurrencyBound'
<1> SUFFICES ASSUME BaseInv, BaseInv', CounterIsRunning, ConcurrencyBound, [Next]_vars
             PROVE  ConcurrencyBound'
  OBVIOUS
<1>1. /\ IsFiniteSet(running) /\ IsFiniteSet(cancelled) /\ IsFiniteSet(cancelled')
      /\ Cardinality(running) \in Nat /\ Cardinality(cancelled) \in Nat
      /\ Cardinality(cancelled') \in Nat /\ Concurrency \in Nat /\ concurrency \in Int
  <2>1. IsFiniteSet(running) /\ IsFiniteSet(cancelled) /\ IsFiniteSet(cancelled')
    BY FS_Subset DEF BaseInv, JobSets
  <2> QED BY <2>1, FS_CardinalityType, LimiterAssumption DEF BaseInv, OwnTypeOK
<1>2. Cardinality(running) <= Concurrency + Cardinality(cancelled)
  BY DEF ConcurrencyBound
<1>3. ASSUME running' \subseteq running, cancelled \subseteq cancelled' PROVE ConcurrencyBound'
  <2>1. IsFiniteSet(running') /\ Cardinality(running') <= Cardinality(running)
    BY <1>1, <1>3, FS_Subset
  <2>2. Cardinality(running') \in Nat
    BY <2>1, FS_CardinalityType
  <2>3. Cardinality(cancelled) <= Cardinality(cancelled')
    BY <1>1, <1>3, FS_Subset
  <2>4. PICK r \in Nat, c \in Nat : r = Cardinality(running') /\ c = Cardinality(cancelled')
    BY <1>1, <2>2
  <2>5. r <= Concurrency + c
    BY <1>1, <1>2, <2>1, <2>3, <2>4
  <2> QED BY <2>4, <2>5 DEF ConcurrencyBound
<1>4. ASSUME NEW job \in Jobs, StartJob(job) PROVE ConcurrencyBound'
  <2>1. /\ concurrency < Concurrency /\ running' = running \union {job}
        /\ cancelled' = cancelled
    BY <1>1, <1>4 DEF StartJob, CanProcessMore, AtCapacity
  <2>2. Cardinality(running) < Concurrency + Cardinality(cancelled)
    BY <2>1, StartBound
  <2>3. Cardinality(running') \in {Cardinality(running), Cardinality(running) + 1}
    BY <1>1, <2>1, FS_AddElement
  <2>4. PICK r \in Nat : r = Cardinality(running')
    BY <1>1, <2>3
  <2>5. r <= Concurrency + Cardinality(cancelled)
    BY <1>1, <2>2, <2>3, <2>4
  <2> QED BY <2>1, <2>4, <2>5 DEF ConcurrencyBound
<1>5. ASSUME NEW job \in Jobs, Schedule(job) \/ Cancel(job) \/ Settle(job) PROVE ConcurrencyBound'
  <2>1. running' \subseteq running /\ cancelled \subseteq cancelled'
    BY <1>5 DEF Schedule, Cancel, Settle
  <2> QED BY <1>3, <2>1
<1>6. CASE Other
  BY <1>3, <1>6, OtherFacts DEF jobVars
<1> QED BY <1>4, <1>5, <1>6, NextCases

(* No more jobs run together than options.concurrency and one for every    *)
(* cancelled job, in every limiter.                                        *)
THEOREM ConcurrencyBoundAlways == Spec => []ConcurrencyBound
<1>1. Init => ConcurrencyBound
  <2> SUFFICES ASSUME Init PROVE ConcurrencyBound
    OBVIOUS
  <2>1. Cardinality(running) = 0 /\ Cardinality(cancelled) = 0
    BY FS_EmptySet DEF Init
  <2> QED BY <2>1, LimiterAssumption DEF ConcurrencyBound
<1> QED BY <1>1, NextBound, AlwaysBase, CounterIsRunningAlways, PTL DEF Spec
-----------------------------------------------------------------------------
(* What NoLostWakeup needs: events are ignored only while a chain waits    *)
(* for its delay, and a limiter without a free slot awaits the job that    *)
(* took the last one, which runs.                                          *)
WakeInv ==
  /\ onDelayTime => delaying > 0
  /\ cancelled = {} =>
       /\ concurrency <= Concurrency
       /\ concurrency = Concurrency => awaiting \intersect running # {}

LEMMA InitWake == Init => WakeInv /\ NoLostWakeup
<1> SUFFICES ASSUME Init PROVE WakeInv /\ NoLostWakeup
  OBVIOUS
<1>1. concurrency = 0 /\ onDelayTime = FALSE /\ queue = <<>>
  BY DEF Init, QueueInit
<1> QED BY <1>1, LimiterAssumption DEF WakeInv, NoLostWakeup

(* A chain that goes on or waits keeps what it knew. *)
LEMMA PauseFacts ==
  ASSUME OwnTypeOK, WakeInv, Pause
  PROVE  /\ onDelayTime' => delaying' > 0
         /\ turn' = "idle" => delaying' > 0
<1>1. CASE HasDelay
  BY <1>1 DEF Pause, OwnTypeOK
<1>2. CASE ~HasDelay
  BY <1>2 DEF Pause, WakeInv
<1> QED BY <1>1, <1>2

LEMMA NextWakeInv == BaseInv /\ WakeInv /\ [Next]_vars => WakeInv'
<1> SUFFICES ASSUME BaseInv, WakeInv, [Next]_vars PROVE WakeInv'
  OBVIOUS
<1>1. /\ OwnTypeOK /\ JobSets /\ concurrency \in Int /\ delaying \in Nat /\ Concurrency \in Nat
  BY LimiterAssumption DEF BaseInv, OwnTypeOK
<1>2. ASSUME UNCHANGED <<concurrency, cancelled, awaiting, running>>, onDelayTime' => delaying' > 0
      PROVE  WakeInv'
  BY <1>2 DEF WakeInv
<1>3. ASSUME NEW job \in Jobs, Schedule(job) PROVE WakeInv'
  BY <1>2, <1>3 DEF Schedule, WakeInv
<1>4. ASSUME NEW job \in Jobs, Cancel(job) PROVE WakeInv'
  BY <1>4 DEF Cancel, chainVars, WakeInv
<1>5. ASSUME NEW job \in Jobs, StartJob(job) PROVE WakeInv'
  <2>1. /\ concurrency < Concurrency /\ concurrency' = concurrency + 1 /\ cancelled' = cancelled
        /\ UNCHANGED <<onDelayTime, delaying>>
    BY <1>1, <1>5 DEF StartJob, CanProcessMore, AtCapacity
  <2>2. CASE concurrency' >= Concurrency
    <3>1. job \in awaiting' \intersect running'
      BY <1>5, <2>2 DEF StartJob, AtCapacity
    <3> QED BY <1>1, <2>1, <3>1 DEF WakeInv
  <2>3. CASE concurrency' < Concurrency
    BY <1>1, <2>1, <2>3 DEF WakeInv
  <2> QED BY <1>1, <2>1, <2>2, <2>3
<1>6. ASSUME NEW job \in Jobs, Settle(job) PROVE WakeInv'
  <2>1. /\ UNCHANGED <<onDelayTime, delaying, cancelled>> /\ job \in running
        /\ job \in listening => concurrency' = concurrency - 1
    BY <1>1, <1>6, DoneFacts DEF Settle, chainVars
  <2>2. cancelled = {} => concurrency' = concurrency - 1
    BY <1>1, <2>1 DEF JobSets
  <2> QED BY <1>1, <2>1, <2>2 DEF WakeInv
<1>7. ASSUME NEW job \in Jobs, Resume(job) PROVE WakeInv'
  <2>1. onDelayTime' => delaying' > 0
    BY <1>1, <1>7, PauseFacts DEF Resume
  <2>2. /\ awaiting' \intersect running' = awaiting \intersect running
        /\ UNCHANGED <<concurrency, cancelled>>
    BY <1>7 DEF Resume, jobVars
  <2> QED BY <2>1, <2>2 DEF WakeInv
<1>8. CASE LeaveJob
  <2>1. onDelayTime' => delaying' > 0
    BY <1>1, <1>8, PauseFacts DEF LeaveJob
  <2> QED BY <1>2, <1>8, <2>1 DEF LeaveJob, jobVars
<1>9. CASE DelayOver
  BY <1>2, <1>9 DEF DelayOver, jobVars
<1>10. CASE Start \/ Stop \/ ClearQueue \/ WaitUntilEmpty \/ RunImmediate \/ EndChain
            \/ Refill \/ PenaltyOver \/ UNCHANGED vars
  <2>1. UNCHANGED <<concurrency, cancelled, awaiting, running, onDelayTime, delaying>>
    BY <1>10 DEF Start, Stop, ClearQueue, WaitUntilEmpty, RunImmediate, EndChain, Refill,
                 PenaltyOver, vars, chainVars, jobVars
  <2> QED BY <1>2, <2>1 DEF WakeInv
<1> QED BY <1>3, <1>4, <1>5, <1>6, <1>7, <1>8, <1>9, <1>10 DEF Next

(* The refill timer is never armed again. *)
LEMMA KeptBefore == BaseInv /\ [Next]_vars => (QueueKept' => QueueKept)
<1> SUFFICES ASSUME BaseInv, [Next]_vars, refillTimer' PROVE refillTimer
  BY DEF QueueKept
<1>1. ASSUME NEW job \in Jobs, Schedule(job) \/ Cancel(job) \/ StartJob(job) \/ Settle(job)
             \/ Resume(job)
      PROVE  refillTimer
  BY <1>1 DEF Schedule, Accept, Reject, Empty, Cancel, StartJob, Dequeue, Settle, Resume, queueVars
<1>2. CASE Start \/ Stop \/ ClearQueue \/ WaitUntilEmpty \/ RunImmediate \/ LeaveJob \/ EndChain
           \/ DelayOver \/ Refill \/ PenaltyOver \/ UNCHANGED vars
  BY <1>2 DEF Start, Stop, ClearQueue, Clear, Empty, WaitUntilEmpty, RunImmediate, LeaveJob,
              EndChain, DelayOver, Refill, RefillBucket, PenaltyOver, Unblock, vars, queueVars
<1> QED BY <1>1, <1>2 DEF Next

(* 'seed' is emitted for the first job that comes into an empty queue. *)
LEMMA FirstSeeds ==
  ASSUME QueueInv, NEW job \in Jobs, Accept(job), queue = <<>> PROVE Seeds
<1>1. Insert(<<>>, job)
  BY QueueAssumption DEF Accept, Full
<1>2. PICK n \in 1..(Len(<<>>) + 1) : queue' = InsertAt(<<>>, n, job)
  BY <1>1 DEF Insert
<1>3. n = 1
  BY <1>2
<1>4. Len(InsertAt(<<>>, 1, job)) = 1
  BY DEF InsertAt
<1> QED BY <1>2, <1>3, <1>4 DEF Seeds

(* An event finds a chain that waits for its delay, or queues a callback. *)
LEMMA WakeUpFacts ==
  ASSUME OwnTypeOK, WakeInv, WakeUp, queue' # <<>>, delaying' = delaying
  PROVE  immediates' > 0 \/ delaying' > 0
BY DEF WakeUp, OwnTypeOK, WakeInv

LEMMA NextNoLostWakeup ==
  ASSUME WeightsFit, BaseInv, BaseInv', WakeInv, WakeInv', NoLostWakeup, [Next]_vars
  PROVE  NoLostWakeup'
<1> DEFINE Awake == immediates > 0 \/ delaying > 0 \/ awaiting # {}
           Tokens == refillTimer /\ actualBucketSize < BucketSize
<1> SUFFICES ASSUME queue' # <<>>, limiterState' # "stopped", turn' = "idle", cancelled' = {},
                    QueueKept', ~Tokens'
             PROVE  Awake'
  BY DEF NoLostWakeup
<1>1. OwnTypeOK /\ QueueInv /\ JobSets /\ QueueKept
  BY KeptBefore DEF BaseInv
<1>2. (/\ queue # <<>> /\ limiterState # "stopped" /\ turn = "idle" /\ cancelled = {})
        => Awake \/ Tokens
  BY <1>1 DEF NoLostWakeup
<1>3. ASSUME NEW job \in Jobs, Schedule(job) PROVE Awake'
  <2>1. /\ UNCHANGED <<limiterState, turn, awaiting, delaying, cancelled>>
        /\ immediates' \in {immediates, immediates + 1}
    BY <1>3 DEF Schedule, WakeUp
  <2>2. CASE queue = <<>>
    <3>1. Accept(job) /\ Seeds /\ WakeUp
      BY <1>1, <1>3, <2>2, FirstSeeds DEF Schedule, Reject, Empty, queueVars
    <3> QED BY <1>1, <2>1, <3>1, WakeUpFacts
  <2>3. CASE queue # <<>>
    <3>1. UNCHANGED <<refillTimer, actualBucketSize>>
      BY <1>3 DEF Schedule, Accept, Reject, Empty, queueVars
    <3>2. Awake \/ Tokens
      BY <1>2, <2>1, <2>3
    <3> QED BY <1>1, <2>1, <3>1, <3>2 DEF OwnTypeOK
  <2> QED BY <2>2, <2>3
<1>4. ASSUME NEW job \in Jobs, Cancel(job) PROVE Awake'
  BY <1>4 DEF Cancel
<1>5. ASSUME NEW job \in Jobs, StartJob(job) PROVE Awake'
  <2>1. job \in awaiting'
    BY <1>5 DEF StartJob
  <2> QED BY <2>1
<1>6. ASSUME NEW job \in Jobs, Settle(job) PROVE Awake'
  BY <1>2, <1>6 DEF Settle, queueVars, chainVars
<1>7. ASSUME NEW job \in Jobs, Resume(job) PROVE Awake'
  BY <1>1, <1>7, PauseFacts DEF Resume
<1>8. CASE LeaveJob
  BY <1>1, <1>8, PauseFacts DEF LeaveJob
<1>9. CASE EndChain
  <2>1. /\ turn = "looking"
        /\ ~CanProcessMore \/ OutOfTokens
        /\ UNCHANGED <<queueVars, concurrency, limiterState, awaiting, jobVars>>
    BY <1>9 DEF EndChain
  <2>2. CASE AtCapacity
    <3>1. concurrency = Concurrency
      BY <1>1, <2>1, <2>2, LimiterAssumption DEF WakeInv, AtCapacity, OwnTypeOK, jobVars
    <3> QED BY <2>1, <3>1 DEF WakeInv, jobVars
  <2>3. CASE OutOfTokens
    <3>1. queue \in Seq(Jobs) /\ queue # <<>> /\ BucketSize > 0 /\ actualBucketSize < Weight[Head(queue)]
      BY <1>1, <2>3 DEF OutOfTokens, QueueInv, QueueTypeOK
    <3>2. Head(queue) \in Jobs
      BY <3>1
    <3>3. Weight[Head(queue)] <= BucketSize /\ Weight[Head(queue)] \in Nat
      BY <3>1, <3>2, QueueAssumption DEF WeightsFit
    <3>4. actualBucketSize < BucketSize
      BY <1>1, <3>1, <3>3, QueueAssumption DEF QueueInv, QueueTypeOK
    <3>5. refillTimer
      BY <1>1, <3>1 DEF QueueKept
    <3> QED BY <2>1, <3>4, <3>5 DEF queueVars
  <2> QED BY <2>1, <2>2, <2>3 DEF CanProcessMore, queueVars
<1>10. CASE Refill
  <2>1. /\ UNCHANGED <<queue, limiterState, turn, awaiting, delaying, refillTimer>> /\ cancelled' = cancelled
        /\ refillTimer /\ immediates' \in {immediates, immediates + 1}
    BY <1>10 DEF Refill, RefillBucket, WakeUp, jobVars
  <2>2. CASE Refills
    BY <1>1, <1>10, <2>1, <2>2, WakeUpFacts DEF Refill
  <2>3. CASE ~Refills
    BY <1>1, <1>2, <2>1, <2>3 DEF Refills, OwnTypeOK
  <2> QED BY <2>2, <2>3
<1>11. CASE PenaltyOver
  BY <1>2, <1>11 DEF PenaltyOver, Unblock, chainVars, jobVars
<1>12. CASE WaitUntilEmpty
  BY <1>2, <1>12 DEF WaitUntilEmpty, queueVars, chainVars, jobVars
<1>13. CASE UNCHANGED vars
  BY <1>2, <1>13 DEF vars, queueVars, chainVars, jobVars
<1>14. CASE Start \/ Stop \/ ClearQueue \/ RunImmediate \/ DelayOver
  BY <1>14 DEF Start, Stop, ClearQueue, Clear, Empty, RunImmediate, DelayOver
<1> QED BY <1>3, <1>4, <1>5, <1>6, <1>7, <1>8, <1>9, <1>10, <1>11, <1>12, <1>13, <1>14 DEF Next

(* A job that waits is never forgotten, for any number of jobs and slots,  *)
(* as long as no job is heavier than the bucket: such a job, and all those *)
(* behind it, would wait for ever beside a full bucket.                    *)
THEOREM NoLostWakeupAlways ==
  ASSUME WeightsFit PROVE Spec => []NoLostWakeup
<1>1. BaseInv /\ BaseInv' /\ WakeInv /\ WakeInv' /\ NoLostWakeup /\ [Next]_vars => NoLostWakeup'
  BY NextNoLostWakeup
<1> QED BY <1>1, InitWake, NextWakeInv, AlwaysBase, PTL DEF Spec
-----------------------------------------------------------------------------
(* A step that notifies the waiter leaves nothing to run: when no job was  *)
(* cancelled the counter counts all that run.                              *)
LEMMA ResolveStep ==
  ASSUME BaseInv', CounterIsRunning', [Next]_vars, waiting, ~waiting', cancelled' = {}
  PROVE  queue' = <<>> /\ running' = {}
<1>1. queue' = <<>> /\ concurrency' = 0
  <2>1. ASSUME NotifyWaiter PROVE queue' = <<>> /\ concurrency' = 0
    BY <2>1 DEF NotifyWaiter
  <2>2. ASSUME NEW job \in Jobs, Schedule(job) \/ Cancel(job) \/ Settle(job)
        PROVE  NotifyWaiter
    BY <2>2 DEF Schedule, Cancel, Settle, Done
  <2>3. ASSUME NEW job \in Jobs, StartJob(job) \/ Resume(job) PROVE FALSE
    BY <2>3 DEF StartJob, Resume
  <2>4. CASE Start \/ Stop \/ ClearQueue \/ WaitUntilEmpty \/ RunImmediate \/ LeaveJob \/ EndChain
             \/ DelayOver \/ Refill \/ PenaltyOver \/ UNCHANGED vars
    BY <2>4 DEF Start, Stop, ClearQueue, WaitUntilEmpty, RunImmediate, LeaveJob, EndChain,
                DelayOver, Refill, PenaltyOver, vars
  <2> QED BY <2>1, <2>2, <2>3, <2>4 DEF Next
<1>2. /\ IsFiniteSet(running' \intersect listening') /\ Cardinality(running' \intersect listening') \in Nat
  <2>1. IsFiniteSet(running')
    BY FS_Subset DEF BaseInv, JobSets
  <2> QED BY <2>1, FS_Intersection, FS_CardinalityType
<1>3. Cardinality(running' \intersect listening') = 0
  <2>1. Cardinality(cancelled' \ started') = 0
    BY FS_EmptySet
  <2> QED BY <1>1, <1>2, <2>1 DEF CounterIsRunning
<1>4. running' \intersect listening' = {}
  BY <1>2, <1>3, FS_EmptySet
<1> QED BY <1>1, <1>4 DEF BaseInv, JobSets

(* A promise of waitUntilEmpty resolves only when no job waits in the      *)
(* queue and none runs, in a limiter of which no job was cancelled.        *)
THEOREM ResolvesDrainedAlways == Spec => ResolvesDrained
<1>1. BaseInv' /\ CounterIsRunning' /\ [Next]_vars =>
        [waiting /\ ~waiting' /\ cancelled' = {} => queue' = <<>> /\ running' = {}]_vars
  BY ResolveStep
<1> QED BY <1>1, AlwaysBase, CounterIsRunningAlways, PTL DEF Spec, ResolvesDrained
-----------------------------------------------------------------------------
(* The executor that a limiter implements.                                 *)
LEMMA InitImplements == Init => Abstract!Init
<1> SUFFICES ASSUME Init PROVE Abstract!Init
  OBVIOUS
<1>1. ToSet(queue) = {}
  BY DEF Init, QueueInit, ToSet
<1> QED BY <1>1 DEF Init, Abstract!Init

LEMMA ScheduleImplements ==
  ASSUME BaseInv, NEW job \in Jobs, Schedule(job) PROVE Abstract!Submit(job)
<1>1. job \notin scheduled /\ scheduled' = scheduled \union {job} /\ running' = running
  BY DEF Schedule
<1>2. ToSet(queue') \subseteq ToSet(queue) \union {job}
  <2>1. CASE Accept(job)
    <3>1. \A i \in 1..Len(queue) : queue[i] # job
      BY <1>1 DEF BaseInv, ContentsInv
    <3>2. \A i \in 1..Len(queue') :
            queue'[i] = job \/ \E a \in 1..Len(queue) : queue'[i] = queue[a]
      BY <2>1, <3>1, AcceptContents DEF BaseInv, ContentsInv
    <3>3. queue \in Seq(Jobs) /\ queue' \in Seq(Jobs)
      BY <2>1, AcceptQueueInv DEF BaseInv, QueueInv, QueueTypeOK
    <3> QED BY <3>2, <3>3 DEF ToSet
  <2>2. CASE Reject(job)
    <3>1. queue' = queue \/ queue' = <<>>
      BY <2>2 DEF Reject, Empty, queueVars
    <3> QED BY <3>1 DEF ToSet
  <2> QED BY <2>1, <2>2 DEF Schedule
<1> QED BY <1>1, <1>2 DEF Abstract!Submit

LEMMA StartJobImplements ==
  ASSUME BaseInv, CounterIsRunning, NEW job \in Jobs, StartJob(job) PROVE Abstract!Run(job)
<1>1. /\ \A i \in 1..Len(queue') : queue'[i] # job
      /\ \A i \in 1..Len(queue) : queue[i] = job \/ \E k \in 1..Len(queue') : queue'[k] = queue[i]
      /\ \A i \in 1..Len(queue') : \E a \in 1..Len(queue) : queue'[i] = queue[a]
      /\ \A i \in 1..Len(queue) : Priority[queue[i]] <= Priority[job]
      /\ BaseInv'
  BY StartJobBase
<1>2. queue \in Seq(Jobs) /\ queue' \in Seq(Jobs) /\ queue # <<>> /\ job = Head(queue)
  BY <1>1 DEF BaseInv, QueueInv, QueueTypeOK, StartJob, Dequeue
<1>3. /\ ToSet(queue) = {queue[i] : i \in 1..Len(queue)}
      /\ ToSet(queue') = {queue'[i] : i \in 1..Len(queue')}
  BY <1>2 DEF ToSet
<1>4. job \in ToSet(queue) /\ \A other \in ToSet(queue) : Priority[other] <= Priority[job]
  <2>1. job = queue[1] /\ 1 \in 1..Len(queue)
    BY <1>2
  <2> QED BY <1>1, <1>3, <2>1
<1>5. ToSet(queue') = ToSet(queue) \ {job}
  <2>1. \A other \in ToSet(queue') : other # job /\ other \in ToSet(queue)
    BY <1>1, <1>3
  <2>2. \A other \in ToSet(queue) : other = job \/ other \in ToSet(queue')
    BY <1>1, <1>3
  <2> QED BY <2>1, <2>2
<1>6. Cardinality(running) < Concurrency + Cardinality(Cancellable)
  <2>1. concurrency < Concurrency
    BY LimiterAssumption DEF StartJob, CanProcessMore, AtCapacity, BaseInv, OwnTypeOK
  <2>2. Cardinality(running) < Concurrency + Cardinality(cancelled)
    BY <2>1, StartBound
  <2>3. Cardinality(cancelled) <= Cardinality(Cancellable)
    BY LimiterAssumption, FS_Subset DEF BaseInv, JobSets
  <2>4. /\ Cardinality(running) \in Nat /\ Cardinality(cancelled) \in Nat
        /\ Cardinality(Cancellable) \in Nat /\ Concurrency \in Nat
    BY CountFinite, LimiterAssumption, FS_CardinalityType DEF BaseInv
  <2> QED BY <2>2, <2>3, <2>4
<1>7. scheduled' = scheduled /\ running' = running \union {job}
  BY DEF StartJob
<1>8. Abstract!Cardinality(running) = Cardinality(running)
  BY Zenon DEF Abstract!Cardinality, Cardinality
<1> QED BY <1>4, <1>5, <1>6, <1>7, <1>8, Zenon DEF Abstract!Run

(* Every limiter runs its jobs at most once, the most important ones       *)
(* first, in the slots it has: each of its steps is one of an executor, or *)
(* leaves the executor as it is.                                           *)
THEOREM ImplementsExecutor == Spec => Implements
<1>1. BaseInv /\ CounterIsRunning /\ [Next]_vars => [Abstract!Next]_(Abstract!vars)
  <2> SUFFICES ASSUME BaseInv, CounterIsRunning, [Next]_vars
               PROVE  Abstract!Next \/ UNCHANGED Abstract!vars
    OBVIOUS
  <2>1. ASSUME NEW job \in Jobs, Schedule(job) PROVE Abstract!Next
    BY <2>1, ScheduleImplements DEF Abstract!Next
  <2>2. ASSUME NEW job \in Jobs, StartJob(job) PROVE Abstract!Next
    BY <2>2, StartJobImplements DEF Abstract!Next
  <2>3. ASSUME NEW job \in Jobs, Settle(job) PROVE Abstract!Next
    <3>1. Abstract!Finish(job)
      BY <2>3 DEF Settle, queueVars, Abstract!Finish
    <3> QED BY <3>1 DEF Abstract!Next
  <2>4. ASSUME NEW job \in Jobs, Cancel(job) PROVE UNCHANGED Abstract!vars
    BY <2>4 DEF Cancel, queueVars, Abstract!vars
  <2>5. CASE Other
    <3>1. scheduled' = scheduled /\ running' = running
      BY <2>5, OtherFacts DEF jobVars
    <3>2. CASE queue' = queue
      BY <3>1, <3>2 DEF Abstract!vars
    <3>3. CASE queue' = <<>>
      <4>1. ToSet(queue') = {}
        BY <3>3 DEF ToSet
      <4>2. Abstract!Drop
        BY <3>1, <4>1 DEF Abstract!Drop
      <4> QED BY <4>2 DEF Abstract!Next
    <3> QED BY <2>5, <3>2, <3>3, OtherFacts
  <2> QED BY <2>1, <2>2, <2>3, <2>4, <2>5, NextCases
<1> QED BY <1>1, InitImplements, AlwaysBase, CounterIsRunningAlways, PTL
        DEF Spec, Implements, Abstract!Spec
=============================================================================
