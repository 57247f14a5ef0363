------------------------------ MODULE Firehose ------------------------------
(***************************************************************************)
(* A firehose (packages/api/firehose): a source reads jobs from its plug,  *)
(* the engine applies the strategies to them, and every sink publishes     *)
(* them; the job (packages/api/core, Jobs/JobHandler.ts) is resolved by    *)
(* the confirmations of the sinks, and then cleaned from the plug of the   *)
(* source.                                                                 *)
(*                                                                         *)
(* The streams are those of Node, modelled by what they do for the code:   *)
(* a readable calls _read() unless a read is pending or its buffer is full *)
(* and a push() ends the pending read; a writable takes what it is given   *)
(* and asks to wait when it is full; a pipe waits for all its writables.   *)
(* The input and the output of the engine are one buffer.                  *)
(*                                                                         *)
(* The plugs are the client's: they settle what they are asked, at any     *)
(* time, and their stop() is retried until it succeeds.                    *)
(***************************************************************************)
EXTENDS Integers, Sequences, FiniteSets, SequencesExt

CONSTANTS
  Sinks,            \* the sinks, in their order
  Jets,             \* those that publish several jobs at once
  Kinds,            \* kinds of the source: "sequence", "flow", "credits"
  SourceHighWater, EngineHighWater, SinkHighWater,
  FaultyJobs,       \* the jobs that a strategy may fail for
  GivesUp,          \* the sinks that may give up a job (the default is to retry for ever)
  MaxJobs,          \* bound: jobs that the plug of the source has
  MaxFailedStarts   \* bound: calls of start() that fail

SinkSet == ToSet(Sinks)
Jobs == 1 .. MaxJobs

ASSUME FirehoseAssumption ==
  /\ Sinks \in Seq(SinkSet) /\ IsInjective(Sinks) /\ Sinks # <<>>
  /\ Jets \subseteq SinkSet /\ GivesUp \subseteq SinkSet
  /\ Kinds \subseteq {"sequence", "flow", "credits"}
  /\ {SourceHighWater, EngineHighWater, SinkHighWater} \subseteq Nat \ {0}
  /\ FaultyJobs \subseteq Jobs /\ MaxJobs \in Nat /\ MaxFailedStarts \in Nat

VARIABLES
  phase,         \* what start() or stop() does: new, starting, undoing, started, stopping, stopped
  step,          \* how many parts it has handled
  wraps,         \* how often the firehose listens to its source
  failedStarts,
  kind,          \* the kind of the source
  created,       \* jobs that the plug has given
  sourceBuffer, reading,        \* the readable stream of the source
  pendingRequest,               \* of a sequence: its plug ingests
  emptied,                      \* history: it once brought nothing
  plugOn,                       \* of a flow: init() was called, and pause() was not since
  credits,                      \* of a credits flow
  engine,                       \* jobs in the engine
  piped,                        \* the sinks that the engine writes to
  buffer, writing, needDrain,   \* the writable streams of the sinks
  pendingDone,   \* per job, the confirmations it waits for
  errors,        \* the jobs that had an error
  status,        \* per job, what its 'done' reported
  confirmed,     \* history: per job, the sinks that called done()
  published,     \* history: per job, the sinks that published it
  cleaning,      \* jobs whose postConsume() runs
  doneEvents     \* per job, how often the firehose emitted 'done'

lifeVars == <<phase, step, wraps, failedStarts>>
sourceVars == <<kind, created, sourceBuffer, reading, pendingRequest, emptied, plugOn, credits>>
sinkVars == <<piped, buffer, writing, needDrain>>
jobVars == <<pendingDone, errors, status, confirmed, published>>
cleanVars == <<cleaning, doneEvents>>
vars == <<lifeVars, sourceVars, engine, sinkVars, jobVars, cleanVars>>

(* A job made from a request object waits for one confirmation: the number *)
(* of handlers is taken from a parameter that only the other form has.     *)
Init ==
  /\ phase = "new" /\ step = 0 /\ wraps = 0 /\ failedStarts = 0
  /\ kind \in Kinds
  /\ created = 0 /\ sourceBuffer = <<>> /\ reading = FALSE
  /\ pendingRequest = FALSE /\ emptied = FALSE /\ plugOn = FALSE /\ credits = 0
  /\ engine = <<>> /\ piped = {}
  /\ buffer = [s \in SinkSet |-> <<>>] /\ writing = [s \in SinkSet |-> {}] /\ needDrain = {}
  /\ pendingDone = [j \in Jobs |-> 1]
  /\ errors = {} /\ status = [j \in Jobs |-> "pending"]
  /\ confirmed = [j \in Jobs |-> {}] /\ published = [j \in Jobs |-> {}]
  /\ cleaning = {}
  /\ doneEvents = [j \in Jobs |-> 0]
-----------------------------------------------------------------------------
(***************************************************************************)
(* start() and stop().                                                     *)
(***************************************************************************)
Parts == Len(Sinks) + 1

Start ==
  /\ phase = "new"
  /\ phase' = "starting" /\ step' = 0 /\ wraps' = wraps + 1
  /\ UNCHANGED <<failedStarts, sourceVars, engine, sinkVars, jobVars, cleanVars>>

(* The next plug has started; after the last one the streams are piped. *)
PlugStarted ==
  /\ phase = "starting"
  /\ IF step + 1 < Parts
     THEN step' = step + 1 /\ UNCHANGED <<phase, piped>>
     ELSE step' = 0 /\ phase' = "started" /\ piped' = SinkSet
  /\ UNCHANGED <<wraps, failedStarts, sourceVars, engine, buffer, writing, needDrain, jobVars,
                 cleanVars>>

(* The next plug could not start: those that did are stopped, and start()  *)
(* rejects.  The firehose keeps listening.                                 *)
StartFails ==
  /\ phase = "starting" /\ failedStarts < MaxFailedStarts
  /\ failedStarts' = failedStarts + 1
  /\ phase' = IF step = 0 THEN "new" ELSE "undoing"
  /\ UNCHANGED <<step, wraps, sourceVars, engine, sinkVars, jobVars, cleanVars>>

PlugUndone ==
  /\ phase = "undoing"
  /\ step' = step - 1
  /\ phase' = IF step = 1 THEN "new" ELSE "undoing"
  /\ UNCHANGED <<wraps, failedStarts, sourceVars, engine, sinkVars, jobVars, cleanVars>>

Stop ==
  /\ phase = "started"
  /\ phase' = "stopping" /\ step' = 0 /\ wraps' = wraps - 1
  /\ UNCHANGED <<failedStarts, sourceVars, engine, sinkVars, jobVars, cleanVars>>

(* The plug of the next sink has stopped: its stream is unpiped and        *)
(* destroyed with what it holds, but for what it is writing.               *)
SinkStopped ==
  /\ phase = "stopping" /\ step < Len(Sinks)
  /\ step' = step + 1
  /\ LET s == Sinks[step + 1]
     IN  /\ piped' = piped \ {s}
         /\ buffer' = [buffer EXCEPT ![s] = <<>>]
         /\ needDrain' = needDrain \ {s}
  /\ UNCHANGED <<phase, wraps, failedStarts, sourceVars, engine, writing, jobVars, cleanVars>>

(* Then the one of the source, and nobody listens any more. *)
SourceStopped ==
  /\ phase = "stopping" /\ step = Len(Sinks)
  /\ phase' = "stopped" /\ step' = 0 /\ wraps' = 0
  /\ sourceBuffer' = <<>> /\ plugOn' = FALSE
  /\ UNCHANGED <<failedStarts, kind, created, reading, pendingRequest, emptied, credits, engine,
                 sinkVars, jobVars, cleanVars>>

Flows == phase \in {"started", "stopping"}
-----------------------------------------------------------------------------
(***************************************************************************)
(* The source.                                                             *)
(***************************************************************************)

(* Mutant: a flow is initialised only once. *)
ReadOnce ==
  /\ Flows /\ ~reading /\ Len(sourceBuffer) < SourceHighWater
  /\ reading' = TRUE
  /\ pendingRequest' = (kind = "sequence")
  /\ plugOn' = (kind = "flow" /\ (plugOn \/ created = 0))
  /\ credits' = IF kind = "credits" THEN MaxJobs ELSE credits
  /\ UNCHANGED <<lifeVars, kind, created, sourceBuffer, emptied, engine, sinkVars, jobVars,
                 cleanVars>>

(* The stream wants more: _read().  A sequence that already asked drops    *)
(* the request; credits that no job can use are not counted.               *)
Read ==
  /\ Flows /\ ~reading /\ Len(sourceBuffer) < SourceHighWater
  /\ reading' = TRUE
  /\ \/ /\ kind = "sequence"
        /\ pendingRequest' = TRUE
        /\ UNCHANGED <<plugOn, credits>>
     \/ /\ kind = "flow"
        /\ plugOn' = TRUE
        /\ UNCHANGED <<pendingRequest, credits>>
     \/ /\ kind = "credits"
        /\ credits' = IF credits + SourceHighWater < MaxJobs
                      THEN credits + SourceHighWater ELSE MaxJobs
        /\ UNCHANGED <<pendingRequest, plugOn>>
  /\ UNCHANGED <<lifeVars, kind, created, sourceBuffer, emptied, engine, sinkVars, jobVars,
                 cleanVars>>

(* The next n jobs of the plug are pushed. *)
Push(n) ==
  /\ created + n <= MaxJobs
  /\ created' = created + n
  /\ sourceBuffer' = sourceBuffer \o [i \in 1 .. n |-> created + i]
  /\ reading' = (reading /\ n = 0)

(* A sequence gets what it asked for, or nothing. *)
Ingested(n) ==
  /\ kind = "sequence" /\ phase # "stopped" /\ pendingRequest
  /\ Push(n)
  /\ pendingRequest' = FALSE
  /\ emptied' = (emptied \/ n = 0)
  /\ UNCHANGED <<lifeVars, kind, plugOn, credits, engine, sinkVars, jobVars, cleanVars>>

(* The plug emits 'data'.  A sequence listens while it waits, a flow is    *)
(* told to pause when the buffer is full.                                  *)
Data ==
  /\ phase # "stopped"
  /\ Push(1)
  /\ \/ kind = "sequence" /\ pendingRequest /\ UNCHANGED <<plugOn, credits>>
     \/ kind = "flow" /\ plugOn /\ plugOn' = (Len(sourceBuffer') < SourceHighWater)
        /\ UNCHANGED credits
     \/ kind = "credits" /\ credits > 0 /\ credits' = credits - 1 /\ UNCHANGED plugOn
  /\ UNCHANGED <<lifeVars, kind, pendingRequest, emptied, engine, sinkVars, jobVars, cleanVars>>
-----------------------------------------------------------------------------
(***************************************************************************)
(* The engine and the sinks.                                               *)
(***************************************************************************)

(* A job enters the engine, which applies its strategies. *)
Pump(fails) ==
  /\ Flows /\ sourceBuffer # <<>> /\ Len(engine) < EngineHighWater
  /\ fails => Head(sourceBuffer) \in FaultyJobs
  /\ sourceBuffer' = Tail(sourceBuffer)
  /\ engine' = Append(engine, Head(sourceBuffer))
  /\ errors' = IF fails THEN errors \union {Head(sourceBuffer)} ELSE errors
  /\ UNCHANGED <<lifeVars, kind, created, reading, pendingRequest, emptied, plugOn, credits,
                 sinkVars, pendingDone, status, confirmed, published, cleanVars>>

Idle(s) == writing[s] = {}
Load(s) == Len(buffer[s]) + Cardinality(writing[s])

(* Mutant: a sink that is busy misses the job. *)
DeliverToIdle ==
  /\ engine # <<>> /\ piped # {}
  /\ engine' = Tail(engine)
  /\ writing' = [s \in SinkSet |-> IF s \in piped /\ Idle(s) THEN {Head(engine)} ELSE writing[s]]
  /\ UNCHANGED <<lifeVars, sourceVars, piped, buffer, needDrain, jobVars, cleanVars>>

(* The next job is written to every sink; one that is busy buffers it. *)
Deliver ==
  /\ engine # <<>> /\ piped # {} /\ piped \intersect needDrain = {}
  /\ engine' = Tail(engine)
  /\ writing' = [s \in SinkSet |-> IF s \in piped /\ Idle(s) THEN {Head(engine)} ELSE writing[s]]
  /\ buffer' = [s \in SinkSet |->
                  IF s \in piped /\ ~Idle(s) THEN Append(buffer[s], Head(engine)) ELSE buffer[s]]
  /\ needDrain' = needDrain \union {s \in piped : Load(s) + 1 >= SinkHighWater}
  /\ UNCHANGED <<lifeVars, sourceVars, piped, jobVars, cleanVars>>

(* Mutant: the error of this confirmation comes after the status. *)
ConfirmEarly(s, done, ok) ==
  LET resolved == {j \in done : pendingDone[j] <= 1 /\ status[j] = "pending"}
  IN  /\ pendingDone' = [j \in Jobs |-> pendingDone[j] - (IF j \in done THEN 1 ELSE 0)]
      /\ errors' = IF ok THEN errors ELSE errors \union done
      /\ status' = [j \in Jobs |-> IF j \notin resolved THEN status[j]
                                   ELSE IF j \in errors THEN "failed" ELSE "completed"]
      /\ confirmed' = [j \in Jobs |-> confirmed[j] \union (IF j \in done THEN {s} ELSE {})]
      /\ published' = [j \in Jobs |-> published[j] \union (IF ok /\ j \in done THEN {s} ELSE {})]
      /\ cleaning' = cleaning \union resolved

(* A sink calls done() of some jobs.  A job is resolved once, and its      *)
(* source then has it cleaned.                                             *)
Confirm(s, done, ok) ==
  LET resolved == {j \in done : pendingDone[j] <= 1 /\ status[j] = "pending"}
  IN  /\ pendingDone' = [j \in Jobs |-> pendingDone[j] - (IF j \in done THEN 1 ELSE 0)]
      /\ errors' = IF ok THEN errors ELSE errors \union done
      /\ status' = [j \in Jobs |-> IF j \notin resolved THEN status[j]
                                   ELSE IF j \in errors' THEN "failed" ELSE "completed"]
      /\ confirmed' = [j \in Jobs |-> confirmed[j] \union (IF j \in done THEN {s} ELSE {})]
      /\ published' = [j \in Jobs |-> published[j] \union (IF ok /\ j \in done THEN {s} ELSE {})]
      /\ cleaning' = cleaning \union resolved

(* The plug of a sink published what it was given, or gave up; the next in *)
(* the buffer follows, or all of them when a jet has several.              *)
SinkDone(s, ok) ==
  /\ writing[s] # {} /\ (ok \/ s \in GivesUp)
  /\ Confirm(s, writing[s], ok)
  /\ LET n == IF s \in Jets /\ Len(buffer[s]) > 1 THEN Len(buffer[s])
              ELSE IF buffer[s] # <<>> THEN 1 ELSE 0
     IN  /\ writing' = [writing EXCEPT ![s] = ToSet(SubSeq(buffer[s], 1, n))]
         /\ buffer' = [buffer EXCEPT ![s] = SubSeq(@, n + 1, Len(@))]
         /\ needDrain' = IF n = 0 THEN needDrain \ {s} ELSE needDrain
  /\ UNCHANGED <<lifeVars, sourceVars, engine, piped, doneEvents>>
-----------------------------------------------------------------------------
(* postConsume() of a job ends, whatever it brings (module PlugWrapper),   *)
(* and the source emits 'done' to those who listen.                        *)
Cleaned(job) ==
  /\ job \in cleaning
  /\ cleaning' = cleaning \ {job}
  /\ doneEvents' = [doneEvents EXCEPT ![job] = @ + wraps]
  /\ UNCHANGED <<lifeVars, sourceVars, engine, sinkVars, jobVars>>
-----------------------------------------------------------------------------
Next ==
  \/ Start \/ PlugStarted \/ StartFails \/ PlugUndone \/ Stop \/ SinkStopped \/ SourceStopped
  \/ Read \/ Data \/ Deliver
  \/ \E n \in 0 .. SourceHighWater : Ingested(n)
  \/ \E fails \in BOOLEAN : Pump(fails)
  \/ \E s \in SinkSet, ok \in BOOLEAN : SinkDone(s, ok)
  \/ \E j \in Jobs : Cleaned(j)

(* The streams move what they can, the plug of the source has jobs as long *)
(* as there are any, and every publication and cleaning ends.  Nobody has  *)
(* to call start() or stop().                                              *)
Fairness ==
  /\ WF_vars(Read)
  /\ WF_vars(Data \/ \E n \in 1 .. SourceHighWater : Ingested(n))
  /\ WF_vars(\E fails \in BOOLEAN : Pump(fails))
  /\ WF_vars(Deliver)
  /\ \A s \in SinkSet : WF_vars(\E ok \in BOOLEAN : SinkDone(s, ok))
  /\ WF_vars(\E j \in Jobs : Cleaned(j))

Spec == Init /\ [][Next]_vars
FairSpec == Spec /\ Fairness
-----------------------------------------------------------------------------
TypeOK ==
  /\ phase \in {"new", "starting", "undoing", "started", "stopping", "stopped"}
  /\ step \in 0 .. Parts /\ wraps \in Nat /\ failedStarts \in 0 .. MaxFailedStarts
  /\ kind \in Kinds /\ created \in 0 .. MaxJobs /\ credits \in 0 .. MaxJobs
  /\ {reading, pendingRequest, emptied, plugOn} \subseteq BOOLEAN
  /\ {sourceBuffer, engine} \subseteq Seq(Jobs) /\ Len(engine) <= EngineHighWater
  /\ piped \subseteq SinkSet /\ needDrain \subseteq piped
  /\ \A s \in SinkSet : buffer[s] \in Seq(Jobs) /\ Load(s) <= SinkHighWater
  /\ pendingDone \in [Jobs -> Int]
  /\ errors \subseteq Jobs /\ cleaning \subseteq Jobs
  /\ status \in [Jobs -> {"pending", "completed", "failed"}]
  /\ doneEvents \in [Jobs -> Nat]

Ascends(s) == \A i, k \in DOMAIN s : i < k => s[i] < s[k]
At(s, j) == {x \in {"buffer"} : j \in ToSet(buffer[s])} \union {x \in {"writing"} : j \in writing[s]}
              \union {x \in {"confirmed"} : s \in confirmed[j]}

(* As long as nobody calls stop(), every job that the plug gave goes to    *)
(* every sink once and in the order in which it came, whatever the speed   *)
(* of the sinks: none is lost between the buffers, and none comes twice.   *)
EverySinkOnce ==
  phase = "started" =>
    \A s \in SinkSet :
      /\ Ascends(buffer[s] \o engine \o sourceBuffer)
      /\ \A j \in 1 .. created :
           IF j \in ToSet(engine) \union ToSet(sourceBuffer)
           THEN At(s, j) = {}
           ELSE Cardinality(At(s, j)) = 1

(* Backpressure: whatever the plugs and the sinks do, no sink and not the  *)
(* engine hold more than their high water, and a plug that is told to      *)
(* pause has not filled the source beyond its own.                         *)
BuffersAreBounded ==
  /\ kind = "flow" => Len(sourceBuffer) <= SourceHighWater
  /\ Len(engine) <= EngineHighWater
  /\ \A s \in SinkSet : Load(s) <= SinkHighWater

(* At least once: a job is cleaned and reported only after a sink is done  *)
(* with it, as completed only if a sink published it, and at any moment of *)
(* stop() no job that is only in a buffer is taken for done.               *)
CleanedIsConfirmed ==
  \A j \in Jobs :
    /\ (status[j] # "pending") <=> (confirmed[j] # {})
    /\ status[j] = "completed" => published[j] # {}
    /\ (doneEvents[j] > 0 \/ j \in cleaning) => status[j] # "pending"
    /\ failedStarts = 0 => doneEvents[j] + (IF j \in cleaning THEN 1 ELSE 0) <= 1

(* Every job that a source can read is reported, as long as its firehose   *)
(* stays started and no request of a sequence brings nothing.              *)
EveryJobIsReported ==
  <>[](phase = "started") /\ []~emptied => <>(\A j \in Jobs : doneEvents[j] > 0)

(* types/FirehoseOptions.i.ts of the number of sinks that must confirm a   *)
(* job: "default options is all of them".                                  *)
AllSinksConfirm ==
  \A j \in Jobs : status[j] # "pending" /\ phase = "started" => confirmed[j] = SinkSet
=============================================================================
