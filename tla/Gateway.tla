------------------------------- MODULE Gateway -------------------------------
(***************************************************************************)
(* An OpenC2 gateway (packages/api/openc2-core): its consumer receives     *)
(* commands from upstream and makes jobs of them, and its producer         *)
(* forwards them to the consumers downstream and waits for what they       *)
(* answer.  The producer looks its consumers up from time to time, and the *)
(* consumer offers upstream what they can do together.                     *)
(*                                                                         *)
(* The adapters are the client's: they deliver, lose, repeat and delay     *)
(* messages, and publish() may answer by itself, return nothing or fail.   *)
(* Downstream there is one action and target to ask for.  Commands that a  *)
(* resolver of the options takes are left out.                             *)
(*                                                                         *)
(* An error thrown in a timer or in a rejected promise that nobody handles *)
(* is taken to be survived by the process.                                 *)
(***************************************************************************)
EXTENDS Integers, Sequences, FiniteSets

CONSTANTS
  Consumers,      \* the consumers downstream
  MaxCommands,    \* bound: commands from upstream
  MaxStops        \* bound: calls of stop()

ASSUME GatewayAssumption ==
  IsFiniteSet(Consumers) /\ {MaxCommands, MaxStops} \subseteq Nat

Commands == 1 .. MaxCommands
Lookup == 0
Exchanges == {Lookup} \union Commands

VARIABLES
  phase, stops,
  exchange,       \* per command of the producer: none, waiting, resolved, rejected, stuck
  broadcast,      \* those that wait for several answers
  listening,      \* those whose handler listens to the adapter
  timers,         \* those whose timeout runs
  publishing,     \* those whose publish() has not settled
  map,            \* ConsumerMap: per consumer, absent, able, unable
  agingTimer,
  pairs,          \* does the consumer of the gateway offer the command?
  updated,        \* history: has the map reported anything?
  received,       \* the commands that came from upstream
  silent,         \* those of them that want no response
  job,            \* per command: none, pending, completed, failed
  registered,     \* Registry: pendingJobs
  interval,       \* Registry: is its timer armed?
  responses,      \* per command, the responses given upstream
  cleared,        \* history: jobs that were pending when the registry was cleared
  old             \* history: jobs that were ended because they were pending for too long

lifeVars == <<phase, stops>>
exchangeVars == <<exchange, broadcast, listening, timers, publishing>>
mapVars == <<map, agingTimer, pairs, updated>>
jobVars == <<received, silent, job, registered, interval, responses, cleared, old>>
vars == <<lifeVars, exchangeVars, mapVars, jobVars>>

Init ==
  /\ phase = "stopped" /\ stops = 0
  /\ exchange = [e \in Exchanges |-> "none"]
  /\ broadcast = {} /\ listening = {} /\ timers = {} /\ publishing = {}
  /\ map = [c \in Consumers |-> "absent"] /\ agingTimer = FALSE
  /\ pairs \in BOOLEAN /\ updated = FALSE
  /\ received = {} /\ silent = {} /\ job = [c \in Commands |-> "none"]
  /\ registered = {} /\ interval = FALSE /\ old = {}
  /\ responses = [c \in Commands |-> <<>>] /\ cleared = {}
-----------------------------------------------------------------------------
(***************************************************************************)
(* start() and stop().                                                     *)
(***************************************************************************)
StartProducer ==
  /\ phase = "stopped"
  /\ phase' = "starting"
  /\ UNCHANGED <<stops, exchangeVars, mapVars, jobVars>>

StartConsumer ==
  /\ phase = "starting"
  /\ phase' = "started"
  /\ UNCHANGED <<stops, exchangeVars, mapVars, jobVars>>

Stop ==
  /\ phase = "started" /\ stops < MaxStops
  /\ phase' = "stopping" /\ stops' = stops + 1
  /\ UNCHANGED <<exchangeVars, mapVars, jobVars>>

(* The consumer does not listen any more, and clears the common registry, ... *)
ConsumerStopped ==
  /\ phase = "stopping"
  /\ phase' = "stoppingProducer"
  /\ cleared' = cleared \union registered
  /\ registered' = {} /\ interval' = FALSE
  /\ UNCHANGED <<stops, exchangeVars, mapVars, received, silent, job, old, responses>>

(* ... and so does the producer; commands that wait go on waiting. *)
ProducerStopped ==
  /\ phase = "stoppingProducer"
  /\ phase' = "stopped"
  /\ UNCHANGED <<stops, exchangeVars, mapVars, jobVars>>

Subscribed == phase \in {"started", "stopping"}

(* The gateway hands its handlers to the health wrapper without itself:    *)
(* while it is started an error or a new status makes them throw, into the *)
(* code that reported it.                                                  *)
HandlersThrow == phase = "started"
-----------------------------------------------------------------------------
(***************************************************************************)
(* The jobs of the consumer and their registry.                            *)
(***************************************************************************)

(* Mutant: the timer ends with the second to last job. *)
JobsDoneUnwatched(jobs, ok) ==
  LET ended == {c \in jobs : job[c] = "pending"}
      Response(c) == IF c \in silent THEN <<>>
                     ELSE IF c \in registered /\ ok THEN <<"ok">> ELSE <<"error">>
  IN  /\ job' = [c \in Commands |-> IF c \notin ended THEN job[c]
                                    ELSE IF ok THEN "completed" ELSE "failed"]
      /\ responses' = [c \in Commands |-> IF c \in ended THEN responses[c] \o Response(c)
                                          ELSE responses[c]]
      /\ registered' = registered \ ended
      /\ interval' = (interval /\ Cardinality(registered') > 1)

(* Mutant: the job may be done again. *)
JobsDoneAgain(jobs, ok) ==
  LET ended == {c \in jobs : job[c] # "none"}
      Response(c) == IF c \in silent THEN <<>>
                     ELSE IF c \in registered /\ ok THEN <<"ok">> ELSE <<"error">>
  IN  /\ job' = [c \in Commands |-> IF c \notin ended THEN job[c]
                                    ELSE IF ok THEN "completed" ELSE "failed"]
      /\ responses' = [c \in Commands |-> IF c \in ended THEN responses[c] \o Response(c)
                                          ELSE responses[c]]
      /\ registered' = registered \ ended
      /\ interval' = (interval /\ registered' # {})

(* done() of some jobs: the first call ends a job, which leaves the        *)
(* registry and is responded to; one that was cleared gets an error.       *)
JobsDone(jobs, ok) ==
  LET ended == {c \in jobs : job[c] = "pending"}
      Response(c) == IF c \in silent THEN <<>>
                     ELSE IF c \in registered /\ ok THEN <<"ok">> ELSE <<"error">>
  IN  /\ job' = [c \in Commands |-> IF c \notin ended THEN job[c]
                                    ELSE IF ok THEN "completed" ELSE "failed"]
      /\ responses' = [c \in Commands |-> IF c \in ended THEN responses[c] \o Response(c)
                                          ELSE responses[c]]
      /\ registered' = registered \ ended
      /\ interval' = (interval /\ registered' # {})

(* The timer ends the jobs that are pending for too long. *)
CheckOldPendingJobs(jobs) ==
  /\ interval /\ jobs \subseteq registered
  /\ JobsDone(jobs, FALSE)
  /\ old' = old \union jobs
  /\ UNCHANGED <<lifeVars, exchangeVars, mapVars, received, silent, cleared>>
-----------------------------------------------------------------------------
(***************************************************************************)
(* The consumer map.                                                       *)
(***************************************************************************)
(* What a lookup finds: of the consumers that answer it, which are able to *)
(* execute the command.                                                    *)
Features == {"able", "unable"}
Findings == [Consumers -> Features \union {"none"}]
Nothing == [c \in Consumers |-> "none"]

Offers(m) == \E c \in Consumers : m[c] = "able"

(* Mutant: an entry that changed is not reported. *)
UpdateNew(found, throws) ==
  LET new == {c \in Consumers : found[c] # "none" /\ map[c] = "absent"}
  IN  /\ map' = [c \in Consumers |-> IF found[c] = "none" THEN map[c] ELSE found[c]]
      /\ pairs' = IF new # {} THEN Offers(map') ELSE pairs
      /\ updated' = (updated \/ new # {})
      /\ agingTimer' = (agingTimer \/ (~throws /\ \E c \in Consumers : map'[c] # "absent"))

(* update() of what a lookup found.  A listener that throws leaves the     *)
(* timer as it is.                                                         *)
Update(found, throws) ==
  LET changed == {c \in Consumers : found[c] # "none" /\ map[c] # found[c]}
  IN  /\ map' = [c \in Consumers |-> IF found[c] = "none" THEN map[c] ELSE found[c]]
      /\ pairs' = IF changed # {} THEN Offers(map') ELSE pairs
      /\ updated' = (updated \/ changed # {})
      /\ agingTimer' = (agingTimer \/ (~throws /\ \E c \in Consumers : map'[c] # "absent"))

(* The timer deletes the entries that are too old. *)
Aging(aged) ==
  /\ agingTimer /\ aged # {} /\ \A c \in aged : map[c] # "absent"
  /\ map' = [c \in Consumers |-> IF c \in aged THEN "absent" ELSE map[c]]
  /\ pairs' = Offers(map') /\ updated' = TRUE
  /\ agingTimer' = (\E c \in Consumers : map'[c] # "absent")
  /\ UNCHANGED <<lifeVars, exchangeVars, jobVars>>
-----------------------------------------------------------------------------
(***************************************************************************)
(* The commands of the producer.                                           *)
(***************************************************************************)

(* One that wants a response waits for it, and none waits for publish().   *)
Issue(e, several, quiet) ==
  LET waits == IF quiet THEN {} ELSE {e}
  IN  /\ exchange' = [exchange EXCEPT ![e] = "waiting"]
      /\ listening' = listening \union waits /\ timers' = timers \union waits
      /\ broadcast' = IF several THEN broadcast \union waits ELSE broadcast
      /\ publishing' = publishing \union {e}

(* It settles, and who issued it goes on.  The gateway hands done() of the *)
(* job to a rejection without the job: it throws, and the job stays.       *)
Settle(e, outcome, found) ==
  IF exchange[e] # "waiting" THEN UNCHANGED <<exchange, jobVars, mapVars>>
  ELSE /\ exchange' = [exchange EXCEPT ![e] = outcome]
       /\ IF e # Lookup /\ outcome = "resolved"
          THEN JobsDone({e}, TRUE) /\ UNCHANGED <<received, silent, cleared, old>>
          ELSE UNCHANGED jobVars
       /\ \/ /\ e = Lookup /\ outcome = "resolved"
             /\ \E throws \in BOOLEAN : (throws => HandlersThrow) /\ Update(found, throws)
          \/ /\ ~(e = Lookup /\ outcome = "resolved")
             /\ UNCHANGED mapVars

(* Nobody listens for it any more, and its timeout is cleared. *)
Release(e) ==
  /\ listening' = listening \ {e} /\ timers' = timers \ {e} /\ broadcast' = broadcast \ {e}

LookupTimer == phase # "stopped"

(* Timeouts are shorter than the interval of lookups. *)
PerformLookup ==
  /\ LookupTimer /\ exchange[Lookup] # "waiting"
  /\ Issue(Lookup, TRUE, FALSE)
  /\ UNCHANGED <<lifeVars, mapVars, jobVars>>

(* The consumer of a command answers it over the bus, fulfilled or not. *)
Answer(e, ok) ==
  /\ e \in listening \ broadcast
  /\ Release(e)
  /\ Settle(e, IF ok THEN "resolved" ELSE "rejected", Nothing)
  /\ UNCHANGED <<lifeVars, publishing>>

(* publish() brings answers itself.  They end a broadcast, whatever they   *)
(* are; a command to one consumer is resolved by one that fulfils it, and  *)
(* rejected by any other and by several.                                   *)
DirectAnswer(e, ok, found) ==
  /\ e \in publishing
  /\ publishing' = publishing \ {e}
  /\ Release(e)
  /\ Settle(e, IF ok \/ e \in broadcast \union silent THEN "resolved" ELSE "rejected", found)
  /\ UNCHANGED lifeVars

(* publish() brings nothing, or one acknowledgement. *)
Published(e) ==
  /\ e \in publishing
  /\ publishing' = publishing \ {e}
  /\ IF e \in silent THEN Settle(e, "resolved", Nothing)
     ELSE UNCHANGED <<exchange, jobVars, mapVars>>
  /\ UNCHANGED <<lifeVars, broadcast, listening, timers>>

(* Mutant: only the timer is given up. *)
PublishFailsListening(e) ==
  /\ e \in publishing
  /\ publishing' = publishing \ {e}
  /\ timers' = timers \ {e}
  /\ Settle(e, IF HandlersThrow /\ e \in timers THEN "stuck" ELSE "rejected", Nothing)
  /\ UNCHANGED <<lifeVars, broadcast, listening>>

(* publish() fails.  The error is reported before the command is rejected: *)
(* when the handlers throw, it never is.                                   *)
PublishFails(e) ==
  /\ e \in publishing
  /\ publishing' = publishing \ {e}
  /\ Release(e)
  /\ Settle(e, IF HandlersThrow /\ e \in timers THEN "stuck" ELSE "rejected", Nothing)
  /\ UNCHANGED lifeVars

(* The time for answers is over: a broadcast resolves with what it has. *)
Timeout(e, found) ==
  /\ e \in timers
  /\ Release(e)
  /\ Settle(e, IF e \in broadcast THEN "resolved" ELSE "rejected", found)
  /\ UNCHANGED <<lifeVars, publishing>>
-----------------------------------------------------------------------------
(***************************************************************************)
(* A command from upstream.                                                *)
(***************************************************************************)
Receives(c, quiet) ==
  /\ Subscribed /\ c \notin received
  /\ received' = received \union {c}
  /\ silent' = IF quiet THEN silent \union {c} ELSE silent

(* The consumer responds by itself: to a query of features, to one that    *)
(* wants an acknowledgement only, to one that comes too late, and with a   *)
(* refusal to what it does not offer.  (A query of features that wants no  *)
(* response is changed into one that does.)                                *)
DefaultResponse(c) ==
  /\ Receives(c, FALSE)
  /\ responses' = [responses EXCEPT ![c] = <<"default">>]
  /\ UNCHANGED <<lifeVars, exchangeVars, mapVars, job, registered, interval, cleared, old>>

Destinations == {c \in Consumers : map[c] = "able"}

(* What comes in time and is offered becomes a job.  So does everything    *)
(* that wants no response: a refusal is a response, there is none for it,  *)
(* and the consumer takes that for having nothing to refuse.               *)
BecomesJob(quiet) == pairs \/ quiet

(* It is forwarded to all consumers or to those that can execute it, ...   *)
Forward(c, quiet, toAll) ==
  /\ Receives(c, quiet) /\ BecomesJob(quiet)
  /\ toAll \/ Destinations # {}
  /\ job' = [job EXCEPT ![c] = "pending"]
  /\ registered' = registered \union {c} /\ interval' = TRUE
  /\ Issue(c, toAll \/ Cardinality(Destinations) > 1, quiet)
  /\ UNCHANGED <<lifeVars, mapVars, responses, cleared, old>>

(* ... or ends at once, when there is nobody to execute it or too little   *)
(* time.                                                                   *)
NotForwarded(c, quiet) ==
  /\ Receives(c, quiet) /\ BecomesJob(quiet)
  /\ job' = [job EXCEPT ![c] = "failed"]
  /\ responses' = [responses EXCEPT ![c] = IF quiet THEN <<>> ELSE <<"error">>]
  /\ UNCHANGED <<lifeVars, exchangeVars, mapVars, registered, interval, cleared, old>>
-----------------------------------------------------------------------------
Next ==
  \/ StartProducer \/ StartConsumer \/ Stop \/ ConsumerStopped \/ ProducerStopped
  \/ PerformLookup
  \/ \E jobs \in SUBSET registered \ {{}} : CheckOldPendingJobs(jobs)
  \/ \E aged \in SUBSET Consumers : Aging(aged)
  \/ \E e \in Commands, ok \in BOOLEAN : Answer(e, ok) \/ DirectAnswer(e, ok, Nothing)
  \/ \E found \in Findings : DirectAnswer(Lookup, TRUE, found) \/ Timeout(Lookup, found)
  \/ \E e \in Exchanges : Published(e) \/ PublishFails(e)
  \/ \E e \in Commands : Timeout(e, Nothing)
  \/ \E c \in Commands : DefaultResponse(c)
  \/ \E c \in Commands, quiet \in BOOLEAN : NotForwarded(c, quiet)
  \/ \E c \in Commands, quiet \in BOOLEAN, toAll \in BOOLEAN : Forward(c, quiet, toAll)

(* A job that stays is pending for too long some day, and the timer sees it. *)
Fairness ==
  \A c \in Commands :
    WF_vars(\E jobs \in SUBSET registered : c \in jobs /\ CheckOldPendingJobs(jobs))

Spec == Init /\ [][Next]_vars
FairSpec == Spec /\ Fairness
-----------------------------------------------------------------------------
TypeOK ==
  /\ phase \in {"stopped", "starting", "started", "stopping", "stoppingProducer"}
  /\ stops \in 0 .. MaxStops
  /\ exchange \in [Exchanges -> {"none", "waiting", "resolved", "rejected", "stuck"}]
  /\ {broadcast, listening, timers, publishing} \subseteq SUBSET Exchanges
  /\ {agingTimer, pairs, updated, interval} \subseteq BOOLEAN
  /\ map \in [Consumers -> Features \union {"absent"}]
  /\ received \subseteq Commands /\ silent \subseteq received
  /\ job \in [Commands -> {"none", "pending", "completed", "failed"}]
  /\ {registered, cleared, old} \subseteq SUBSET Commands
  /\ responses \in [Commands -> Seq({"ok", "error", "default"})]

(* What the gateway offers upstream is what its consumers can do together, *)
(* while answers come in, change and age; before the first one it is what  *)
(* its options say.                                                        *)
OffersWhatItKnows ==
  IF updated THEN pairs = Offers(map) ELSE \A c \in Consumers : map[c] = "absent"

(* A command that has settled, by an answer, by publish() or by its        *)
(* timeout, leaves no listener and no timer behind, and one that waits for *)
(* responses always has both: it does not wait for ever.                   *)
SettledIsForgotten ==
  \A e \in Exchanges :
    /\ e \in listening <=> e \in timers
    /\ e \in timers => exchange[e] = "waiting"
    /\ exchange[e] = "waiting" => e \in timers \union (publishing \intersect silent)

(* Every job that waits is watched by the timer of the registry, unless    *)
(* the registry was cleared by a stop().                                   *)
PendingIsWatched ==
  /\ registered = {c \in Commands : job[c] = "pending"} \ cleared
  /\ interval = (registered # {})

(* A command is responded to once, whatever of answers, timeouts, checks   *)
(* and stop() comes first: as fulfilled only when it was resolved          *)
(* downstream, and with an error only when it was not forwarded, pending   *)
(* for too long or thrown out of the registry.                             *)
ResponseIsTrue ==
  \A c \in Commands :
    /\ Len(responses[c]) <= 1
    /\ job[c] = "pending" => responses[c] = <<>>
    /\ responses[c] = <<"ok">> => exchange[c] = "resolved"
    /\ responses[c] = <<"error">> => exchange[c] = "none" \/ c \in cleared \union old

(* A job ends even if its command is rejected or stuck downstream, unless  *)
(* the gateway is stopped.                                                 *)
EveryJobEnds == [](stops = 0) => \A c \in Commands : job[c] = "pending" ~> job[c] # "pending"

(* JobHandler.ts of the event 'done' of a job: it "is emitted when a job   *)
(* has ended, either due to completion or failure".                        *)
FailureEndsTheJob == \A c \in Commands : exchange[c] = "rejected" => job[c] # "pending"
=============================================================================
