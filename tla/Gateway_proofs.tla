--------------------------- MODULE Gateway_proofs ---------------------------
(***************************************************************************)
(* What holds of a gateway with any number of consumers, commands and      *)
(* stops.  The invariant has a part for each of its three registries: the  *)
(* commands of the producer, the jobs of the consumer and the consumer     *)
(* map.                                                                    *)
(***************************************************************************)
EXTENDS Gateway, SequenceTheorems, TLAPS

Outcomes == {"resolved", "rejected", "stuck"}
Answers == {"ok", "error", "default"}

LifeInv ==
  /\ phase \in {"stopped", "starting", "started", "stopping", "stoppingProducer"}
  /\ stops \in 0 .. MaxStops

(* Nobody waits for the response of a silent command, and nothing is       *)
(* issued for a command before it is received.                             *)
ExchangeInv ==
  /\ exchange \in [Exchanges -> {"none", "waiting"} \union Outcomes]
  /\ broadcast \subseteq Exchanges /\ listening \subseteq Exchanges
  /\ timers \subseteq Exchanges /\ publishing \subseteq Exchanges
  /\ received \subseteq Commands /\ silent \subseteq received
  /\ SettledIsForgotten
  /\ \A e \in silent : e \notin timers
  /\ \A c \in Commands : c \notin received => exchange[c] = "none"

(* A command that was not received has no job, now or ever before. *)
JobInv ==
  /\ job \in [Commands -> {"none", "pending", "completed", "failed"}]
  /\ registered \subseteq Commands /\ cleared \subseteq Commands /\ old \subseteq Commands
  /\ interval \in BOOLEAN
  /\ responses \in [Commands -> Seq(Answers)]
  /\ PendingIsWatched
  /\ ResponseIsTrue
  /\ \A c \in Commands : c \notin received =>
       job[c] = "none" /\ responses[c] = <<>> /\ c \notin cleared

MapInv ==
  /\ map \in [Consumers -> Features \union {"absent"}]
  /\ agingTimer \in BOOLEAN /\ pairs \in BOOLEAN /\ updated \in BOOLEAN
  /\ OffersWhatItKnows

IInv == LifeInv /\ ExchangeInv /\ JobInv /\ MapInv

LEMMA IInvIsTyped == IInv => TypeOK
BY DEF IInv, LifeInv, ExchangeInv, JobInv, MapInv, TypeOK, Outcomes, Answers

LEMMA OneAnswer ==
  /\ <<>> \in Seq(Answers) /\ Len(<<>>) = 0
  /\ \A a \in Answers : <<a>> \in Seq(Answers) /\ Len(<<a>>) = 1 /\ <<>> \o <<a>> = <<a>>
<1>1. \A a \in Answers : <<a>> \in Seq(Answers) /\ Len(<<a>>) = 1
  OBVIOUS
<1> QED BY <1>1, EmptySeq, ConcatEmptySeq

LEMMA InitIInv == Init => IInv
<1> SUFFICES ASSUME Init PROVE IInv
  OBVIOUS
<1>1. LifeInv /\ ExchangeInv
  BY GatewayAssumption DEF Init, LifeInv, ExchangeInv, Exchanges, Commands, Outcomes, SettledIsForgotten
<1>2. JobInv
  <2>1. PendingIsWatched
    BY DEF Init, PendingIsWatched
  <2>2. ResponseIsTrue
    BY OneAnswer DEF Init, ResponseIsTrue, Exchanges
  <2> QED BY <2>1, <2>2, OneAnswer DEF Init, JobInv
<1>3. MapInv
  BY DEF Init, MapInv, OffersWhatItKnows, Features
<1> QED BY <1>1, <1>2, <1>3 DEF IInv
-----------------------------------------------------------------------------
(***************************************************************************)
(* What the operations do to the three parts.                              *)
(***************************************************************************)

(* done() ends the pending ones of some jobs, and responds to no others. *)
Ended(jobs) == {c \in jobs : job[c] = "pending"}

LEMMA JobsDoneFacts ==
  ASSUME JobInv, NEW jobs \in SUBSET Commands, NEW ok \in BOOLEAN, JobsDone(jobs, ok)
  PROVE  /\ job' \in [Commands -> {"none", "pending", "completed", "failed"}]
         /\ responses' \in [Commands -> Seq(Answers)]
         /\ registered' = registered \ Ended(jobs)
         /\ interval' = (registered' # {})
         /\ \A c \in Commands \ Ended(jobs) :
              job'[c] = job[c] /\ responses'[c] = responses[c]
         /\ \A c \in Ended(jobs) :
              /\ job'[c] \in {"completed", "failed"}
              /\ \/ responses'[c] = <<>>
                 \/ responses'[c] = <<"ok">> /\ ok /\ c \in registered
                 \/ responses'[c] = <<"error">> /\ ~(ok /\ c \in registered)
<1> DEFINE Response(c) == IF c \in silent THEN <<>>
                          ELSE IF c \in registered /\ ok THEN <<"ok">> ELSE <<"error">>
<1>1. /\ job' = [c \in Commands |-> IF c \notin Ended(jobs) THEN job[c]
                                    ELSE IF ok THEN "completed" ELSE "failed"]
      /\ responses' = [c \in Commands |-> IF c \in Ended(jobs) THEN responses[c] \o Response(c)
                                          ELSE responses[c]]
      /\ registered' = registered \ Ended(jobs)
      /\ interval' = (interval /\ registered' # {})
  BY DEF JobsDone, Ended
<1>2. ASSUME NEW c \in Ended(jobs) PROVE responses[c] \o Response(c) = Response(c)
  <2>1. c \in Commands /\ responses[c] = <<>>
    BY DEF Ended, JobInv, ResponseIsTrue
  <2> QED BY <2>1, OneAnswer, ConcatEmptySeq DEF Answers
<1>3. \A c \in Ended(jobs) : responses'[c] = Response(c)
  BY <1>1, <1>2 DEF Ended
<1> HIDE DEF Response
<1>4. \A c \in Commands : Response(c) \in Seq(Answers)
  BY OneAnswer DEF Response, Answers
<1>5. responses' \in [Commands -> Seq(Answers)]
  BY <1>1, <1>2, <1>4 DEF JobInv, Ended
<1>6. interval' = (registered' # {})
  BY <1>1 DEF JobInv, PendingIsWatched
<1>7. job' \in [Commands -> {"none", "pending", "completed", "failed"}]
  BY <1>1 DEF JobInv
<1>8. \A c \in Ended(jobs) : job'[c] \in {"completed", "failed"}
  BY <1>1 DEF Ended
<1>9. \A c \in Commands \ Ended(jobs) : job'[c] = job[c] /\ responses'[c] = responses[c]
  BY <1>1
<1> QED BY <1>1, <1>3, <1>5, <1>6, <1>7, <1>8, <1>9 DEF Response

LEMMA JobsDoneKeeps ==
  ASSUME JobInv, NEW jobs \in SUBSET Commands, NEW ok \in BOOLEAN, JobsDone(jobs, ok),
         UNCHANGED <<received, cleared>>, old' \in SUBSET Commands,
         \A c \in Commands :
            /\ responses[c] = <<"ok">> => exchange'[c] = "resolved"
            /\ responses[c] = <<"error">> => exchange'[c] = "none" \/ c \in cleared' \union old',
         \A c \in Ended(jobs) : IF ok THEN exchange'[c] = "resolved" ELSE c \in old'
  PROVE  JobInv'
<1>1. /\ job' \in [Commands -> {"none", "pending", "completed", "failed"}]
      /\ responses' \in [Commands -> Seq(Answers)]
      /\ registered' = registered \ Ended(jobs)
      /\ interval' = (registered' # {})
      /\ \A c \in Commands \ Ended(jobs) :
           job'[c] = job[c] /\ responses'[c] = responses[c]
  BY JobsDoneFacts, Zenon
<1>2. \A c \in Ended(jobs) :
        /\ job'[c] \in {"completed", "failed"}
        /\ \/ responses'[c] = <<>>
           \/ responses'[c] = <<"ok">> /\ ok /\ c \in registered
           \/ responses'[c] = <<"error">> /\ ~(ok /\ c \in registered)
  BY JobsDoneFacts, Zenon
<1>3. PendingIsWatched'
  <2>1. registered = {c \in Commands : job[c] = "pending"} \ cleared
    BY DEF JobInv, PendingIsWatched
  <2>2. \A c \in Commands : job'[c] = "pending" <=> job[c] = "pending" /\ c \notin Ended(jobs)
    BY <1>1, <1>2
  <2>3. registered' = {c \in Commands : job'[c] = "pending"} \ cleared'
    BY <1>1, <2>1, <2>2
  <2> QED BY <1>1, <2>3 DEF PendingIsWatched
<1>4. ResponseIsTrue'
  <2> SUFFICES ASSUME NEW c \in Commands
      PROVE /\ Len(responses'[c]) <= 1
            /\ job'[c] = "pending" => responses'[c] = <<>>
            /\ responses'[c] = <<"ok">> => exchange'[c] = "resolved"
            /\ responses'[c] = <<"error">> => exchange'[c] = "none" \/ c \in cleared' \union old'
    BY DEF ResponseIsTrue
  <2>1. CASE c \in Ended(jobs)
    <3>1. c \notin registered => c \in cleared'
      BY <2>1 DEF JobInv, PendingIsWatched, Ended
    <3>2. /\ <<"error">> # <<"ok">> /\ <<>> # <<"ok">> /\ <<>> # <<"error">>
          /\ Len(<<>>) = 0 /\ Len(<<"ok">>) = 1 /\ Len(<<"error">>) = 1
      OBVIOUS
    <3>3. CASE responses'[c] = <<>>
      BY <1>2, <2>1, <3>2, <3>3
    <3>4. CASE responses'[c] = <<"ok">> /\ ok /\ c \in registered
      BY <1>2, <2>1, <3>2, <3>4
    <3>5. CASE responses'[c] = <<"error">> /\ ~(ok /\ c \in registered)
      BY <1>2, <2>1, <3>1, <3>2, <3>5
    <3> QED BY <1>2, <2>1, <3>3, <3>4, <3>5
  <2>2. CASE c \notin Ended(jobs)
    BY <1>1, <2>2 DEF JobInv, ResponseIsTrue
  <2> QED BY <2>1, <2>2
<1>5. \A c \in Commands : c \notin received' =>
        job'[c] = "none" /\ responses'[c] = <<>> /\ c \notin cleared'
  BY <1>1 DEF JobInv, Ended
<1> QED BY <1>1, <1>3, <1>4, <1>5 DEF JobInv

LEMMA UpdateFacts ==
  ASSUME MapInv, NEW found \in Findings, NEW throws \in BOOLEAN, Update(found, throws)
  PROVE  MapInv'
<1> DEFINE changed == {c \in Consumers : found[c] # "none" /\ map[c] # found[c]}
<1>1. /\ map' = [c \in Consumers |-> IF found[c] = "none" THEN map[c] ELSE found[c]]
      /\ pairs' = IF changed # {} THEN Offers(map') ELSE pairs
      /\ updated' = (updated \/ changed # {})
      /\ agingTimer' = (agingTimer \/ (~throws /\ \E c \in Consumers : map'[c] # "absent"))
  BY DEF Update
<1>2. map' \in [Consumers -> Features \union {"absent"}]
  BY <1>1 DEF MapInv, Findings
<1>3. pairs' \in BOOLEAN /\ updated' \in BOOLEAN /\ agingTimer' \in BOOLEAN
  BY <1>1 DEF MapInv, Offers
<1>4. CASE changed = {}
  <2>1. map' = map
    BY <1>1, <1>4 DEF MapInv
  <2> QED BY <1>1, <1>2, <1>3, <1>4, <2>1 DEF MapInv, OffersWhatItKnows
<1>5. CASE changed # {}
  <2> HIDE DEF changed
  <2>1. pairs' = Offers(map') /\ updated'
    BY <1>1, <1>5
  <2> QED BY <1>2, <1>3, <2>1, Zenon DEF MapInv, OffersWhatItKnows
<1> QED BY <1>4, <1>5

(* An exchange that settles leaves all three parts in order, and only its  *)
(* own state changes.                                                      *)
LEMMA SettleFacts ==
  ASSUME IInv, NEW e \in Exchanges, NEW outcome \in Outcomes, NEW found \in Findings,
         Settle(e, outcome, found)
  PROVE  /\ JobInv' /\ MapInv'
         /\ received' = received /\ silent' = silent
         /\ exchange' \in [Exchanges -> {"none", "waiting"} \union Outcomes]
         /\ exchange'[e] # "waiting" /\ (exchange[e] = "none" => exchange'[e] = "none")
         /\ \A other \in Exchanges \ {e} : exchange'[other] = exchange[other]
<1> USE DEF IInv
<1>1. CASE exchange[e] # "waiting"
  <2>1. UNCHANGED <<exchange, jobVars, mapVars>>
    BY <1>1 DEF Settle
  <2>2. JobInv'
    BY <2>1 DEF jobVars, JobInv, PendingIsWatched, ResponseIsTrue
  <2>3. MapInv'
    BY <2>1 DEF mapVars, MapInv, OffersWhatItKnows, Offers
  <2> QED BY <1>1, <2>1, <2>2, <2>3 DEF jobVars, ExchangeInv
<1>2. CASE exchange[e] = "waiting"
  <2>1. exchange' = [exchange EXCEPT ![e] = outcome]
    BY <1>2 DEF Settle
  <2>2. /\ exchange' \in [Exchanges -> {"none", "waiting"} \union Outcomes]
        /\ exchange'[e] = outcome
        /\ \A other \in Exchanges \ {e} : exchange'[other] = exchange[other]
    BY <2>1 DEF ExchangeInv
  <2>3. MapInv'
    <3>1. CASE UNCHANGED mapVars
      BY <3>1 DEF mapVars, MapInv, OffersWhatItKnows, Offers
    <3>2. ASSUME NEW throws \in BOOLEAN, Update(found, throws) PROVE MapInv'
      BY <3>2, UpdateFacts
    <3> QED BY <1>2, <3>1, <3>2 DEF Settle
  <2>4. CASE e # Lookup /\ outcome = "resolved"
    <3>1. /\ JobsDone({e}, TRUE)
          /\ UNCHANGED <<received, silent, cleared, old>>
      BY <1>2, <2>4 DEF Settle
    <3>2. {e} \in SUBSET Commands
      BY <2>4 DEF Exchanges
    <3>3. \A c \in Commands :
            /\ responses[c] = <<"ok">> => exchange'[c] = "resolved"
            /\ responses[c] = <<"error">> => exchange'[c] = "none" \/ c \in cleared' \union old'
      BY <1>2, <2>2, <2>4, <3>1 DEF JobInv, ResponseIsTrue, Exchanges
    <3>4. \A c \in Ended({e}) : exchange'[c] = "resolved"
      BY <2>2, <2>4 DEF Ended
    <3>5. old' \in SUBSET Commands
      BY <3>1 DEF JobInv
    <3>6. JobInv'
      BY <3>1, <3>2, <3>3, <3>4, <3>5, JobsDoneKeeps
    <3> QED BY <1>2, <2>2, <2>3, <2>4, <3>1, <3>6
  <2>5. CASE ~(e # Lookup /\ outcome = "resolved")
    <3>1. UNCHANGED jobVars
      BY <1>2, <2>5 DEF Settle
    <3>2. ResponseIsTrue'
      BY <1>2, <2>2, <3>1 DEF JobInv, jobVars, ResponseIsTrue, Exchanges
    <3>3. JobInv'
      BY <3>1, <3>2 DEF JobInv, jobVars, PendingIsWatched
    <3> QED BY <1>2, <2>2, <2>3, <3>1, <3>3 DEF jobVars, Outcomes
  <2> QED BY <2>4, <2>5
<1> QED BY <1>1, <1>2
-----------------------------------------------------------------------------
(***************************************************************************)
(* Every action keeps the invariant.                                       *)
(***************************************************************************)

LEMMA StutterExchange ==
  ASSUME ExchangeInv, UNCHANGED exchangeVars, UNCHANGED <<received, silent>>
  PROVE  ExchangeInv'
BY DEF exchangeVars, ExchangeInv, SettledIsForgotten

LEMMA StutterJobs ==
  ASSUME JobInv, UNCHANGED jobVars, UNCHANGED exchange
  PROVE  JobInv'
BY DEF jobVars, JobInv, PendingIsWatched, ResponseIsTrue

LEMMA StutterMap ==
  ASSUME MapInv, UNCHANGED mapVars
  PROVE  MapInv'
BY DEF mapVars, MapInv, OffersWhatItKnows, Offers

(* An exchange that is released and settles, or whose publish() ends. *)
LEMMA ReleaseKeeps ==
  ASSUME IInv, NEW e \in Exchanges, NEW outcome \in Outcomes, NEW found \in Findings,
         Release(e), Settle(e, outcome, found),
         publishing' \in {publishing, publishing \ {e}}, UNCHANGED lifeVars
  PROVE  IInv'
<1>1. /\ JobInv' /\ MapInv'
      /\ received' = received /\ silent' = silent
      /\ exchange' \in [Exchanges -> {"none", "waiting"} \union Outcomes]
      /\ exchange'[e] # "waiting" /\ (exchange[e] = "none" => exchange'[e] = "none")
      /\ \A other \in Exchanges \ {e} : exchange'[other] = exchange[other]
  BY SettleFacts, Zenon
<1>2. SettledIsForgotten'
  BY <1>1 DEF IInv, ExchangeInv, SettledIsForgotten, Release
<1>3. \A c \in Commands : c \notin received' => exchange'[c] = "none"
  BY <1>1 DEF IInv, ExchangeInv, Exchanges
<1>4. ExchangeInv'
  BY <1>1, <1>2, <1>3 DEF IInv, ExchangeInv, Release
<1> QED BY <1>1, <1>4 DEF IInv, LifeInv, lifeVars

LEMMA NothingIsFound == Nothing \in Findings
BY DEF Nothing, Findings

LEMMA NextIInv == IInv /\ [Next]_vars => IInv'
<1> SUFFICES ASSUME IInv, [Next]_vars PROVE IInv'
  OBVIOUS
<1> USE NothingIsFound
<1>0. CASE UNCHANGED vars
  BY <1>0, StutterExchange, StutterJobs, StutterMap
     DEF vars, IInv, LifeInv, lifeVars, exchangeVars, jobVars
<1>1. CASE StartProducer \/ StartConsumer \/ Stop \/ ProducerStopped
  <2>1. UNCHANGED <<exchangeVars, mapVars, jobVars>> /\ LifeInv'
    BY <1>1, GatewayAssumption
       DEF StartProducer, StartConsumer, Stop, ProducerStopped, IInv, LifeInv
  <2> QED BY <2>1, StutterExchange, StutterJobs, StutterMap DEF IInv, exchangeVars, jobVars
<1>2. CASE ConsumerStopped
  <2>1. /\ UNCHANGED <<exchangeVars, mapVars, received, silent, job, old, responses>>
        /\ LifeInv'
        /\ cleared' = cleared \union registered /\ registered' = {} /\ interval' = FALSE
    BY <1>2 DEF ConsumerStopped, IInv, LifeInv
  <2>2. PendingIsWatched'
    BY <2>1 DEF IInv, JobInv, PendingIsWatched
  <2>3. JobInv'
    BY <2>1, <2>2 DEF IInv, JobInv, ResponseIsTrue, PendingIsWatched, exchangeVars
  <2> QED BY <2>1, <2>3, StutterExchange, StutterMap DEF IInv
<1>3. ASSUME NEW jobs \in SUBSET registered \ {{}}, CheckOldPendingJobs(jobs) PROVE IInv'
  <2>1. /\ JobsDone(jobs, FALSE) /\ old' = old \union jobs
        /\ UNCHANGED <<lifeVars, exchangeVars, mapVars, received, silent, cleared>>
    BY <1>3 DEF CheckOldPendingJobs
  <2>2. jobs \in SUBSET Commands /\ old' \in SUBSET Commands
    BY <2>1 DEF IInv, JobInv
  <2>3. \A c \in Commands :
          /\ responses[c] = <<"ok">> => exchange'[c] = "resolved"
          /\ responses[c] = <<"error">> => exchange'[c] = "none" \/ c \in cleared' \union old'
    BY <2>1 DEF IInv, JobInv, ResponseIsTrue, exchangeVars
  <2>4. \A c \in Ended(jobs) : c \in old'
    BY <2>1 DEF Ended
  <2>5. JobInv'
    BY <2>1, <2>2, <2>3, <2>4, JobsDoneKeeps DEF IInv
  <2> QED BY <2>1, <2>5, StutterExchange, StutterMap DEF IInv, LifeInv, lifeVars
<1>4. ASSUME NEW aged \in SUBSET Consumers, Aging(aged) PROVE IInv'
  <2>1. /\ map' = [c \in Consumers |-> IF c \in aged THEN "absent" ELSE map[c]]
        /\ pairs' = Offers(map') /\ updated' = TRUE
        /\ agingTimer' = (\E c \in Consumers : map'[c] # "absent")
        /\ UNCHANGED <<lifeVars, exchangeVars, jobVars>>
    BY <1>4 DEF Aging
  <2>2. map' \in [Consumers -> Features \union {"absent"}] /\ pairs' \in BOOLEAN /\ agingTimer' \in BOOLEAN
    BY <2>1 DEF IInv, MapInv, Offers
  <2>3. MapInv'
    BY <2>1, <2>2, Zenon DEF MapInv, OffersWhatItKnows
  <2> QED BY <2>1, <2>3, StutterExchange, StutterJobs
          DEF IInv, LifeInv, lifeVars, exchangeVars, jobVars
<1>5. CASE PerformLookup
  <2>1. /\ exchange' = [exchange EXCEPT ![Lookup] = "waiting"]
        /\ listening' = listening \union {Lookup} /\ timers' = timers \union {Lookup}
        /\ broadcast' = broadcast \union {Lookup} /\ publishing' = publishing \union {Lookup}
        /\ exchange[Lookup] # "waiting"
        /\ UNCHANGED <<lifeVars, mapVars, jobVars>>
    BY <1>5 DEF PerformLookup, Issue
  <2>2. Lookup \in Exchanges /\ Lookup \notin Commands
    BY DEF Exchanges, Commands, Lookup
  <2>3. ExchangeInv'
    BY <2>1, <2>2 DEF IInv, ExchangeInv, SettledIsForgotten, jobVars, Exchanges
  <2>4. \A c \in Commands : exchange'[c] = exchange[c]
    BY <2>1, <2>2 DEF IInv, ExchangeInv, Exchanges
  <2>5. JobInv'
    BY <2>1, <2>4 DEF IInv, JobInv, jobVars, PendingIsWatched, ResponseIsTrue
  <2> QED BY <2>1, <2>3, <2>5, StutterMap DEF IInv, LifeInv, lifeVars
<1>6. ASSUME NEW e \in Commands, NEW ok \in BOOLEAN, Answer(e, ok) PROVE IInv'
  <2>1. /\ Release(e) /\ UNCHANGED <<lifeVars, publishing>>
        /\ Settle(e, IF ok THEN "resolved" ELSE "rejected", Nothing)
    BY <1>6 DEF Answer
  <2>2. (IF ok THEN "resolved" ELSE "rejected") \in Outcomes
    BY DEF Outcomes
  <2>3. e \in Exchanges
    BY DEF Exchanges
  <2> QED BY <2>1, <2>2, <2>3, ReleaseKeeps
<1>7. ASSUME NEW e \in Exchanges, NEW ok \in BOOLEAN, NEW found \in Findings,
             DirectAnswer(e, ok, found)
      PROVE  IInv'
  <2> DEFINE outcome == IF ok \/ e \in broadcast \union silent THEN "resolved" ELSE "rejected"
  <2>1. /\ Release(e) /\ UNCHANGED lifeVars /\ publishing' = publishing \ {e}
        /\ Settle(e, outcome, found)
    BY <1>7 DEF DirectAnswer
  <2>2. outcome \in Outcomes
    BY DEF Outcomes
  <2> HIDE DEF outcome
  <2> QED BY <2>1, <2>2, ReleaseKeeps
<1>8. ASSUME NEW e \in Exchanges, Published(e) PROVE IInv'
  <2>1. /\ e \in publishing /\ publishing' = publishing \ {e}
        /\ IF e \in silent THEN Settle(e, "resolved", Nothing)
           ELSE UNCHANGED <<exchange, jobVars, mapVars>>
        /\ UNCHANGED <<lifeVars, broadcast, listening, timers>>
    BY <1>8 DEF Published
  <2>2. CASE e \in silent
    <3>1. "resolved" \in Outcomes
      BY DEF Outcomes
    <3>2. e \notin listening /\ e \notin timers
      BY <2>2 DEF IInv, ExchangeInv, SettledIsForgotten
    <3>3. /\ JobInv' /\ MapInv'
          /\ received' = received /\ silent' = silent
          /\ exchange' \in [Exchanges -> {"none", "waiting"} \union Outcomes]
          /\ exchange'[e] # "waiting" /\ (exchange[e] = "none" => exchange'[e] = "none")
          /\ \A other \in Exchanges \ {e} : exchange'[other] = exchange[other]
      BY <2>1, <2>2, <3>1, SettleFacts
    <3>4. SettledIsForgotten'
      BY <2>1, <3>2, <3>3 DEF IInv, ExchangeInv, SettledIsForgotten
    <3>5. \A c \in Commands : c \notin received' => exchange'[c] = "none"
      BY <3>3 DEF IInv, ExchangeInv, Exchanges
    <3>6. ExchangeInv'
      BY <2>1, <3>3, <3>4, <3>5 DEF IInv, ExchangeInv
    <3> QED BY <2>1, <3>3, <3>6 DEF IInv, LifeInv, lifeVars
  <2>3. CASE e \notin silent
    <3>1. UNCHANGED <<exchange, jobVars, mapVars, received, silent>>
      BY <2>1, <2>3 DEF jobVars
    <3>2. SettledIsForgotten'
      BY <2>1, <2>3, <3>1 DEF IInv, ExchangeInv, SettledIsForgotten
    <3>3. ExchangeInv'
      BY <2>1, <3>1, <3>2 DEF IInv, ExchangeInv
    <3> QED BY <2>1, <3>1, <3>3, StutterJobs, StutterMap DEF IInv, LifeInv, lifeVars
  <2> QED BY <2>2, <2>3
<1>9. ASSUME NEW e \in Exchanges, PublishFails(e) PROVE IInv'
  <2> DEFINE outcome == IF HandlersThrow /\ e \in timers THEN "stuck" ELSE "rejected"
  <2>1. /\ Release(e) /\ UNCHANGED lifeVars /\ publishing' = publishing \ {e}
        /\ Settle(e, outcome, Nothing)
    BY <1>9 DEF PublishFails
  <2>2. outcome \in Outcomes
    BY DEF Outcomes
  <2> HIDE DEF outcome
  <2> QED BY <2>1, <2>2, ReleaseKeeps
<1>10. ASSUME NEW e \in Exchanges, NEW found \in Findings, Timeout(e, found) PROVE IInv'
  <2> DEFINE outcome == IF e \in broadcast THEN "resolved" ELSE "rejected"
  <2>1. /\ Release(e) /\ UNCHANGED <<lifeVars, publishing>>
        /\ Settle(e, outcome, found)
    BY <1>10 DEF Timeout
  <2>2. outcome \in Outcomes
    BY DEF Outcomes
  <2> HIDE DEF outcome
  <2> QED BY <2>1, <2>2, ReleaseKeeps
<1>11. ASSUME NEW c \in Commands, NEW quiet \in BOOLEAN,
              DefaultResponse(c) \/ NotForwarded(c, quiet)
       PROVE  IInv'
  <2>1. /\ c \notin received /\ received' = received \union {c}
        /\ silent' \in {silent, silent \union {c}}
        /\ UNCHANGED <<lifeVars, exchangeVars, mapVars, registered, interval, cleared, old>>
    BY <1>11 DEF DefaultResponse, NotForwarded, Receives
  <2>2. /\ c \in Exchanges /\ exchange[c] = "none" /\ c \notin timers
        /\ job[c] = "none" /\ c \notin cleared
    BY <2>1 DEF IInv, ExchangeInv, JobInv, SettledIsForgotten, Exchanges
  <2>3. ExchangeInv'
    BY <2>1, <2>2 DEF IInv, ExchangeInv, SettledIsForgotten, exchangeVars
  <2> DEFINE answers == {<<>>, <<"default">>, <<"error">>}
  <2>4. /\ \E answer \in answers : responses' = [responses EXCEPT ![c] = answer]
        /\ job' \in {job, [job EXCEPT ![c] = "failed"]}
    BY <1>11 DEF DefaultResponse, NotForwarded
  <2>5. \A answer \in answers : answer \in Seq(Answers) /\ Len(answer) <= 1 /\ answer # <<"ok">>
    <3>1. {"default", "error"} \subseteq Answers
      BY DEF Answers
    <3>2. <<>> # <<"ok">> /\ <<"default">> # <<"ok">> /\ <<"error">> # <<"ok">>
      OBVIOUS
    <3>3. ASSUME NEW a \in {"default", "error"} PROVE <<a>> \in Seq(Answers) /\ Len(<<a>>) <= 1
      BY <3>1, <3>3, OneAnswer
    <3>4. ASSUME NEW answer \in answers, answer = <<>>
          PROVE  answer \in Seq(Answers) /\ Len(answer) <= 1 /\ answer # <<"ok">>
      BY <3>2, <3>4, OneAnswer
    <3>5. ASSUME NEW answer \in answers, NEW a \in {"default", "error"}, answer = <<a>>
          PROVE  answer \in Seq(Answers) /\ Len(answer) <= 1 /\ answer # <<"ok">>
      BY <3>2, <3>3, <3>5
    <3> QED BY <3>4, <3>5
  <2>6. /\ responses' \in [Commands -> Seq(Answers)]
        /\ responses'[c] \in answers
        /\ \A other \in Commands \ {c} : responses'[other] = responses[other]
    BY <2>4, <2>5 DEF IInv, JobInv
  <2> HIDE DEF answers
  <2>7. /\ job' \in [Commands -> {"none", "pending", "completed", "failed"}]
        /\ job'[c] # "pending"
        /\ \A other \in Commands \ {c} : job'[other] = job[other]
    BY <2>2, <2>4 DEF IInv, JobInv
  <2>8. PendingIsWatched'
    <3>1. {d \in Commands : job'[d] = "pending"} = {d \in Commands : job[d] = "pending"}
      BY <2>2, <2>7
    <3> QED BY <2>1, <3>1 DEF IInv, JobInv, PendingIsWatched
  <2>9. ResponseIsTrue'
    BY <2>1, <2>2, <2>5, <2>6, <2>7 DEF IInv, JobInv, ResponseIsTrue, exchangeVars
  <2>10. JobInv'
    BY <2>1, <2>6, <2>7, <2>8, <2>9 DEF IInv, JobInv
  <2> QED BY <2>1, <2>3, <2>10, StutterMap DEF IInv, LifeInv, lifeVars
<1>12. ASSUME NEW c \in Commands, NEW quiet \in BOOLEAN, NEW toAll \in BOOLEAN,
              Forward(c, quiet, toAll)
       PROVE  IInv'
  <2> DEFINE several == toAll \/ Cardinality(Destinations) > 1
             waits == IF quiet THEN {} ELSE {c}
  <2>1. /\ c \notin received /\ received' = received \union {c}
        /\ silent' = IF quiet THEN silent \union {c} ELSE silent
        /\ job' = [job EXCEPT ![c] = "pending"]
        /\ registered' = registered \union {c} /\ interval' = TRUE
        /\ UNCHANGED <<lifeVars, mapVars, responses, cleared, old>>
    BY <1>12 DEF Forward, Receives
  <2>2. /\ exchange' = [exchange EXCEPT ![c] = "waiting"]
        /\ listening' = listening \union waits /\ timers' = timers \union waits
        /\ broadcast' = IF several THEN broadcast \union waits ELSE broadcast
        /\ publishing' = publishing \union {c}
    BY <1>12 DEF Forward, Issue
  <2>3. broadcast' \in {broadcast, broadcast \union waits}
    BY <2>2
  <2> HIDE DEF several
  <2>4. /\ c \in Exchanges /\ exchange[c] = "none" /\ c \notin timers
        /\ job[c] = "none" /\ c \notin cleared /\ responses[c] = <<>>
    BY <2>1 DEF IInv, ExchangeInv, JobInv, SettledIsForgotten, Exchanges
  <2>5. SettledIsForgotten'
    BY <2>1, <2>2, <2>4 DEF IInv, ExchangeInv, SettledIsForgotten
  <2>6. ExchangeInv'
    BY <2>1, <2>2, <2>3, <2>4, <2>5 DEF IInv, ExchangeInv
  <2>7. PendingIsWatched'
    BY <2>1, <2>4 DEF IInv, JobInv, PendingIsWatched
  <2>8. <<>> # <<"ok">> /\ <<>> # <<"error">>
    OBVIOUS
  <2>9. \A d \in Commands : d \in Exchanges
    BY DEF Exchanges
  <2>10. \A d \in Commands \ {c} : exchange'[d] = exchange[d] /\ job'[d] = job[d]
    BY <2>1, <2>2, <2>9 DEF IInv, ExchangeInv, JobInv
  <2>11. ResponseIsTrue'
    BY <2>1, <2>4, <2>8, <2>10 DEF IInv, JobInv, ResponseIsTrue
  <2>12. JobInv'
    BY <2>1, <2>7, <2>11 DEF IInv, JobInv
  <2> QED BY <2>1, <2>6, <2>12, StutterMap DEF IInv, LifeInv, lifeVars
<1>13. Lookup \in Exchanges /\ Commands \subseteq Exchanges /\ TRUE \in BOOLEAN
  BY DEF Exchanges
<1> QED BY <1>0, <1>1, <1>2, <1>3, <1>4, <1>5, <1>6, <1>7, <1>8, <1>9, <1>10, <1>11, <1>12, <1>13
        DEF Next

LEMMA AlwaysIInv == Spec => []IInv
BY InitIInv, NextIInv, PTL DEF Spec

(* The variables keep their types, for any number of consumers, commands   *)
(* and stops.                                                              *)
THEOREM TypeCorrect == Spec => []TypeOK
BY AlwaysIInv, IInvIsTyped, PTL

(* What the gateway offers upstream is what its consumers can do, in every *)
(* order of lookups, aging and answers.                                    *)
THEOREM OffersWhatItKnowsAlways == Spec => []OffersWhatItKnows
<1>1. IInv => OffersWhatItKnows
  BY DEF IInv, MapInv
<1> QED BY <1>1, AlwaysIInv, PTL

(* A command that settled leaves no listener and no timer, and one that    *)
(* waits has both: Producer.ts cannot forget a command nor leak one.       *)
THEOREM SettledIsForgottenAlways == Spec => []SettledIsForgotten
<1>1. IInv => SettledIsForgotten
  BY DEF IInv, ExchangeInv
<1> QED BY <1>1, AlwaysIInv, PTL

(* The registry watches every pending job that no stop() threw away.       *)
THEOREM PendingIsWatchedAlways == Spec => []PendingIsWatched
<1>1. IInv => PendingIsWatched
  BY DEF IInv, JobInv
<1> QED BY <1>1, AlwaysIInv, PTL

(* One response per command, and a true one.                               *)
THEOREM ResponseIsTrueAlways == Spec => []ResponseIsTrue
<1>1. IInv => ResponseIsTrue
  BY DEF IInv, JobInv
<1> QED BY <1>1, AlwaysIInv, PTL
=============================================================================
