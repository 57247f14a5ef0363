--------------------------- MODULE ClusterRegistry ---------------------------
(***************************************************************************)
(* The registries of a cluster (packages/components/service-registry,      *)
(* observability/registries): the master asks its workers for their health *)
(* checks, or for their errors, in rounds, and reports what they answer;   *)
(* clear() empties the registries of errors.  Both ports work alike, and   *)
(* differ in what they do with a round: errors replace those of the round  *)
(* before, checks are merged into those that are known.                    *)
(*                                                                         *)
(* The channel between the master and a worker keeps the order of the      *)
(* messages, and what is in it is lost when the worker disconnects.        *)
(* Requests are numbered and never repeat: the number of a message is      *)
(* modelled by whether it is the current one.                              *)
(*                                                                         *)
(* What a worker holds: the errors, each by the number of the calls of     *)
(* clear() that came before it; of its health, {} is a pass, {0} a fail.   *)
(***************************************************************************)
EXTENDS Integers, Sequences, FiniteSets, SequencesExt

CONSTANTS
  Workers,
  Leaving,      \* bound: the workers that come and go
  Kinds,        \* of registries: "health", "errors"
  MaxClears,    \* bound: calls of clear()
  MaxInFlight,  \* bound: messages to and from a worker, a round's included
  MaxRounds     \* bound: rounds that are open together

ASSUME ClusterAssumption ==
  /\ IsFiniteSet(Workers) /\ Leaving \subseteq Workers /\ Kinds \subseteq {"health", "errors"}
  /\ {MaxClears, MaxInFlight, MaxRounds} \subseteq Nat

VARIABLES
  kind,
  polling,    \* of the master: is the timer of the rounds armed?
  rounds,     \* those that listen to the workers, the oldest first
  report,     \* of the aggregator of the master: what it says of each worker
  link,       \* per worker: absent, connected, disconnected, gone
  listening,  \* the workers whose port is started
  content,    \* what each worker holds
  toWorker, toMaster,  \* the channels
  clears,     \* how often clear() was called
  missed      \* history: the workers that a clear() did not reach

workerVars == <<link, listening, content>>
channelVars == <<toWorker, toMaster>>
clearVars == <<clears, missed>>
vars == <<kind, polling, rounds, report, workerVars, channelVars, clearVars>>

Members == {w \in Workers : link[w] \in {"connected", "disconnected"}}
Connected == {w \in Workers : link[w] = "connected"}

Unknown == [link |-> "none", content |-> {}]

Init ==
  /\ kind \in Kinds
  /\ polling = FALSE /\ rounds = <<>>
  /\ report = [w \in Workers |-> Unknown]
  /\ link = [w \in Workers |-> IF w \in Leaving THEN "absent" ELSE "connected"]
  /\ listening = {} /\ content = [w \in Workers |-> {}]
  /\ toWorker = [w \in Workers |-> <<>>] /\ toMaster = [w \in Workers |-> <<>>]
  /\ clears = 0 /\ missed = {}
-----------------------------------------------------------------------------
(***************************************************************************)
(* The workers.                                                            *)
(***************************************************************************)
Fork(w) ==
  /\ link[w] = "absent"
  /\ link' = [link EXCEPT ![w] = "connected"]
  /\ UNCHANGED <<kind, polling, rounds, report, listening, content, channelVars, clearVars>>

Disconnect(w) ==
  /\ w \in Leaving /\ link[w] = "connected"
  /\ link' = [link EXCEPT ![w] = "disconnected"]
  /\ listening' = listening \ {w}
  /\ toWorker' = [toWorker EXCEPT ![w] = <<>>]
  /\ toMaster' = [toMaster EXCEPT ![w] = <<>>]
  /\ UNCHANGED <<kind, polling, rounds, report, content, clearVars>>

Exit(w) ==
  /\ link[w] = "disconnected"
  /\ link' = [link EXCEPT ![w] = "gone"]
  /\ UNCHANGED <<kind, polling, rounds, report, listening, content, channelVars, clearVars>>

(* start() and stop() of the port of a worker. *)
Listens(w) ==
  /\ link[w] = "connected"
  /\ listening' = IF w \in listening THEN listening \ {w} ELSE listening \union {w}
  /\ UNCHANGED <<kind, polling, rounds, report, link, content, channelVars, clearVars>>

(* An error is raised in it (a bound: it holds one), or its health changes. *)
Change(w) ==
  /\ link[w] = "connected"
  /\ kind = "errors" => content[w] = {}
  /\ content' = [content EXCEPT ![w] = IF @ = {} THEN {clears} ELSE {}]
  /\ UNCHANGED <<kind, polling, rounds, report, link, listening, channelVars, clearVars>>

(* It handles the next message: it answers a request and obeys a clear. *)
Handle(w) ==
  /\ toWorker[w] # <<>>
  /\ toWorker' = [toWorker EXCEPT ![w] = Tail(@)]
  /\ LET message == Head(toWorker[w])
     IN  \/ /\ w \notin listening
            /\ missed' = IF message = "clear" THEN missed \union {w} ELSE missed
            /\ UNCHANGED <<content, toMaster>>
         \/ /\ w \in listening /\ message = "clear"
            /\ content' = [content EXCEPT ![w] = {}]
            /\ UNCHANGED <<toMaster, missed>>
         \/ /\ w \in listening /\ message # "clear"
            /\ toMaster' = [toMaster EXCEPT ![w] =
                              Append(@, [current |-> message = "current", content |-> content[w]])]
            /\ UNCHANGED <<content, missed>>
  /\ UNCHANGED <<kind, polling, rounds, report, link, listening, clears>>
-----------------------------------------------------------------------------
(***************************************************************************)
(* The rounds of the master.                                               *)
(***************************************************************************)

(* A round begins: every worker that is connected is asked, and those that *)
(* are not are waited for, too.                                            *)
NewRound ==
  /\ toWorker' = [w \in Workers |->
       LET aged == [i \in DOMAIN toWorker[w] |->
                      IF toWorker[w][i] = "current" THEN "stale" ELSE toWorker[w][i]]
       IN  IF w \in Connected THEN Append(aged, "current") ELSE aged]
  /\ toMaster' = [w \in Workers |->
       [i \in DOMAIN toMaster[w] |-> [toMaster[w][i] EXCEPT !.current = FALSE]]]
  /\ rounds' = Append([i \in DOMAIN rounds |-> [rounds[i] EXCEPT !.latest = FALSE]],
                      [asked |-> Members, connected |-> Connected,
                       pending |-> Cardinality(Members), latest |-> TRUE, began |-> clears,
                       feed |-> [w \in Workers |-> <<>>]])

Room ==
  /\ Len(rounds) < MaxRounds
  /\ \A w \in Workers : Len(toWorker[w]) + Len(toMaster[w]) < MaxInFlight

(* What a round of health checks begins with, as far as it is reported. *)
Outdated(reported, asked, connected) ==
  [w \in Workers |->
     IF w \notin asked THEN reported[w]
     ELSE [reported[w] EXCEPT !.link = IF w \in connected THEN "connected" ELSE "disconnected"]]

Start ==
  /\ polling \/ Room
  /\ polling' = TRUE
  /\ report' = IF kind = "health" THEN Outdated(report, Members, Connected) ELSE report
  /\ IF polling THEN UNCHANGED <<rounds, channelVars>> ELSE NewRound
  /\ UNCHANGED <<kind, workerVars, clearVars>>

(* Rounds that run are not stopped. *)
Stop ==
  /\ polling
  /\ polling' = FALSE
  /\ UNCHANGED <<kind, rounds, report, workerVars, channelVars, clearVars>>

(* The timer: a round lasts less than its interval. *)
SendRequest ==
  /\ polling /\ rounds = <<>> /\ Room
  /\ NewRound
  /\ UNCHANGED <<kind, polling, report, workerVars, clearVars>>

(* A round is over: what the aggregator reports then.  Of checks with the  *)
(* same name it keeps the last.                                            *)
Finished(reported, round) ==
  LET begun == Outdated(reported, round.asked, round.connected)
  IN  [w \in Workers |->
         IF kind = "errors" THEN [reported[w] EXCEPT !.content = UNION ToSet(round.feed[w])]
         ELSE IF round.feed[w] = <<>> THEN begun[w]
         ELSE [begun[w] EXCEPT !.content = Last(round.feed[w])]]

(* The rounds that wait for more answers: SelectSeq, written out, since    *)
(* the provers know nothing of it.                                         *)
StillOpen(heard) ==
  LET open == {i \in DOMAIN heard : heard[i].pending # 0}
  IN  [n \in 1 .. Cardinality(open) |->
         heard[CHOOSE i \in open : Cardinality({k \in open : k < i}) = n - 1]]

(* Mutant: the number of the request is not compared. *)
ReceiveAny(w) ==
  /\ toMaster[w] # <<>>
  /\ toMaster' = [toMaster EXCEPT ![w] = Tail(@)]
  /\ LET answer == Head(toMaster[w])
         heard == [i \in DOMAIN rounds |->
                     [rounds[i] EXCEPT !.pending = @ - 1,
                                       !.feed[w] = Append(@, answer.content)]]
     IN  /\ rounds' = StillOpen(heard)
         /\ report' = FoldLeft(Finished, report, SelectSeq(heard, LAMBDA r : r.pending = 0))
  /\ UNCHANGED <<kind, polling, workerVars, toWorker, clearVars>>

(* An answer comes.  Every round that listens counts one to the current    *)
(* request as its own, and is over when it waits for no more.              *)
Receive(w) ==
  /\ toMaster[w] # <<>>
  /\ toMaster' = [toMaster EXCEPT ![w] = Tail(@)]
  /\ LET answer == Head(toMaster[w])
         heard == [i \in DOMAIN rounds |->
                     [rounds[i] EXCEPT !.pending = @ - 1,
                                       !.feed[w] = Append(@, answer.content)]]
     IN  IF answer.current
         THEN /\ rounds' = StillOpen(heard)
              /\ report' = FoldLeft(Finished, report, SelectSeq(heard, LAMBDA r : r.pending = 0))
         ELSE UNCHANGED <<rounds, report>>
  /\ UNCHANGED <<kind, polling, workerVars, toWorker, clearVars>>

(* Mutant: what came in time is not reported. *)
TimeoutForgets ==
  /\ rounds # <<>>
  /\ rounds' = Tail(rounds)
  /\ UNCHANGED <<kind, polling, report, workerVars, channelVars, clearVars>>

(* The time for answers is over. *)
Timeout ==
  /\ rounds # <<>>
  /\ rounds' = Tail(rounds)
  /\ report' = Finished(report, Head(rounds))
  /\ UNCHANGED <<kind, polling, workerVars, channelVars, clearVars>>

(* Mutant: only the registry of the master is cleared. *)
ClearMaster ==
  /\ kind = "errors" /\ clears < MaxClears
  /\ clears' = clears + 1
  /\ UNCHANGED <<kind, polling, rounds, report, workerVars, channelVars, missed>>

(* clear(): every worker is told to; what was reported of them stays until *)
(* the next round is over.                                                 *)
Clear ==
  /\ kind = "errors" /\ clears < MaxClears
  /\ clears' = clears + 1
  /\ toWorker' = [w \in Workers |-> IF w \in Connected THEN Append(toWorker[w], "clear")
                                    ELSE toWorker[w]]
  /\ UNCHANGED <<kind, polling, rounds, report, workerVars, toMaster, missed>>
-----------------------------------------------------------------------------
Next ==
  \/ Start \/ Stop \/ SendRequest \/ Timeout \/ Clear
  \/ \E w \in Workers : Fork(w) \/ Disconnect(w) \/ Exit(w) \/ Listens(w) \/ Change(w)
  \/ \E w \in Workers : Handle(w) \/ Receive(w)

(* The timers fire.  Nothing makes a worker answer in time. *)
Fairness == WF_vars(SendRequest) /\ WF_vars(Timeout)

Spec == Init /\ [][Next]_vars
FairSpec == Spec /\ Fairness
-----------------------------------------------------------------------------
Contents == SUBSET (0 .. MaxClears)

TypeOK ==
  /\ kind \in Kinds /\ polling \in BOOLEAN
  /\ \A i \in DOMAIN rounds :
       rounds[i] \in [asked : SUBSET Workers, connected : SUBSET Workers, pending : Int,
                     latest : BOOLEAN, began : 0 .. MaxClears, feed : [Workers -> Seq(Contents)]]
  /\ report \in [Workers -> [link : {"none", "connected", "disconnected"}, content : Contents]]
  /\ link \in [Workers -> {"absent", "connected", "disconnected", "gone"}]
  /\ listening \subseteq Workers /\ missed \subseteq Workers
  /\ content \in [Workers -> Contents]
  /\ toWorker \in [Workers -> Seq({"current", "stale", "clear"})]
  /\ toMaster \in [Workers -> Seq([current : BOOLEAN, content : Contents])]
  /\ clears \in 0 .. MaxClears

(* Late answers, answers to an earlier round and lost ones do not falsify  *)
(* a round: the latest one hears once at most of each worker it asked, and *)
(* an answer ends it early only when it is the last that was missing.      *)
RoundsAreTrue ==
  [][\A i \in DOMAIN rounds :
       LET round == rounds[i]
           answered == {w \in Workers : round.feed[w] # <<>>}
           over == toMaster' # toMaster /\ \A k \in DOMAIN rounds' : ~rounds'[k].latest
       IN  round.latest =>
             /\ answered \subseteq round.connected
             /\ \A w \in answered : Len(round.feed[w]) = 1
             /\ round.pending = Cardinality(round.asked \ answered)
             /\ over => \E w \in round.connected :
                          toMaster'[w] # toMaster[w] /\ round.asked \ answered = {w}]_vars

(* Errors that were cleared do not come back in the rounds that begin      *)
(* after the clear(): these hear of none that were raised before it, but   *)
(* from a worker that did not listen to it.  (The round that is open at a  *)
(* clear(), and the report it ends with, may bring them back.)             *)
ClearedStaysCleared ==
  \A i \in DOMAIN rounds : \A w \in Workers \ missed :
    \A e \in UNION ToSet(rounds[i].feed[w]) : e >= rounds[i].began

InTime(w) == rounds # <<>> /\ toMaster[w] # <<>> /\ Head(toMaster[w]).current /\ Receive(w)

(* The report catches up with a worker whose answers come in time again    *)
(* and again, as soon as what it holds does not change any more.           *)
ReportCatchesUp ==
  \A w \in Workers :
    (<>[][content'[w] = content[w]]_vars /\ <>[]polling /\ []<><<InTime(w)>>_vars)
      => []<>(report[w].content = content[w])

(* MasterPort.ts of the health says that it aggregates the responses "to   *)
(* maintain an updated view": a worker that is gone does not stay reported *)
(* as connected.                                                           *)
GoneIsNotConnected ==
  \A w \in Workers : (link[w] = "gone" /\ []polling) ~> report[w].link # "connected"

(* MasterPort.ts of start(): "Ensures that only one polling mechanism is   *)
(* active at any given time".                                              *)
OnePolling == Len(rounds) <= 1
=============================================================================
