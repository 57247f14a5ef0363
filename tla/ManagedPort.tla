----------------------------- MODULE ManagedPort -----------------------------
(***************************************************************************)
(* The ports of elastic, redis, mongo, mqtt, kafka, amqp and socket-client, *)
(* each under its manager: what they tell of the system behind, and what   *)
(* the manager makes of it.                                                *)
(*                                                                         *)
(* An event of a port and what its listeners do are one step of the code:  *)
(* nothing else happens while one is being said.                           *)
(***************************************************************************)
EXTENDS PortManager

(* A sender of amqp that fails says two events in one step.                *)
Silent == said = "none" /\ amqp.sender # "closing"

(* What listens to the library passes an event on. *)
PassOn(event) == said' = IF listeners > 0 THEN event ELSE "none"

CanCheck == checks < MaxChecks
-----------------------------------------------------------------------------
(* start() and stop() of a port, up to their first await.  A call that     *)
(* has nothing to do returns at once.                                      *)
StartElastic ==
  /\ Resolve("start")
  /\ timer' = TRUE /\ checks' = IF timer THEN checks ELSE checks + 1
  /\ timer \/ CanCheck
  /\ UNCHANGED <<connection, stray, first, isHealthy, amqp>>

StopElastic ==
  /\ Resolve("stop")
  /\ timer' = FALSE
  /\ UNCHANGED <<connection, stray, checks, first, isHealthy, amqp>>

SenderOpen == link = "open" /\ amqp.sender = "open"

(* Redis takes the error of a library that connects already for success;   *)
(* one that only waits for its next try does connect.  Socket-client and   *)
(* amqp have no flag, and ask the library.                                 *)
NothingToDo(op) ==
  \/ port = "socket" /\ (link = "open" <=> op = "start")
  \/ port = "amqp" /\ (SenderOpen <=> op = "start")
  \/ port \notin {"amqp", "socket"} /\ op = "stop" /\ ~started
  \/ /\ port \notin {"amqp", "socket"} /\ op = "start"
     /\ started \/ (port = "redis" /\ link # "closed")

Acts(op) ==
  ~NothingToDo(op) \/ (port = "redis" /\ op = "start" /\ ~started /\ link = "lost")

(* Mutant: a port that is stopped goes on listening. *)
KeepsListening(op) == UNCHANGED listeners

Less(n) == IF n = 0 THEN 0 ELSE n - 1

(* Of what is attached more often than the bound only so much is known.    *)
More(n) == IF n > MaxRepeats THEN n ELSE n + 1

Fewer(n) == {Less(n)} \union {k \in {n} : n > MaxRepeats}

(* Redis and kafka stop listening before they disconnect, socket-client    *)
(* also when it has nothing to disconnect.  Amqp attaches its listeners    *)
(* whenever start() ends well.                                             *)
Unwraps(op) ==
  listeners' \in CASE op = "stop" /\ port = "socket" -> {Less(listeners)}
                   [] op = "stop" /\ port \in {"redis", "kafka"} /\ started -> {0}
                   [] op = "stop" /\ port = "amqp" /\ ~SenderOpen -> Fewer(listeners)
                   [] op = "start" /\ port = "amqp" /\ SenderOpen -> {More(listeners)}
                   [] OTHER -> {listeners}

(* Amqp leaves its sender before it closes it. *)
Detaches(op) ==
  amqp' = IF op = "stop" THEN [amqp EXCEPT !.attached = FALSE, !.hears = FALSE] ELSE amqp

CallPort(op) ==
  \/ port = "elastic" /\ op = "start" /\ StartElastic
  \/ port = "elastic" /\ op = "stop" /\ StopElastic
  \/ /\ port # "elastic" /\ NothingToDo(op)
     /\ Resolve(op) /\ Unwraps(op)
     /\ UNCHANGED <<link, started, checking, amqp>>
  \/ /\ port # "elastic" /\ Acts(op)
     /\ AwaitPort(op) /\ Unwraps(op) /\ Detaches(op)
     /\ UNCHANGED <<link, started, checking>>

(* The client, which does not start what runs nor stop what is stopped. *)
ClientCalls(op) ==
  /\ Silent /\ call = "none" /\ stateKind # StateAfter(op)
  /\ wants' = op /\ CallPort(op)
  /\ UNCHANGED <<systemVars, said>>

(* The state of the manager hears the event. *)
Hear ==
  /\ said # "none" /\ Says("none") /\ UNCHANGED <<systemVars, wants>>
  /\ \/ /\ said \in listens /\ stateKind # "error"
        /\ Become("error") /\ UNCHANGED <<portVars, call>>
     \/ /\ said \in listens /\ stateKind = "error" /\ said # "unhealthy"
        /\ CallPort(IF said = "healthy" THEN "start" ELSE "stop")
     \/ /\ said \notin listens \/ (stateKind = "error" /\ said = "unhealthy")
        /\ UNCHANGED <<portVars, stateKind, listens, call>>

SystemChanges ==
  /\ Silent /\ system' \in Levels \ {system}
  /\ UNCHANGED <<port, portVars, managerVars, said>>
-----------------------------------------------------------------------------
(* Elastic and redis ask for the status of the system from time to time,   *)
(* and kafka for its topics and groups.                                    *)
AskStatus ==
  /\ Silent /\ port \in {"elastic", "redis", "kafka"} /\ timer /\ CanCheck
  /\ checks' = checks + 1
  /\ UNCHANGED <<systemVars, connection, timer, stray, first, isHealthy, amqp, managerVars, said>>

(* Mutant: a port that was unhealthy once does not take note of it. *)
EvaluateOnce(bad) ==
  \/ bad /\ (isHealthy \/ first) /\ Says("unhealthy") /\ UNCHANGED isHealthy
  \/ ~(bad /\ (isHealthy \/ first)) /\ ~isHealthy /\ Says("healthy") /\ isHealthy' = TRUE
  \/ ~(bad /\ (isHealthy \/ first)) /\ isHealthy /\ UNCHANGED <<said, isHealthy>>

(* evaluateStats: the second branch does not look at the error. *)
Evaluate(bad) ==
  \/ bad /\ (isHealthy \/ first) /\ Says("unhealthy") /\ isHealthy' = FALSE
  \/ ~(bad /\ (isHealthy \/ first)) /\ ~isHealthy /\ Says("healthy") /\ isHealthy' = TRUE
  \/ ~(bad /\ (isHealthy \/ first)) /\ isHealthy /\ UNCHANGED <<said, isHealthy>>

Reached == system # "down" /\ (port \in {"redis", "kafka"} => link = "open")

Tells(flag, event) == PassOn(event) /\ isHealthy' = flag

EvaluateKafka ==
  \/ Reached /\ ~first /\ ~isHealthy /\ Tells(TRUE, "healthy")
  \/ Reached /\ (first \/ isHealthy) /\ UNCHANGED <<said, isHealthy>>
  \/ ~Reached /\ first /\ isHealthy' = TRUE /\ UNCHANGED said
  \/ ~Reached /\ ~first /\ isHealthy /\ Tells(FALSE, "unhealthy")
  \/ ~Reached /\ ~first /\ ~isHealthy /\ UNCHANGED <<said, isHealthy>>

(* A request of redis that was sent before stop() is answered before it.   *)
Late == port = "redis" /\ link = "closed" /\ ~started

(* The request ends.  Without an answer there is only an 'error' event,    *)
(* which changes no state; elastic goes on waiting for a first answer.     *)
StatusEnds ==
  /\ Silent /\ checks > 0 /\ checks' = checks - 1
  /\ first' = (first /\ port = "elastic" /\ ~Reached)
  /\ \/ port # "kafka" /\ (Reached \/ Late) /\ Evaluate(system = "red")
     \/ port # "kafka" /\ ~Reached /\ UNCHANGED <<isHealthy, said>>
     \/ port = "kafka" /\ EvaluateKafka
  /\ \/ call = "check" /\ call' = "start"
     \/ (call = "check" => checks > 1) /\ UNCHANGED call
  /\ UNCHANGED <<systemVars, connection, timer, stray, amqp, stateKind, listens, wants>>
-----------------------------------------------------------------------------
(* The library of redis, mqtt or socket-client loses the connection.       *)
Lose ==
  /\ Silent /\ port \in {"redis", "mqtt", "socket"} /\ link = "open" /\ link' = "lost"
  /\ \/ port # "mqtt" /\ PassOn("unhealthy") /\ UNCHANGED started
     \/ port = "mqtt" /\ UNCHANGED said /\ started' = (started /\ listeners = 0)
  /\ UNCHANGED <<systemVars, listeners, checking, amqp, managerVars>>

(* It tries again: redis says 'close' and amqp 'disconnected' of every try. *)
RetryFails ==
  /\ Silent /\ port \in {"redis", "amqp"} /\ link = "lost" /\ system = "down"
  /\ IF port = "amqp" /\ ~amqp.wrapped THEN UNCHANGED said ELSE PassOn("unhealthy")
  /\ UNCHANGED <<systemVars, portVars, managerVars>>

Reconnect ==
  /\ Silent /\ port # "amqp" /\ link = "lost" /\ system # "down" /\ link' = "open"
  /\ \/ /\ port # "mqtt" /\ PassOn("healthy") /\ UNCHANGED started
        /\ port = "socket" => call # "start"
     \/ /\ port = "mqtt" /\ (call # "start" \/ started)
        /\ UNCHANGED said /\ started' = (started \/ listeners > 0)
  /\ UNCHANGED <<systemVars, listeners, checking, amqp, managerVars>>

(* The configured strategy of redis may give up: 'end', and the requests   *)
(* that wait are refused.                                                  *)
GiveUp ==
  /\ Silent /\ port = "redis" /\ link = "lost" /\ system = "down"
  /\ link' = "closed" /\ PassOn("closed")
  /\ checks' = 0 /\ first' = (first /\ checks = 0)
  /\ UNCHANGED <<systemVars, started, listeners, timer, stray, isHealthy, amqp, managerVars>>
-----------------------------------------------------------------------------
ConnectRedis ==
  /\ Silent /\ port = "redis" /\ call = "start" /\ CanCheck
  /\ \/ /\ system # "down" /\ Settle("start", TRUE)
        /\ link' = "open" /\ started' = TRUE /\ listeners' = 1
        /\ timer' = TRUE /\ checks' = IF timer THEN checks ELSE checks + 1
     \/ /\ system = "down" /\ Settle("start", FALSE)
        /\ link' = "lost" /\ UNCHANGED <<started, listeners, timer, checks>>
  /\ UNCHANGED <<systemVars, stray, first, isHealthy, amqp, said>>

(* quit() is refused by a library that gave up, which the port takes for   *)
(* success and does not note, and by one that is not connected while it    *)
(* has other requests to send.  One that is connected may get its answer   *)
(* together with those of other requests, which are evaluated after it.    *)
QuitRedis ==
  /\ Silent /\ port = "redis" /\ call = "stop"
  /\ timer' = FALSE /\ isHealthy' = FALSE
  /\ \/ /\ link # "closed" /\ (link = "open" \/ checks = 0)
        /\ Settle("stop", TRUE) /\ link' = "closed" /\ started' = FALSE
        /\ PassOn("closed") /\ UNCHANGED <<checks, first>>
     \/ /\ link = "closed" /\ Settle("stop", TRUE)
        /\ UNCHANGED <<link, started, checks, first, said>>
     \/ /\ link = "lost" /\ checks > 0 /\ Settle("stop", FALSE)
        /\ checks' = 0 /\ first' = FALSE
        /\ UNCHANGED <<link, started, said>>
  /\ UNCHANGED <<systemVars, listeners, stray, amqp>>
-----------------------------------------------------------------------------
(* Mutant: the flag is set before the connection is there. *)
ConnectMongoEarly ==
  /\ Silent /\ port = "mongo" /\ call = "start" /\ ~started
  /\ started' = TRUE
  /\ \/ /\ system = "up" /\ link' = "open" /\ listeners' = 1
        /\ UNCHANGED <<stateKind, listens, call, wants>>
     \/ /\ system = "down" /\ Settle("start", FALSE)
        /\ UNCHANGED <<link, listeners>>
  /\ UNCHANGED <<systemVars, checking, amqp, said>>

ConnectMongo ==
  /\ Silent /\ port = "mongo" /\ call = "start" /\ ~started
  /\ \/ /\ system = "up" /\ link' = "open" /\ started' = TRUE /\ listeners' = 1
        /\ UNCHANGED <<stateKind, listens, call, wants>>
     \/ /\ system = "down" /\ Settle("start", FALSE)
        /\ UNCHANGED connection
  /\ UNCHANGED <<systemVars, checking, amqp, said>>

(* The collections: the creation of one, or of an index, may be refused. *)
CreateCollections ==
  /\ Silent /\ port = "mongo" /\ call = "start" /\ started
  /\ \E ok \in BOOLEAN :
       /\ ok => system = "up"
       /\ Settle("start", ok)
  /\ UNCHANGED <<systemVars, connection, checking, amqp, said>>

CloseMongo ==
  /\ Silent /\ port = "mongo" /\ call = "stop"
  /\ \/ /\ Settle("stop", TRUE)
        /\ link' = "closed" /\ started' = FALSE /\ listeners' = 0
     \/ Settle("stop", FALSE) /\ UNCHANGED connection
  /\ UNCHANGED <<systemVars, checking, amqp, said>>

(* Mutant: a failed heartbeat is noted and not told. *)
HeartbeatLost ==
  /\ Silent /\ port = "mongo" /\ listeners > 0
  /\ isHealthy' = (system = "up")
  /\ Says(IF isHealthy' /\ ~isHealthy THEN "healthy" ELSE "none")
  /\ UNCHANGED <<systemVars, connection, timer, stray, checks, first, amqp, managerVars>>

Heartbeat ==
  /\ Silent /\ port = "mongo" /\ listeners > 0
  /\ isHealthy' = (system = "up")
  /\ Says(IF isHealthy' = isHealthy THEN "none" ELSE IF isHealthy' THEN "healthy" ELSE "unhealthy")
  /\ UNCHANGED <<systemVars, connection, timer, stray, checks, first, amqp, managerVars>>
-----------------------------------------------------------------------------
(* 'connect', of a library that connects or that reconnects meanwhile: the *)
(* port listens once more, and overwrites its timer.                       *)
ConnectMqtt ==
  /\ Silent /\ port = "mqtt" /\ call = "start"
  /\ \/ /\ system = "up" /\ Settle("start", TRUE)
        /\ listeners <= MaxRepeats /\ (timer => stray < MaxRepeats)
        /\ link' = "open" /\ started' = TRUE /\ listeners' = listeners + 1
        /\ timer' = TRUE /\ stray' = IF timer THEN stray + 1 ELSE stray
     \/ /\ system = "down" /\ Settle("start", FALSE)
        /\ link' = "closed" /\ UNCHANGED <<started, listeners, timer, stray>>
  /\ UNCHANGED <<systemVars, checks, first, isHealthy, amqp, said>>

EndMqtt ==
  /\ Silent /\ port = "mqtt" /\ call = "stop" /\ Settle("stop", TRUE)
  /\ link' = "closed" /\ started' = FALSE
  /\ listeners' = Less(listeners)
  /\ timer' = FALSE
  /\ UNCHANGED <<systemVars, stray, checks, first, isHealthy, amqp, said>>

(* checkConnectionStatus, of any timer. *)
CheckConnection ==
  /\ Silent /\ port = "mqtt" /\ (timer \/ stray > 0)
  /\ isHealthy' = (started /\ link = "open")
  /\ Says(IF isHealthy' = isHealthy THEN "none" ELSE IF isHealthy' THEN "healthy" ELSE "unhealthy")
  /\ UNCHANGED <<systemVars, connection, timer, stray, checks, first, amqp, managerVars>>
-----------------------------------------------------------------------------
(* The monitor of kafka connects, unless it is, and its first check is     *)
(* awaited; then the producer, or the consumer, connects.                  *)
ConnectMonitor ==
  /\ Silent /\ port = "kafka" /\ call = "start" /\ link = "closed"
  /\ \/ /\ system = "up" /\ link' = "open" /\ timer' = TRUE
        /\ timer \/ CanCheck
        /\ checks' = IF timer THEN checks ELSE checks + 1
        /\ call' = IF timer THEN call ELSE "check"
        /\ UNCHANGED <<stateKind, listens, wants>>
     \/ system = "down" /\ Settle("start", FALSE) /\ UNCHANGED <<link, timer, checks>>
  /\ UNCHANGED <<systemVars, started, listeners, stray, first, isHealthy, amqp, said>>

ConnectKafka ==
  /\ Silent /\ port = "kafka" /\ call = "start" /\ link = "open"
  /\ \/ /\ system = "up" /\ Settle("start", TRUE)
        /\ started' = TRUE /\ listeners' = 1
     \/ /\ system = "down" /\ Settle("start", FALSE)
        /\ UNCHANGED <<started, listeners>>
  /\ UNCHANGED <<systemVars, link, checking, amqp, said>>

(* Either disconnection may fail: of the monitor, whose timer is cleared   *)
(* before, or of the producer after it.                                    *)
DisconnectKafka ==
  /\ Silent /\ port = "kafka" /\ call = "stop"
  /\ timer' = (timer /\ link # "open")
  /\ \/ Settle("stop", TRUE) /\ link' = "closed" /\ started' = FALSE
     \/ Settle("stop", FALSE) /\ link' \in {link, "closed"} /\ UNCHANGED started
  /\ UNCHANGED <<systemVars, listeners, stray, checks, first, isHealthy, amqp, said>>
-----------------------------------------------------------------------------
(* 'connect', of a library that tries until it succeeds, or until the      *)
(* server refuses the client.                                              *)
ConnectSocket ==
  /\ Silent /\ port = "socket" /\ call = "start" /\ system = "up"
  /\ \/ /\ Settle("start", TRUE) /\ link' = "open"
        /\ listeners <= MaxRepeats /\ listeners' = listeners + 1
     \/ Settle("start", FALSE) /\ link' = "closed" /\ UNCHANGED listeners
  /\ UNCHANGED <<systemVars, started, checking, amqp, said>>

CloseSocket ==
  /\ Silent /\ port = "socket" /\ call = "stop" /\ Settle("stop", TRUE)
  /\ link' = "closed"
  /\ UNCHANGED <<systemVars, started, listeners, checking, amqp, said>>

(* The server disconnects the client, which does not come back by itself:  *)
(* the ports of socket-client and amqp pass over it.                       *)
ServerDisconnects ==
  /\ Silent /\ port \in {"amqp", "socket"} /\ link = "open" /\ link' = "closed"
  /\ UNCHANGED <<systemVars, started, listeners, checking, amqp, managerVars, said>>
-----------------------------------------------------------------------------
(* The connection of amqp, which does not reconnect while it is opened:    *)
(* when that fails it never does again.                                    *)
ConnectAmqp ==
  /\ Silent /\ port = "amqp" /\ call = "start"
  /\ \/ /\ link = "open" \/ system = "up"
        /\ link' = "open" /\ call' = "sender"
        /\ amqp' = IF link = "open" THEN amqp
                    ELSE [amqp EXCEPT !.sender = "closed", !.wrapped = TRUE]
        /\ UNCHANGED <<stateKind, listens, wants>>
     \/ /\ link # "open" /\ system = "down" /\ Settle("start", FALSE)
        /\ link' \in {link, "closed"} /\ amqp' = [amqp EXCEPT !.reconnects = FALSE]
  /\ UNCHANGED <<systemVars, started, listeners, checking, said>>

(* A new sender is attached unless one that was not left by stop() was.    *)
CreateSender ==
  /\ Silent /\ port = "amqp" /\ call = "sender"
  /\ \/ /\ link = "open" /\ system = "up" /\ Settle("start", TRUE)
        /\ amqp' = [amqp EXCEPT !.sender = "open", !.attached = TRUE, !.hears = ~amqp.attached]
        /\ listeners' = More(listeners)
     \/ Settle("start", FALSE) /\ UNCHANGED <<amqp, listeners>>
  /\ UNCHANGED <<systemVars, link, started, checking, said>>

(* The sender is closed, and then the connection; either may fail. *)
CloseAmqp ==
  /\ Silent /\ port = "amqp" /\ call = "stop"
  /\ \E closed \in BOOLEAN, ok \in BOOLEAN :
       /\ ok => closed /\ link = "open"
       /\ Settle("stop", ok)
       /\ amqp' = IF closed THEN [amqp EXCEPT !.sender = "closed", !.wrapped = FALSE] ELSE amqp
       /\ link' = IF ok THEN "closed" ELSE link
       /\ listeners' \in IF ok THEN Fewer(listeners) ELSE {listeners}
  /\ UNCHANGED <<systemVars, started, checking, said>>

LoseAmqp ==
  /\ Silent /\ port = "amqp" /\ link = "open"
  /\ link' = IF amqp.reconnects THEN "lost" ELSE "closed"
  /\ IF amqp.wrapped THEN PassOn("unhealthy") ELSE UNCHANGED said
  /\ UNCHANGED <<systemVars, started, listeners, checking, amqp, managerVars>>

(* The sender is opened again with the connection. *)
ReconnectAmqp ==
  /\ Silent /\ port = "amqp" /\ link = "lost" /\ system = "up" /\ call # "start"
  /\ link' = "open"
  /\ IF amqp.hears /\ amqp.sender = "open" THEN PassOn("healthy") ELSE UNCHANGED said
  /\ UNCHANGED <<systemVars, started, listeners, checking, amqp, managerVars>>

(* The broker closes the sender, with an error or without one. *)
SenderDetached ==
  /\ Silent /\ port = "amqp" /\ SenderOpen
  /\ \/ ~amqp.hears /\ amqp' = [amqp EXCEPT !.sender = "closed"] /\ UNCHANGED said
     \/ amqp.hears /\ amqp' = [amqp EXCEPT !.sender = "closing"] /\ PassOn("unhealthy")
     \/ amqp.hears /\ amqp' = [amqp EXCEPT !.sender = "closed"] /\ PassOn("closed")
  /\ UNCHANGED <<systemVars, connection, checking, managerVars>>

SenderCloses ==
  /\ said = "none" /\ amqp.sender = "closing"
  /\ amqp' = [amqp EXCEPT !.sender = "closed"] /\ PassOn("closed")
  /\ UNCHANGED <<systemVars, connection, checking, managerVars>>
-----------------------------------------------------------------------------
Answers ==
  \/ ConnectRedis \/ QuitRedis
  \/ ConnectMongo \/ CreateCollections \/ CloseMongo
  \/ ConnectMqtt \/ EndMqtt
  \/ ConnectMonitor \/ ConnectKafka \/ DisconnectKafka
  \/ ConnectAmqp \/ CreateSender \/ CloseAmqp
  \/ ConnectSocket \/ CloseSocket

PortNext ==
  \/ \E op \in {"start", "stop"} : ClientCalls(op)
  \/ Hear \/ SystemChanges
  \/ AskStatus \/ StatusEnds \/ Heartbeat \/ CheckConnection
  \/ Lose \/ RetryFails \/ Reconnect \/ GiveUp \/ ServerDisconnects
  \/ LoseAmqp \/ ReconnectAmqp \/ SenderDetached \/ SenderCloses
  \/ Answers

PortSpec == PortInit /\ [][PortNext]_allVars

(* Timers fire, requests and calls end, a library notices that the system  *)
(* is down, tries again, and reconnects when it can.  The client need not  *)
(* do anything.                                                            *)
Fairness ==
  /\ WF_allVars(Hear) /\ WF_allVars(Answers)
  /\ WF_allVars(AskStatus) /\ WF_allVars(StatusEnds)
  /\ WF_allVars(Heartbeat) /\ WF_allVars(CheckConnection)
  /\ WF_allVars(system = "down" /\ LoseAmqp) /\ WF_allVars(ReconnectAmqp) /\ WF_allVars(SenderCloses)
  /\ WF_allVars(system = "down" /\ Lose) /\ WF_allVars(RetryFails \/ GiveUp) /\ WF_allVars(Reconnect)

FairSpec == PortSpec /\ Fairness
-----------------------------------------------------------------------------
(* A provider that the client stopped leaves that state only when it is    *)
(* called: it neither runs nor fails by itself.                            *)
StopIsKept == (stateKind = "stopped" /\ stateKind' # "stopped") => wants' = "start"

(* So it is with mongo and kafka.  The last request of elastic, and of     *)
(* redis, may be evaluated after stop(), mqtt is not stopped while its     *)
(* connection is lost, and socket-client then keeps the listeners that it  *)
(* attached twice.                                                         *)
StaysStopped == [][(port \in {"mongo", "kafka"}) => StopIsKept]_allVars

(* The same of every port: it is not so. *)
AllStayStopped == [][StopIsKept]_allVars

(* The port has what it needs to notice a change of the system. *)
Watches ==
  /\ port \in {"elastic", "kafka", "mqtt"} => timer
  /\ port # "elastic" => listeners > 0 /\ link # "closed"
  /\ port = "amqp" => amqp.sender = "open" /\ amqp.hears /\ amqp.wrapped

(* A provider that runs has a port that notices when the system is lost,   *)
(* whatever failed before: with elastic, mongo and mqtt always, with kafka *)
(* as long as it listens, which it does not after a stop() that failed.    *)
(* (Redis, amqp and socket-client may run on what was lost or closed.)     *)
RunningWatches ==
  stateKind = "running" /\ call = "none" =>
    (port \in {"elastic", "mongo", "mqtt"} \/ (port = "kafka" /\ listeners > 0) => Watches)

(* A provider that is stopped listens to nothing and asks for nothing,     *)
(* whichever step of a start() or a stop() failed.  (A monitor of kafka    *)
(* that connected goes on when its producer did not.)                      *)
StoppedIsReleased ==
  stateKind = "stopped" /\ call = "none" =>
    /\ port \in {"redis", "mongo", "kafka"} => listeners = 0
    /\ port \in {"mongo", "kafka"} => ~started
    /\ port \in {"elastic", "redis", "mongo"} => ~timer
    /\ port = "mongo" => link = "closed"

(* Between calls a port has what the state of its manager stands for. *)
HoldsWhatItUses == RunningWatches /\ StoppedIsReleased

(* A provider in state error that listens to a port that watches leaves it *)
(* when the system is up for good, and the connection is not lost again.   *)
(* Mongo says 'healthy' once, and forgets that nobody heard it.            *)
ErrorIsLeft ==
  <>[](system = "up" /\ link # "lost" /\ wants = "start") =>
    []((stateKind = "error" /\ "healthy" \in listens /\ Watches /\ (port = "mongo" => ~isHealthy))
         => <>(stateKind # "error" \/ "healthy" \notin listens))

(* A provider does not run on when the system is down for good, if its     *)
(* port watches and, of those that compare, has found it healthy before.   *)
(* Elastic only emits an error when the system does not answer.            *)
LossIsTold ==
  <>[](system = "down" /\ wants = "start") =>
    []((/\ stateKind = "running" /\ Watches /\ port # "elastic"
        /\ isHealthy \/ port \in {"redis", "amqp", "socket"})
         => <>(stateKind # "running" \/ ~Watches))

(* What a provider says follows the system behind. *)
FollowsTheSystem == ErrorIsLeft /\ LossIsTold

(* The same when the system was lost before the first check. *)
EveryLossIsTold ==
  <>[](system = "down" /\ wants = "start") =>
    []((stateKind = "running" /\ Watches) => <>(stateKind # "running"))

(* Elastic says 'healthy' when it has recovered the access to the          *)
(* resources: it is not so, every second check of a red system says it.    *)
HealthyIsTrue == (port = "elastic" /\ said = "healthy") => system = "up"
=============================================================================
