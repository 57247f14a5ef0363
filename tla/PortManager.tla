----------------------------- MODULE PortManager -----------------------------
(***************************************************************************)
(* What the ports of the providers share (packages/providers): the system  *)
(* behind, the client of a library that is connected to it, the flags and  *)
(* timers of a port, and the manager of packages/api/core whose states     *)
(* start and stop the port and listen to it.                               *)
(*                                                                         *)
(* Module Provider has any port and calls that overlap; here are the real  *)
(* ports, and a client that waits for the answer of a call before the next *)
(* one, so that one object, the state, listens.                            *)
(***************************************************************************)
EXTENDS Integers, FiniteSets

CONSTANTS
  Ports,      \* the providers: one of them is chosen at the beginning
  MaxChecks,  \* bound: requests of the status that are under way
  MaxRepeats  \* bound: how often a port that starts again listens, or arms
              \* a timer, once more

ASSUME PortAssumption ==
  /\ Ports \subseteq {"elastic", "redis", "mongo", "mqtt", "kafka", "amqp", "socket"}
  /\ MaxChecks \in Nat \ {0} /\ MaxRepeats \in Nat

VARIABLES
  port,
  system,    \* what is behind: up, red (it answers, with errors) or down
  link,      \* of the library: closed, open, or lost (and it reconnects)
  started,   \* the flag that start() and stop() of the port look at
  listeners, \* how often the port listens to the library
  timer,     \* the timer that the port knows is armed
  stray,     \* those that it overwrote, and that tick on
  checks,    \* requests under way
  first,     \* isFirstCheck
  isHealthy, \* the flag of the port: what it said last
  amqp,      \* the sender of amqp, the events that are attached to it and
             \* to its connection, and whether this one reconnects
  stateKind, \* of the state of the manager: stopped, running, error
  listens,   \* the events of the port that this state listens to
  call,      \* what this state awaits of the port: start, and its first
             \* check or its sender, stop, or none
  wants,     \* history: the last call of the client
  said       \* the event that the port is emitting, or none

systemVars == <<port, system>>
connection == <<link, started, listeners>>
checking == <<timer, stray, checks, first, isHealthy>>
portVars == <<connection, checking, amqp>>
managerVars == <<stateKind, listens, call, wants>>
allVars == <<systemVars, portVars, managerVars, said>>

PortTypeOK ==
  /\ port \in Ports /\ system \in {"up", "red", "down"}
  /\ link \in {"closed", "open", "lost"} /\ started \in BOOLEAN
  /\ listeners \in 0..(MaxRepeats + 1)
  /\ timer \in BOOLEAN /\ stray \in 0..MaxRepeats
  /\ checks \in 0..MaxChecks /\ first \in BOOLEAN /\ isHealthy \in BOOLEAN
  /\ amqp \in [sender : {"open", "closing", "closed"}, reconnects : BOOLEAN,
               attached : BOOLEAN, hears : BOOLEAN, wrapped : BOOLEAN]
  /\ stateKind \in {"stopped", "running", "error"}
  /\ listens \subseteq {"unhealthy", "closed", "healthy"}
  /\ call \in {"none", "start", "check", "sender", "stop"} /\ wants \in {"start", "stop"}
  /\ said \in {"none", "healthy", "unhealthy", "closed"}

(* What the constructor of a state listens to. *)
EventsOf(k) ==
  CASE k = "stopped" -> {"unhealthy"}
    [] k = "running" -> {"unhealthy", "closed"}
    [] k = "error"   -> {"unhealthy", "closed", "healthy"}

Levels == IF port \in {"elastic", "redis"} THEN {"up", "red", "down"} ELSE {"up", "down"}

PortInit ==
  /\ port \in Ports /\ system \in Levels
  /\ link = "closed" /\ started = FALSE /\ listeners = 0
  /\ timer = FALSE /\ stray = 0 /\ checks = 0 /\ first = TRUE
  /\ isHealthy = FALSE
  /\ amqp = [sender |-> "closed", reconnects |-> TRUE,
             attached |-> FALSE, hears |-> FALSE, wrapped |-> FALSE]
  /\ stateKind = "stopped" /\ listens = EventsOf("stopped")
  /\ call = "none" /\ wants = "stop" /\ said = "none"
-----------------------------------------------------------------------------
Become(k) == stateKind' = k /\ listens' = EventsOf(k)

StateAfter(op) == IF op = "start" THEN "running" ELSE "stopped"

(* The port answers: the next state, an error state, or, when it was an    *)
(* error state already, the same one, which listens to nothing any more.   *)
Settle(op, ok) ==
  /\ call' = "none" /\ UNCHANGED wants
  /\ \/ ok /\ Become(StateAfter(op))
     \/ ~ok /\ stateKind # "error" /\ Become("error")
     \/ ~ok /\ stateKind = "error" /\ UNCHANGED <<stateKind, listens>>

(* The state stops listening and awaits the port. *)
AwaitPort(op) == call' = op /\ listens' = {} /\ UNCHANGED stateKind

Resolve(op) == call' = "none" /\ Become(StateAfter(op))

Says(event) == said' = event
=============================================================================
