------------------------------ MODULE Provider ------------------------------
(***************************************************************************)
(* A provider: the Manager of packages/api/core/src/Layer/Provider, its    *)
(* three states and the port that it wraps.                                *)
(*                                                                         *)
(* A state is an object that listens to the port.  Leaving it, it stops    *)
(* listening, and the next state, a new object, listens in its place; but  *)
(* between the two it awaits start() or stop() of the port, while the      *)
(* client may call the manager again and the port may emit events.  So an  *)
(* object may outlive its time as the state of the manager: objects are    *)
(* numbered in the order of their creation, and all of them are kept.      *)
(*                                                                         *)
(* The port is any port: it answers a call at any time, with success or    *)
(* with an error, and emits what it likes when it likes.                   *)
(***************************************************************************)
EXTENDS Integers, Sequences, FiniteSets

CONSTANTS
  MaxObjects,   \* bound on the state objects
  MaxPending    \* bound on the calls of the port that are pending

ASSUME ProviderAssumption ==
  /\ MaxObjects \in Nat \ {0}
  /\ MaxPending \in Nat \ {0}

VARIABLES
  kind,      \* the state objects: "stopped", "running" or "error"
  state,     \* the one that is Manager._state
  attached,  \* <<object, event>>: who listens to what
  ops,       \* ops[o][op]: pending calls of the port that object o awaits
  healthy,   \* the port has access to its resources
  upsets     \* history: what went on while the manager did not listen

vars == <<kind, state, attached, ops, healthy, upsets>>

Kinds == {"stopped", "running", "error"}
Events == {"healthy", "unhealthy", "closed"}
Ops == {"start", "stop"}
Objects == 1..MaxObjects
Alive == 1..Len(kind)

TypeOK ==
  /\ kind \in Seq(Kinds) /\ Len(kind) <= MaxObjects
  /\ state \in Alive
  /\ attached \subseteq Alive \X Events
  /\ ops \in [Objects -> [Ops -> 0..MaxPending]]
  /\ healthy \in BOOLEAN
  /\ upsets \subseteq {"overlap", "lost", "close"}

(* What the constructor of a state listens to. *)
ListensTo(k) ==
  CASE k = "stopped" -> {"unhealthy"}
    [] k = "running" -> {"unhealthy", "closed"}
    [] k = "error"   -> {"unhealthy", "closed", "healthy"}

(* The first state is error when the configuration is not valid. *)
Init ==
  /\ kind \in {<<"stopped">>, <<"error">>}
  /\ state = 1
  /\ attached = {1} \X ListensTo(kind[1])
  /\ ops = [o \in Objects |-> [op \in Ops |-> 0]]
  /\ healthy = FALSE
  /\ upsets = {}
-----------------------------------------------------------------------------
Pending == {o \in Alive : \E op \in Ops : ops[o][op] > 0}
Listeners(event) == {o \in Alive : <<o, event>> \in attached}
Off(objects) == {entry \in attached : entry[1] \notin objects}

(* changeState: the objects stop listening, and n new ones of one kind are *)
(* made; the last one is the state.                                        *)
Replace(objects, n, k) ==
  /\ Len(kind) + n <= MaxObjects
  /\ kind' = kind \o [i \in 1..n |-> k]
  /\ state' = IF n = 0 THEN state ELSE Len(kind) + n
  /\ attached' = Off(objects) \union (((Len(kind) + 1)..(Len(kind) + n)) \X ListensTo(k))

Keep(objects) == Replace(objects, 0, "error")

(* Mutants: a state that starts or stops goes on listening, or stops       *)
(* listening though it stays.                                              *)
ListensOn(o, op) == {}

StopsAlways(o, op) == {o}

(* Who stops listening when start() or stop() is called: a state that will *)
(* be left.                                                                *)
StopsListening(o, op) ==
  IF \/ op = "start" /\ kind[o] # "running"
     \/ op = "stop" /\ kind[o] # "stopped"
  THEN {o} ELSE {}

Await(objects, op) ==
  ops' = [o \in Objects |-> IF o \in objects THEN [ops[o] EXCEPT ![op] = @ + 1] ELSE ops[o]]

Room(n) == \A o \in Objects, op \in Ops : ops[o][op] + n <= MaxPending

Upset(what) == upsets' = upsets \union what

Overlap == IF Pending = {} THEN {} ELSE {"overlap"}
-----------------------------------------------------------------------------
(* manager.start() and manager.stop(): the state awaits the port. *)
Call(op) ==
  /\ Room(1)
  /\ Keep(StopsListening(state, op))
  /\ Await({state}, op)
  /\ Upset(Overlap)
  /\ UNCHANGED healthy

(* manager.fail(): an error state only takes note of the error. *)
Fail ==
  /\ kind[state] # "error"
  /\ Replace({state}, 1, "error")
  /\ Upset(Overlap)
  /\ UNCHANGED <<ops, healthy>>

(* manager.close() releases the port and leaves the state alone. *)
Close ==
  /\ healthy' = FALSE
  /\ Upset({"close"})
  /\ UNCHANGED <<kind, state, attached, ops>>

(* Mutant: a copy of start() that was not adapted to stop(). *)
AlwaysRunning(op) == "running"

Follows(op) == IF op = "start" THEN "running" ELSE "stopped"

(* The port answers.  A state that was left by start() or stop() is        *)
(* followed by the new one, or by an error state; an error state whose     *)
(* call fails stays the state.                                             *)
Answer(o, op, ok) ==
  /\ ops[o][op] > 0
  /\ ops' = [ops EXCEPT ![o][op] = @ - 1]
  /\ healthy' = (op = "start" /\ ok)
  /\ UNCHANGED upsets
  /\ LET stays == \/ kind[o] = "running" /\ op = "start" /\ ok
                  \/ kind[o] = "stopped" /\ op = "stop" /\ ok
                  \/ kind[o] = "error" /\ ~ok
     IN  \/ stays /\ Keep({})
         \/ ~stays /\ ok /\ Replace({}, 1, Follows(op))
         \/ ~stays /\ ~ok /\ Replace({o}, 1, "error")

(* Mutant: only 'closed' is an error. *)
FailsOnClosed(event) ==
  {o \in Listeners(event) : event = "closed" /\ kind[o] # "error"}

(* Events of the port.  Every listener is called, those of objects that    *)
(* are no more the state too.                                              *)
FailsOn(event) ==
  {o \in Listeners(event) : event # "healthy" /\ kind[o] # "error"}

Notice(event) ==
  IF Listeners(event) # {} THEN Overlap
  ELSE IF event = "healthy" THEN {} ELSE {"lost"}

Emit(event) ==
  /\ Room(1)
  /\ healthy' = (event = "healthy")
  /\ Upset(Notice(event))
  /\ LET failing == FailsOn(event)
         moving  == IF event = "unhealthy" THEN {} ELSE Listeners(event) \ failing
     IN  /\ Replace(failing \union moving, Cardinality(failing), "error")
         /\ Await(moving, IF event = "healthy" THEN "start" ELSE "stop")

Next ==
  \/ \E op \in Ops : Call(op)
  \/ Fail
  \/ Close
  \/ \E o \in Alive, op \in Ops, ok \in BOOLEAN : Answer(o, op, ok)
  \/ \E event \in Events : Emit(event)

Spec == Init /\ [][Next]_vars
-----------------------------------------------------------------------------
Quiet == Pending = {}

(* When nothing is pending a provider that runs or is stopped listens to   *)
(* all it has to, whatever overlapped: no loss of access stays unnoticed.  *)
CurrentListens ==
  (Quiet /\ kind[state] # "error") => {state} \X ListensTo(kind[state]) \subseteq attached

(* No object that is not the state listens to the port, and moves the      *)
(* provider by itself, as long as no call and no event overlapped a call   *)
(* that was pending.                                                       *)
OnlyTheStateListens ==
  "overlap" \notin upsets => \A entry \in attached : entry[1] = state

(* A provider that runs has access to its resources, as long as no loss of *)
(* access came while nobody listened, nothing overlapped and close() was   *)
(* not called.                                                             *)
RunningIsHealthy ==
  (Quiet /\ upsets = {} /\ kind[state] = "running") => healthy

(* The promise of start() resolves in state running, that of stop() in     *)
(* state stopped, and when they reject the state is error, as long as      *)
(* nothing overlapped.                                                     *)
PromisesHold ==
  [][\A o \in Alive, op \in Ops :
       (ops'[o][op] < ops[o][op] /\ "overlap" \notin upsets) =>
         IF op = "stop" THEN kind'[state'] \in {"stopped", "error"}
         ELSE kind'[state'] = IF healthy' THEN "running" ELSE "error"]_vars

(* Port.ts says that a 'healthy' event "will change the provider state by  *)
(* the upper manager": a provider in state error listens to it.            *)
HealthyIsHeard ==
  (Quiet /\ kind[state] = "error") => <<state, "healthy">> \in attached
=============================================================================
