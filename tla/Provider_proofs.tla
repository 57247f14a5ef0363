--------------------------- MODULE Provider_proofs --------------------------
(***************************************************************************)
(* What holds of a provider for any number of state objects and of calls   *)
(* of the port that are pending.                                           *)
(***************************************************************************)
EXTENDS Provider, ManagedPort, FiniteSetTheorems, TLAPS

(* What a change of state does, for any number of new objects. *)
LEMMA ReplaceFacts ==
  ASSUME TypeOK, NEW objects, NEW n \in Nat, NEW k \in Kinds, Replace(objects, n, k)
  PROVE  /\ kind' \in Seq(Kinds) /\ Len(kind') = Len(kind) + n /\ Len(kind') <= MaxObjects
         /\ \A o \in Alive : o \in Alive' /\ kind'[o] = kind[o]
         /\ \A o \in (Len(kind) + 1)..(Len(kind) + n) : kind'[o] = k
         /\ state' \in Alive'
         /\ attached' \subseteq Alive' \X Events
<1> DEFINE new == [i \in 1..n |-> k]
<1>1. kind \in Seq(Kinds) /\ Len(kind) \in Nat /\ state \in 1..Len(kind)
  BY DEF TypeOK, Alive
<1>2. new \in Seq(Kinds) /\ Len(new) = n /\ \A i \in 1..n : new[i] = k
  OBVIOUS
<1>3. kind' = kind \o new
  BY DEF Replace
<1> HIDE DEF new
<1>4. /\ kind' \in Seq(Kinds) /\ Len(kind') = Len(kind) + n
      /\ \A o \in 1..Len(kind) : kind'[o] = kind[o]
      /\ \A o \in (Len(kind) + 1)..(Len(kind) + n) : kind'[o] = k
  <2> DEFINE long == kind \o new
  <2>1. /\ long \in Seq(Kinds) /\ Len(long) = Len(kind) + n
        /\ \A o \in 1..Len(kind) : long[o] = kind[o]
    BY <1>1, <1>2
  <2>2. ASSUME NEW o \in (Len(kind) + 1)..(Len(kind) + n) PROVE long[o] = k
    <3>1. o - Len(kind) \in 1..n /\ long[o] = new[o - Len(kind)]
      BY <1>1, <1>2
    <3> QED BY <1>2, <3>1
  <2>3. kind' = long
    BY <1>3
  <2> HIDE DEF long
  <2> QED BY <2>1, <2>2, <2>3
<1>5. Len(kind') <= MaxObjects
  BY <1>4 DEF Replace
<1>6. Alive' = 1..(Len(kind) + n)
  BY <1>4 DEF Alive
<1>7. state' \in Alive'
  BY <1>1, <1>6 DEF Replace
<1>8. attached' \subseteq Alive' \X Events
  <2>1. Off(objects) \subseteq Alive' \X Events
    BY <1>1, <1>6 DEF Off, TypeOK, Alive
  <2>2. ListensTo(k) \subseteq Events
    BY DEF ListensTo, Kinds, Events
  <2>3. (Len(kind) + 1)..(Len(kind) + n) \subseteq Alive'
    BY <1>1, <1>6
  <2> QED BY <2>1, <2>2, <2>3 DEF Replace
<1>9. \A o \in Alive : o \in Alive' /\ kind'[o] = kind[o]
  BY <1>1, <1>4, <1>6 DEF Alive
<1> QED BY <1>4, <1>5, <1>7, <1>8, <1>9

LEMMA KeepFacts ==
  ASSUME TypeOK, NEW objects, Keep(objects)
  PROVE  /\ kind' = kind /\ state' = state /\ attached' = Off(objects)
         /\ Off(objects) \subseteq attached
<1>1. kind \in Seq(Kinds) /\ Len(kind) \in Nat
  BY DEF TypeOK
<1>2. [i \in 1..0 |-> "error"] = <<>> /\ (Len(kind) + 1)..(Len(kind) + 0) = {}
  BY <1>1
<1>3. kind' = kind /\ state' = state
  BY <1>1, <1>2 DEF Keep, Replace
<1>4. attached' = Off(objects) \union ({} \X ListensTo("error"))
  BY <1>2 DEF Keep, Replace
<1> QED BY <1>3, <1>4 DEF Off

LEMMA ReplaceOneFacts ==
  ASSUME TypeOK, NEW objects, NEW k \in Kinds, Replace(objects, 1, k)
  PROVE  /\ state' = Len(kind) + 1 /\ kind'[state'] = k
         /\ attached' = Off(objects) \union ({state'} \X ListensTo(k))
         /\ state' \notin Alive
<1>1. kind \in Seq(Kinds) /\ Len(kind) \in Nat
  BY DEF TypeOK
<1>2. state' = Len(kind) + 1 /\ (Len(kind) + 1)..(Len(kind) + 1) = {state'}
  BY <1>1 DEF Replace
<1>3. kind'[state'] = k
  BY <1>2, ReplaceFacts
<1> QED BY <1>1, <1>2, <1>3 DEF Replace, Alive

(* The objects that fail are finitely many. *)
LEMMA FailsOnFacts ==
  ASSUME TypeOK, NEW event \in Events
  PROVE  /\ FailsOn(event) \subseteq Alive /\ Listeners(event) \subseteq Alive
         /\ Cardinality(FailsOn(event)) \in Nat
         /\ Cardinality(FailsOn(event)) = 0 <=> FailsOn(event) = {}
         /\ FailsOn(event) = {state} => Cardinality(FailsOn(event)) = 1
<1>1. FailsOn(event) \subseteq Alive /\ Listeners(event) \subseteq Alive
  BY DEF FailsOn, Listeners
<1>2. IsFiniteSet(FailsOn(event))
  <2>1. IsFiniteSet(Alive)
    BY FS_Interval DEF TypeOK, Alive
  <2> QED BY <1>1, <2>1, FS_Subset
<1> QED BY <1>1, <1>2, FS_CardinalityType, FS_EmptySet, FS_Singleton

(* What a call of the port changes, and what its answer changes. *)
LEMMA AwaitFacts ==
  ASSUME TypeOK, NEW objects, objects \subseteq Alive, NEW op \in Ops, Room(1), Await(objects, op)
  PROVE  /\ ops' \in [Objects -> [Ops -> 0..MaxPending]]
         /\ \A o \in objects : ops'[o][op] = ops[o][op] + 1
         /\ \A o \in Objects, p \in Ops :
              o \notin objects \/ p # op => ops'[o][p] = ops[o][p]
<1>1. ops \in [Objects -> [Ops -> 0..MaxPending]] /\ MaxPending \in Nat
  BY ProviderAssumption DEF TypeOK
<1>2. \A o \in Objects : [ops[o] EXCEPT ![op] = @ + 1] \in [Ops -> 0..MaxPending]
  <2> SUFFICES ASSUME NEW o \in Objects
               PROVE  [ops[o] EXCEPT ![op] = @ + 1] \in [Ops -> 0..MaxPending]
    OBVIOUS
  <2>1. ops[o][op] + 1 \in 0..MaxPending
    BY <1>1 DEF Room
  <2> QED BY <1>1, <2>1
<1>3. objects \subseteq Objects /\ op \in Ops
  BY ProviderAssumption DEF TypeOK, Alive, Objects
<1> QED BY <1>1, <1>2, <1>3 DEF Await

LEMMA AnswerFacts ==
  ASSUME TypeOK, NEW o \in Alive, NEW op \in Ops, ops[o][op] > 0,
         ops' = [ops EXCEPT ![o][op] = @ - 1]
  PROVE  /\ ops' \in [Objects -> [Ops -> 0..MaxPending]]
         /\ \A c \in Objects, p \in Ops :
              ops'[c][p] = IF c = o /\ p = op THEN ops[c][p] - 1 ELSE ops[c][p]
<1>1. /\ ops \in [Objects -> [Ops -> 0..MaxPending]] /\ MaxPending \in Nat /\ o \in Objects
      /\ ops[o][op] - 1 \in 0..MaxPending
  <2>1. o \in Objects
    BY ProviderAssumption DEF TypeOK, Alive, Objects
  <2>2. ops[o][op] \in 0..MaxPending /\ MaxPending \in Nat
    BY <2>1, ProviderAssumption DEF TypeOK
  <2> QED BY <2>1, <2>2 DEF TypeOK
<1> QED BY <1>1
-----------------------------------------------------------------------------
(* The types, and: no call of an object that does not exist yet is         *)
(* pending; an object listens to nothing that its kind does not listen to. *)
UnbornIdle == \A o \in Objects \ Alive, op \in Ops : ops[o][op] = 0

HearsItsOwn == \A o \in Alive, e \in Events : <<o, e>> \in attached => e \in ListensTo(kind[o])

ObjectInv == TypeOK /\ UnbornIdle /\ HearsItsOwn

LEMMA InitObjects == Init => ObjectInv
<1> SUFFICES ASSUME Init PROVE ObjectInv
  OBVIOUS
<1>1. kind \in Seq(Kinds) /\ Len(kind) = 1 /\ Alive = {1} /\ state \in Alive
  <2>1. kind = <<"stopped">> \/ kind = <<"error">>
    BY DEF Init
  <2>2. kind \in Seq(Kinds) /\ Len(kind) = 1
    BY <2>1 DEF Kinds
  <2>3. Alive = {1}
    BY <2>2 DEF Alive
  <2> QED BY <2>2, <2>3 DEF Init
<1>2. Len(kind) <= MaxObjects /\ MaxPending \in Nat
  BY <1>1, ProviderAssumption
<1>3. attached \subseteq Alive \X Events
  BY <1>1 DEF Init, ListensTo, Kinds, Events
<1>4. ops \in [Objects -> [Ops -> 0..MaxPending]] /\ \A o \in Objects, op \in Ops : ops[o][op] = 0
  BY <1>2 DEF Init
<1>5. healthy \in BOOLEAN /\ upsets \subseteq {"overlap", "lost", "close"}
  BY DEF Init
<1>6. HearsItsOwn
  BY <1>1 DEF Init, HearsItsOwn
<1> QED BY <1>1, <1>2, <1>3, <1>4, <1>5, <1>6 DEF ObjectInv, TypeOK, UnbornIdle

(* New objects have no pending call, and a call is one of an old object. *)
LEMMA StepObjects ==
  ASSUME ObjectInv, NEW objects, NEW n \in Nat, NEW k \in Kinds, Replace(objects, n, k),
         ops' \in [Objects -> [Ops -> 0..MaxPending]],
         \A o \in Objects \ Alive, op \in Ops : ops'[o][op] = ops[o][op],
         healthy' \in BOOLEAN, upsets' \subseteq {"overlap", "lost", "close"}
  PROVE  ObjectInv'
<1>1. TypeOK
  BY DEF ObjectInv
<1>2. TypeOK'
  BY <1>1, ReplaceFacts DEF TypeOK
<1>3. Alive \subseteq Alive'
  BY <1>1, ReplaceFacts
<1>4. HearsItsOwn'
  <2> SUFFICES ASSUME NEW o \in Alive', NEW e \in Events, <<o, e>> \in attached'
               PROVE  e \in ListensTo(kind'[o])
    BY DEF HearsItsOwn
  <2>1. attached' = Off(objects) \union (((Len(kind) + 1)..(Len(kind) + n)) \X ListensTo(k))
    BY DEF Replace
  <2>2. CASE <<o, e>> \in attached
    <3>1. o \in Alive
      BY <1>1, <2>2 DEF TypeOK
    <3> QED BY <1>1, <2>2, <3>1, ReplaceFacts DEF ObjectInv, HearsItsOwn
  <2>3. CASE o \in (Len(kind) + 1)..(Len(kind) + n) /\ e \in ListensTo(k)
    <3>1. kind'[o] = k
      BY <1>1, <2>3, ReplaceFacts
    <3> QED BY <2>3, <3>1
  <2> QED BY <2>1, <2>2, <2>3 DEF Off
<1> QED BY <1>2, <1>3, <1>4 DEF ObjectInv, UnbornIdle

LEMMA NextObjects == ObjectInv /\ [Next]_vars => ObjectInv'
<1> SUFFICES ASSUME ObjectInv, [Next]_vars PROVE ObjectInv'
  OBVIOUS
<1>1. /\ TypeOK /\ state \in Alive /\ Alive \subseteq Objects
      /\ ops \in [Objects -> [Ops -> 0..MaxPending]]
      /\ healthy \in BOOLEAN /\ upsets \subseteq {"overlap", "lost", "close"}
  <2>1. TypeOK
    BY DEF ObjectInv
  <2>2. Len(kind) \in Nat /\ MaxObjects \in Nat /\ Len(kind) <= MaxObjects
    BY <2>1, ProviderAssumption DEF TypeOK
  <2>3. Alive \subseteq Objects
    BY <2>2 DEF Alive, Objects
  <2> QED BY <2>1, <2>3 DEF TypeOK
<1>2. Overlap \subseteq {"overlap"} /\ \A e \in Events : Notice(e) \subseteq {"overlap", "lost"}
  BY DEF Overlap, Notice
<1>3. "error" \in Kinds /\ "running" \in Kinds /\ "stopped" \in Kinds /\ 0 \in Nat /\ 1 \in Nat
  BY DEF Kinds
<1>4. ASSUME NEW op \in Ops, Call(op) PROVE ObjectInv'
  <2>1. /\ ops' \in [Objects -> [Ops -> 0..MaxPending]]
        /\ \A o \in Objects \ Alive, p \in Ops : ops'[o][p] = ops[o][p]
    <3> DEFINE caller == {state}
    <3>1. TypeOK /\ Room(1) /\ caller \subseteq Alive /\ op \in Ops /\ Await(caller, op)
      BY <1>1, <1>4 DEF Call
    <3> HIDE DEF caller
    <3>2. ops' \in [Objects -> [Ops -> 0..MaxPending]]
      BY ONLY <3>1, AwaitFacts
    <3>3. \A o \in Objects, p \in Ops : o \notin caller \/ p # op => ops'[o][p] = ops[o][p]
      BY ONLY <3>1, AwaitFacts
    <3> QED BY <3>1, <3>2, <3>3
  <2> QED BY <1>1, <1>2, <1>3, <1>4, <2>1, StepObjects DEF Call, Keep, Upset
<1>5. CASE Fail
  BY <1>1, <1>2, <1>3, <1>5, StepObjects DEF Fail, Upset
<1>6. CASE Close
  BY <1>1, <1>6 DEF Close, Upset, ObjectInv, TypeOK, UnbornIdle, HearsItsOwn, Alive
<1>7. ASSUME NEW o \in Alive, NEW op \in Ops, NEW ok \in BOOLEAN, Answer(o, op, ok) PROVE ObjectInv'
  <2>1. /\ ops' \in [Objects -> [Ops -> 0..MaxPending]]
        /\ \A c \in Objects \ Alive, p \in Ops : ops'[c][p] = ops[c][p]
    BY <1>1, <1>7, AnswerFacts DEF Answer
  <2>2. \E objects \in {{}, {o}}, n \in {0, 1}, k \in Kinds : Replace(objects, n, k)
    <3>1. Follows(op) \in Kinds
      BY <1>3 DEF Follows
    <3>2. Replace({}, 0, "error") \/ Replace({}, 1, Follows(op)) \/ Replace({o}, 1, "error")
      BY <1>7 DEF Answer, Keep
    <3> QED BY <1>3, <3>1, <3>2
  <2>3. healthy' \in BOOLEAN /\ upsets' = upsets
    BY <1>7 DEF Answer
  <2> QED BY <1>1, <2>1, <2>2, <2>3, StepObjects
<1>8. ASSUME NEW event \in Events, Emit(event) PROVE ObjectInv'
  <2> DEFINE failing == FailsOn(event)
             moving  == IF event = "unhealthy" THEN {} ELSE Listeners(event) \ failing
             op      == IF event = "healthy" THEN "start" ELSE "stop"
  <2>1. moving \subseteq Alive /\ op \in Ops
    BY <1>1, FailsOnFacts DEF Ops
  <2>2. Room(1) /\ Await(moving, op) /\ Replace(failing \union moving, Cardinality(failing), "error")
    BY <1>8 DEF Emit
  <2>3. Cardinality(failing) \in Nat
    BY <1>1, FailsOnFacts
  <2>4. healthy' \in BOOLEAN /\ upsets' \subseteq {"overlap", "lost", "close"}
    BY <1>1, <1>2, <1>8 DEF Emit, Upset
  <2> HIDE DEF failing, moving, op
  <2>5. /\ ops' \in [Objects -> [Ops -> 0..MaxPending]]
        /\ \A o \in Objects \ Alive, p \in Ops : ops'[o][p] = ops[o][p]
    <3>0. TypeOK /\ Room(1) /\ moving \subseteq Alive /\ op \in Ops /\ Await(moving, op)
      BY <1>1, <2>1, <2>2
    <3>1. \A o \in Objects, p \in Ops : o \notin moving \/ p # op => ops'[o][p] = ops[o][p]
      BY ONLY <3>0, AwaitFacts
    <3>2. ops' \in [Objects -> [Ops -> 0..MaxPending]]
      BY <1>1, <2>1, <2>2, AwaitFacts
    <3> QED BY <2>1, <3>1, <3>2
  <2> QED BY <1>3, <2>2, <2>3, <2>4, <2>5, StepObjects
<1>9. CASE UNCHANGED vars
  BY <1>9 DEF vars, ObjectInv, TypeOK, UnbornIdle, HearsItsOwn, Alive
<1> QED BY <1>4, <1>5, <1>6, <1>7, <1>8, <1>9 DEF Next

LEMMA AlwaysObjects == Spec => []ObjectInv
BY InitObjects, NextObjects, PTL DEF Spec

(* The variables keep their types; the state is one of the objects. *)
THEOREM TypeCorrect == Spec => []TypeOK
<1>1. ObjectInv => TypeOK
  BY DEF ObjectInv
<1> QED BY <1>1, AlwaysObjects, PTL
-----------------------------------------------------------------------------
(* A state that does not listen to all it has to has a call of the port    *)
(* pending whose answer will put another state in its place.               *)
Listening == {state} \X ListensTo(kind[state]) \subseteq attached

LeftIsPending ==
  /\ kind[state] = "running" => Listening \/ ops[state]["stop"] > 0
  /\ kind[state] = "stopped" => Listening \/ ops[state]["start"] > 0

(* As long as nothing overlapped nobody but the state listens, at most one *)
(* call of the port is pending, and it is one of the state: of a state     *)
(* that nobody will replace, or of one that stopped listening.             *)
Undisturbed ==
  "overlap" \notin upsets =>
    /\ \A entry \in attached : entry[1] = state
    /\ \A o \in Objects, op \in Ops : ops[o][op] > 0 =>
         /\ o = state /\ ops[o][op] = 1
         /\ \A other \in Ops : other # op => ops[o][other] = 0
         /\ attached = {} \/ StopsListening(o, op) = {}

(* The objects that an event moves to start or to stop are error states. *)
Moving(event) == IF event = "unhealthy" THEN {} ELSE Listeners(event) \ FailsOn(event)

Moves(event) == IF event = "healthy" THEN "start" ELSE "stop"

LEMMA EmitFacts ==
  ASSUME ObjectInv, NEW event \in Events, Emit(event)
  PROVE  /\ FailsOn(event) # {} => state' \in Alive' /\ kind'[state'] = "error"
         /\ FailsOn(event) = {} => /\ kind' = kind /\ state' = state
                                   /\ attached' = Off(Moving(event))
         /\ FailsOn(event) = {state} => Replace({state} \union Moving(event), 1, "error")
         /\ Moving(event) \subseteq Alive
         /\ \A o \in Moving(event) : kind[o] = "error"
         /\ \A o \in Moving(event) : ops'[o][Moves(event)] = ops[o][Moves(event)] + 1
         /\ \A o \in Objects, op \in Ops :
              o \notin Moving(event) \/ op # Moves(event) => ops'[o][op] = ops[o][op]
<1>1. TypeOK /\ "error" \in Kinds
  BY DEF ObjectInv, Kinds
<1>2. /\ Room(1) /\ Await(Moving(event), Moves(event))
      /\ Replace(FailsOn(event) \union Moving(event), Cardinality(FailsOn(event)), "error")
  BY DEF Emit, Moving, Moves
<1>3. /\ FailsOn(event) \subseteq Alive /\ Listeners(event) \subseteq Alive
      /\ Cardinality(FailsOn(event)) \in Nat
      /\ Cardinality(FailsOn(event)) = 0 <=> FailsOn(event) = {}
      /\ FailsOn(event) = {state} => Cardinality(FailsOn(event)) = 1
  BY <1>1, FailsOnFacts
<1>4. Moving(event) \subseteq Alive /\ Moves(event) \in Ops
  BY <1>3 DEF Moving, Moves, Ops
<1>5. ASSUME NEW o \in Moving(event) PROVE kind[o] = "error"
  <2>1. o \in Alive /\ <<o, event>> \in attached /\ event # "unhealthy" /\ o \notin FailsOn(event)
    BY <1>4, <1>5 DEF Moving, Listeners
  <2>2. kind[o] \in Kinds
    BY <1>1, <2>1 DEF TypeOK, Alive
  <2>3. CASE event = "healthy"
    BY <2>1, <2>2, <2>3 DEF ObjectInv, HearsItsOwn, ListensTo, Kinds
  <2>4. CASE event # "healthy"
    BY <2>1, <2>4 DEF FailsOn, Listeners
  <2> QED BY <2>3, <2>4
<1>6. ASSUME FailsOn(event) # {} PROVE state' \in Alive' /\ kind'[state'] = "error"
  <2> DEFINE n == Cardinality(FailsOn(event))
             objects == FailsOn(event) \union Moving(event)
  <2>1. n \in Nat /\ n # 0 /\ Replace(objects, n, "error")
    BY <1>2, <1>3, <1>6
  <2> HIDE DEF n, objects
  <2>2. state' = Len(kind) + n
    BY <2>1 DEF Replace
  <2>3. Len(kind) + n \in (Len(kind) + 1)..(Len(kind) + n)
    BY <1>1, <2>1 DEF TypeOK
  <2> QED BY <1>1, <2>1, <2>2, <2>3, ReplaceFacts
<1>7. ASSUME FailsOn(event) = {} PROVE kind' = kind /\ state' = state /\ attached' = Off(Moving(event))
  <2>1. FailsOn(event) \union Moving(event) = Moving(event) /\ Cardinality(FailsOn(event)) = 0
    BY <1>3, <1>7
  <2>2. Keep(Moving(event))
    BY <1>2, <2>1 DEF Keep
  <2> QED BY <1>1, <2>2, KeepFacts
<1>8. FailsOn(event) = {state} => Replace({state} \union Moving(event), 1, "error")
  BY <1>2, <1>3
<1>9. \A o \in Moving(event) : ops'[o][Moves(event)] = ops[o][Moves(event)] + 1
  BY ONLY <1>1, <1>2, <1>4, AwaitFacts
<1>10. \A o \in Objects, op \in Ops :
         o \notin Moving(event) \/ op # Moves(event) => ops'[o][op] = ops[o][op]
  BY ONLY <1>1, <1>2, <1>4, AwaitFacts
<1> QED BY <1>4, <1>5, <1>6, <1>7, <1>8, <1>9, <1>10

(* A step that answers no call of the state, and takes nothing from what   *)
(* the state listens to, leaves LeftIsPending as it is.                    *)
LEMMA SameStateLeft ==
  ASSUME ObjectInv, LeftIsPending, kind' = kind, state' = state, NEW objects,
         attached' = Off(objects),
         kind[state] = "running" => state \notin objects \/ ops'[state]["stop"] > 0,
         kind[state] = "stopped" => state \notin objects \/ ops'[state]["start"] > 0,
         kind[state] = "running" /\ ops[state]["stop"] > 0 => ops'[state]["stop"] > 0,
         kind[state] = "stopped" /\ ops[state]["start"] > 0 => ops'[state]["start"] > 0
  PROVE  LeftIsPending'
<1>1. ASSUME state \notin objects, Listening PROVE Listening'
  BY <1>1 DEF Listening, Off
<1> QED BY <1>1 DEF LeftIsPending

LEMMA NewStateLeft ==
  ASSUME ObjectInv, NEW objects, NEW k \in Kinds, Replace(objects, 1, k)
  PROVE  LeftIsPending'
<1>1. Listening'
  BY ReplaceOneFacts DEF ObjectInv, Listening
<1> QED BY <1>1 DEF LeftIsPending

LEMMA NextLeft == ObjectInv /\ LeftIsPending /\ [Next]_vars => LeftIsPending'
<1> SUFFICES ASSUME ObjectInv, LeftIsPending, [Next]_vars PROVE LeftIsPending'
  OBVIOUS
<1>1. /\ TypeOK /\ state \in Alive /\ state \in Objects /\ Alive \subseteq Objects
      /\ kind[state] \in Kinds
      /\ \A o \in Objects, op \in Ops : ops[o][op] \in Nat
      /\ "error" \in Kinds /\ "running" \in Kinds /\ "stopped" \in Kinds
  <2>1. TypeOK /\ MaxPending \in Nat /\ MaxObjects \in Nat
    BY ProviderAssumption DEF ObjectInv
  <2>2. Alive \subseteq Objects
    BY <2>1 DEF TypeOK, Alive, Objects
  <2> QED BY <2>1, <2>2 DEF TypeOK, Alive, Kinds
<1>2. ASSUME NEW op \in Ops, Call(op) PROVE LeftIsPending'
  <2> DEFINE caller == {state}
             left   == StopsListening(state, op)
  <2>1. TypeOK /\ Room(1) /\ caller \subseteq Alive /\ op \in Ops /\ Await(caller, op) /\ Keep(left)
    BY <1>1, <1>2 DEF Call
  <2>2. state \in caller
    OBVIOUS
  <2>3. /\ kind[state] = "running" /\ state \in left => op = "stop"
        /\ kind[state] = "stopped" /\ state \in left => op = "start"
    BY DEF StopsListening, Ops
  <2> HIDE DEF caller, left
  <2>4. kind' = kind /\ state' = state /\ attached' = Off(left)
    BY <2>1, KeepFacts
  <2>5. \A o \in caller : ops'[o][op] = ops[o][op] + 1
    BY ONLY <2>1, AwaitFacts
  <2>6. \A o \in Objects, p \in Ops : o \notin caller \/ p # op => ops'[o][p] = ops[o][p]
    BY ONLY <2>1, AwaitFacts
  <2>7. \A p \in Ops : ops[state][p] \in Nat /\ ops'[state][p] \in {ops[state][p], ops[state][p] + 1}
    BY <1>1, <2>2, <2>5, <2>6
  <2>8. ops'[state][op] = ops[state][op] + 1 /\ ops[state][op] \in Nat
    BY <1>1, <2>2, <2>5
  <2>9. /\ kind[state] = "running" => state \notin left \/ ops'[state]["stop"] > 0
        /\ kind[state] = "stopped" => state \notin left \/ ops'[state]["start"] > 0
    BY <2>3, <2>8
  <2>10. /\ ops[state]["stop"] > 0 => ops'[state]["stop"] > 0
         /\ ops[state]["start"] > 0 => ops'[state]["start"] > 0
    BY <2>7 DEF Ops
  <2> QED BY <2>4, <2>9, <2>10, SameStateLeft
<1>3. CASE Fail
  BY <1>1, <1>3, NewStateLeft DEF Fail
<1>4. CASE Close
  BY <1>4 DEF Close, LeftIsPending, Listening
<1>5. ASSUME NEW o \in Alive, NEW op \in Ops, NEW ok \in BOOLEAN, Answer(o, op, ok)
      PROVE  LeftIsPending'
  <2>1. CASE Replace({}, 1, Follows(op)) \/ Replace({o}, 1, "error")
    BY <1>1, <2>1, NewStateLeft DEF Follows
  <2>2. CASE /\ \/ kind[o] = "running" /\ op = "start"
                \/ kind[o] = "stopped" /\ op = "stop"
                \/ kind[o] = "error"
             /\ Keep({})
    <3>1. kind' = kind /\ state' = state /\ attached' = Off({})
      BY <1>1, <2>2, KeepFacts
    <3>2. \A c \in Objects, p \in Ops : c # o \/ p # op => ops'[c][p] = ops[c][p]
      <4>1. TypeOK /\ ops[o][op] > 0 /\ ops' = [ops EXCEPT ![o][op] = @ - 1]
        BY <1>1, <1>5 DEF Answer
      <4> QED BY ONLY <4>1, AnswerFacts, o \in Alive, op \in Ops
    <3>3. /\ kind[state] = "running" => ops'[state]["stop"] = ops[state]["stop"]
          /\ kind[state] = "stopped" => ops'[state]["start"] = ops[state]["start"]
      BY <1>1, <2>2, <3>2 DEF Ops
    <3> QED BY <3>1, <3>3, SameStateLeft
  <2> QED BY <1>5, <2>1, <2>2 DEF Answer
<1>6. ASSUME NEW event \in Events, Emit(event) PROVE LeftIsPending'
  <2>1. CASE FailsOn(event) # {}
    BY <1>6, <2>1, EmitFacts DEF LeftIsPending
  <2>2. CASE FailsOn(event) = {}
    <3>1. kind' = kind /\ state' = state /\ attached' = Off(Moving(event))
      BY <1>6, <2>2, EmitFacts
    <3>2. CASE state \in Moving(event)
      <4>1. kind'[state'] = "error"
        BY <1>6, <3>1, <3>2, EmitFacts
      <4> QED BY <4>1 DEF LeftIsPending
    <3>3. CASE state \notin Moving(event)
      <4>1. \A op \in Ops : ops'[state][op] = ops[state][op]
        BY <1>1, <1>6, <3>3, EmitFacts
      <4>2. ops'[state]["stop"] = ops[state]["stop"] /\ ops'[state]["start"] = ops[state]["start"]
        BY <4>1 DEF Ops
      <4> QED BY <3>1, <3>3, <4>2, SameStateLeft
    <3> QED BY <3>2, <3>3
  <2> QED BY <2>1, <2>2
<1>7. CASE UNCHANGED vars
  BY <1>7 DEF vars, LeftIsPending, Listening
<1> QED BY <1>2, <1>3, <1>4, <1>5, <1>6, <1>7 DEF Next

(* A provider that is not in state error listens to its port whenever no   *)
(* call is pending: whatever events and calls overlapped.                  *)
THEOREM CurrentListensAlways == Spec => []CurrentListens
<1>1. Init => LeftIsPending
  <2> SUFFICES ASSUME Init PROVE Listening
    BY DEF LeftIsPending
  <2> QED BY DEF Init, Listening
<1>2. ObjectInv /\ LeftIsPending => CurrentListens
  <2> SUFFICES ASSUME ObjectInv, LeftIsPending, Quiet, kind[state] # "error" PROVE Listening
    BY DEF CurrentListens, Listening
  <2>1. kind[state] = "running" \/ kind[state] = "stopped"
    BY DEF ObjectInv, TypeOK, Kinds, Alive
  <2>2. state \in Alive /\ ~(ops[state]["stop"] > 0) /\ ~(ops[state]["start"] > 0)
    BY DEF ObjectInv, TypeOK, Quiet, Pending, Ops
  <2> QED BY <2>1, <2>2 DEF LeftIsPending
<1> QED BY <1>1, <1>2, NextLeft, AlwaysObjects, PTL DEF Spec
-----------------------------------------------------------------------------
LEMMA InitUndisturbed == Init => Undisturbed
<1> SUFFICES ASSUME Init PROVE Undisturbed
  OBVIOUS
<1>1. \A entry \in attached : entry[1] = state
  BY DEF Init
<1>2. \A o \in Objects, op \in Ops : ops[o][op] = 0
  BY DEF Init
<1> QED BY <1>1, <1>2 DEF Undisturbed

(* When nothing is pending no object awaits the port. *)
LEMMA QuietFacts ==
  ASSUME ObjectInv, Pending = {} PROVE \A o \in Objects, op \in Ops : ops[o][op] = 0
<1> SUFFICES ASSUME NEW o \in Objects, NEW op \in Ops PROVE ops[o][op] = 0
  OBVIOUS
<1>1. CASE o \in Alive
  <2>1. ops[o][op] \in Nat /\ ~(ops[o][op] > 0)
    BY <1>1, ProviderAssumption DEF ObjectInv, TypeOK, Pending
  <2> QED BY <2>1
<1>2. CASE o \notin Alive
  BY <1>2 DEF ObjectInv, UnbornIdle
<1> QED BY <1>1, <1>2

(* A new state takes the place of one that does not listen any more. *)
LEMMA NewStateUndisturbed ==
  ASSUME ObjectInv, NEW objects, NEW k \in Kinds, Replace(objects, 1, k),
         Off(objects) = {}, \A o \in Objects, op \in Ops : ops'[o][op] = 0
  PROVE  Undisturbed'
<1>1. attached' = {state'} \X ListensTo(k)
  BY ReplaceOneFacts DEF ObjectInv
<1>2. \A entry \in attached' : entry[1] = state'
  BY <1>1
<1> QED BY <1>2 DEF Undisturbed

LEMMA NextUndisturbed == ObjectInv /\ Undisturbed /\ [Next]_vars => Undisturbed'
<1> SUFFICES ASSUME ObjectInv, Undisturbed, [Next]_vars, "overlap" \notin upsets' PROVE Undisturbed'
  BY DEF Undisturbed
<1>1. /\ TypeOK /\ state \in Alive /\ state \in Objects /\ Alive \subseteq Objects
      /\ kind[state] \in Kinds
      /\ \A o \in Objects, op \in Ops : ops[o][op] \in Nat
      /\ "error" \in Kinds /\ "running" \in Kinds /\ "stopped" \in Kinds
  <2>1. TypeOK /\ MaxPending \in Nat /\ MaxObjects \in Nat
    BY ProviderAssumption DEF ObjectInv
  <2>2. Alive \subseteq Objects
    BY <2>1 DEF TypeOK, Alive, Objects
  <2> QED BY <2>1, <2>2 DEF TypeOK, Alive, Kinds
<1>2. "overlap" \notin upsets
  <2>1. upsets \subseteq upsets'
    <3>1. \A op \in Ops : Call(op) => upsets \subseteq upsets'
      BY DEF Call, Upset
    <3>2. \A o \in Alive, op \in Ops, ok \in BOOLEAN : Answer(o, op, ok) => upsets \subseteq upsets'
      BY DEF Answer, Upset
    <3>3. \A event \in Events : Emit(event) => upsets \subseteq upsets'
      BY DEF Emit, Upset
    <3>4. Fail \/ Close \/ UNCHANGED vars => upsets \subseteq upsets'
      BY DEF Fail, Close, Upset, vars
    <3> QED BY <3>1, <3>2, <3>3, <3>4 DEF Next
  <2> QED BY <2>1
<1>3. /\ \A entry \in attached : entry[1] = state
      /\ \A o \in Objects, op \in Ops : ops[o][op] > 0 =>
           /\ o = state /\ ops[o][op] = 1
           /\ \A other \in Ops : other # op => ops[o][other] = 0
           /\ attached = {} \/ StopsListening(o, op) = {}
  BY <1>2 DEF Undisturbed
<1>4. Off({state}) = {}
  BY <1>3 DEF Off
<1>5. ASSUME Upset(Overlap) PROVE \A o \in Objects, op \in Ops : ops[o][op] = 0
  <2>1. Pending = {}
    BY <1>5 DEF Upset, Overlap
  <2> QED BY <2>1, QuietFacts
<1>6. ASSUME NEW op \in Ops, Call(op) PROVE Undisturbed'
  <2> DEFINE caller == {state}
             left   == StopsListening(state, op)
  <2>1. TypeOK /\ Room(1) /\ caller \subseteq Alive /\ op \in Ops /\ Await(caller, op) /\ Keep(left)
    BY <1>1, <1>6 DEF Call
  <2>2. /\ \A o : o \in caller <=> o = state
        /\ left = {} \/ left = {state}
    BY DEF StopsListening
  <2> HIDE DEF caller
  <2>3. kind' = kind /\ state' = state /\ attached' = Off(left) /\ Off(left) \subseteq attached
    BY <2>1, KeepFacts
  <2>4. \A o \in caller : ops'[o][op] = ops[o][op] + 1
    BY ONLY <2>1, AwaitFacts
  <2>5. \A o \in Objects, p \in Ops : o \notin caller \/ p # op => ops'[o][p] = ops[o][p]
    BY ONLY <2>1, AwaitFacts
  <2>6. \A o \in Objects, p \in Ops : ops[o][p] = 0
    BY <1>5, <1>6 DEF Call
  <2>7. /\ ops'[state][op] = 1
        /\ \A o \in Objects, p \in Ops : o # state \/ p # op => ops'[o][p] = 0
    BY <1>1, <2>2, <2>4, <2>5, <2>6
  <2>8. attached' = {} \/ StopsListening(state, op)' = {}
    BY <1>4, <2>2, <2>3 DEF StopsListening
  <2>9. \A entry \in attached' : entry[1] = state'
    BY <1>3, <2>3
  <2>10. ASSUME NEW o \in Objects, NEW p \in Ops, ops'[o][p] > 0
         PROVE  /\ o = state' /\ ops'[o][p] = 1
                /\ \A other \in Ops : other # p => ops'[o][other] = 0
                /\ attached' = {} \/ StopsListening(o, p)' = {}
    <3>1. o = state /\ p = op
      BY <2>7, <2>10
    <3> QED BY <2>3, <2>7, <2>8, <3>1
  <2> QED BY <2>9, <2>10 DEF Undisturbed
<1>7. CASE Fail
  <2>1. \A o \in Objects, op \in Ops : ops'[o][op] = 0
    BY <1>5, <1>7 DEF Fail
  <2> QED BY <1>1, <1>4, <1>7, <2>1, NewStateUndisturbed DEF Fail
<1>8. CASE Close
  BY <1>3, <1>8 DEF Close, Undisturbed, StopsListening
<1>9. ASSUME NEW o \in Alive, NEW op \in Ops, NEW ok \in BOOLEAN, Answer(o, op, ok)
      PROVE  Undisturbed'
  <2>1. TypeOK /\ ops[o][op] > 0 /\ ops' = [ops EXCEPT ![o][op] = @ - 1]
    BY <1>1, <1>9 DEF Answer
  <2>2. \A c \in Objects, p \in Ops :
          ops'[c][p] = IF c = o /\ p = op THEN ops[c][p] - 1 ELSE ops[c][p]
    BY ONLY <2>1, AnswerFacts, o \in Alive, op \in Ops
  <2>3. /\ o = state /\ ops[o][op] = 1
        /\ \A other \in Ops : other # op => ops[o][other] = 0
        /\ attached = {} \/ StopsListening(o, op) = {}
    BY <1>1, <1>3, <2>1
  <2>4. \A c \in Objects, p \in Ops : ops'[c][p] = 0
    <3> SUFFICES ASSUME NEW c \in Objects, NEW p \in Ops PROVE ops'[c][p] = 0
      OBVIOUS
    <3>1. CASE c = o /\ p = op
      BY <2>2, <2>3, <3>1
    <3>2. CASE c # o \/ p # op
      <4>1. ops'[c][p] = ops[c][p] /\ ops[c][p] \in Nat
        BY <1>1, <2>2, <3>2
      <4>2. ~(ops[c][p] > 0)
        BY <1>3, <2>3, <3>2
      <4> QED BY <4>1, <4>2
    <3> QED BY <3>1, <3>2
  <2>5. CASE Keep({})
    <3>1. state' = state /\ attached' \subseteq attached
      BY <1>1, <2>5, KeepFacts
    <3> QED BY <1>3, <2>4, <3>1 DEF Undisturbed
  <2>6. CASE /\ ~(kind[o] = "running" /\ op = "start") /\ ~(kind[o] = "stopped" /\ op = "stop")
             /\ Replace({}, 1, Follows(op))
    <3>1. StopsListening(o, op) # {}
      BY <1>1, <2>3, <2>6 DEF StopsListening, Ops
    <3>2. Off({}) = {} /\ Follows(op) \in Kinds
      BY <1>1, <2>3, <3>1 DEF Off, Follows
    <3> QED BY <2>4, <2>6, <3>2, NewStateUndisturbed
  <2>7. CASE Replace({o}, 1, "error")
    BY <1>1, <1>4, <2>3, <2>4, <2>7, NewStateUndisturbed
  <2> QED BY <1>9, <2>5, <2>6, <2>7 DEF Answer
<1>10. ASSUME NEW event \in Events, Emit(event) PROVE Undisturbed'
  <2>1. CASE Listeners(event) = {}
    <3>1. FailsOn(event) = {} /\ Moving(event) = {}
      BY <2>1 DEF FailsOn, Moving
    <3>2. kind' = kind /\ state' = state /\ attached' = Off(Moving(event))
      BY <1>10, <3>1, EmitFacts
    <3>3. \A o \in Objects, op \in Ops : ops'[o][op] = ops[o][op]
      BY <1>10, <3>1, EmitFacts
    <3>4. attached' = attached
      BY <3>1, <3>2 DEF Off
    <3> QED BY <1>3, <3>2, <3>3, <3>4 DEF Undisturbed, StopsListening
  <2>2. CASE Listeners(event) # {}
    <3>1. \A o \in Objects, op \in Ops : ops[o][op] = 0
      BY <1>5, <1>10, <2>2 DEF Emit, Notice
    <3>2. Listeners(event) = {state}
      BY <1>3, <2>2 DEF Listeners
    <3>3. CASE FailsOn(event) = {state}
      <4>1. Moving(event) = {} /\ {state} \union Moving(event) = {state}
        BY <3>2, <3>3 DEF Moving
      <4>2. Replace({state}, 1, "error")
        BY <1>10, <3>3, <4>1, EmitFacts
      <4>3. \A o \in Objects, op \in Ops : ops'[o][op] = ops[o][op]
        BY <1>10, <4>1, EmitFacts
      <4> QED BY <1>1, <1>4, <3>1, <4>2, <4>3, NewStateUndisturbed
    <3>4. CASE FailsOn(event) # {state}
      <4>1. FailsOn(event) = {}
        BY <3>2, <3>4 DEF FailsOn
      <4>2. kind' = kind /\ state' = state /\ attached' = Off(Moving(event))
        BY <1>10, <4>1, EmitFacts
      <4>3. Moving(event) = {} \/ Moving(event) = {state}
        BY <3>2, <4>1 DEF Moving
      <4>4. \A entry \in attached' : entry[1] = state'
        BY <1>3, <4>2 DEF Off
      <4>5. CASE Moving(event) = {}
        <5>1. \A o \in Objects, op \in Ops : ops'[o][op] = ops[o][op]
          BY <1>10, <4>5, EmitFacts
        <5>2. \A o \in Objects, op \in Ops : ops'[o][op] = 0
          BY <3>1, <5>1
        <5> QED BY <4>4, <5>2 DEF Undisturbed
      <4>6. CASE Moving(event) = {state}
        <5>1. /\ ops'[state][Moves(event)] = 1 /\ Moves(event) \in Ops
              /\ \A o \in Objects, p \in Ops : o # state \/ p # Moves(event) => ops'[o][p] = 0
          <6>1. Moves(event) \in Ops
            BY DEF Moves, Ops
          <6>2. ops'[state][Moves(event)] = ops[state][Moves(event)] + 1
            BY <1>10, <4>6, EmitFacts
          <6>3. \A o \in Objects, p \in Ops :
                  o \notin Moving(event) \/ p # Moves(event) => ops'[o][p] = ops[o][p]
            BY <1>10, EmitFacts
          <6> QED BY <1>1, <3>1, <4>6, <6>1, <6>2, <6>3
        <5>2. attached' = {}
          BY <1>4, <4>2, <4>6
        <5> QED BY <4>2, <4>4, <5>1, <5>2 DEF Undisturbed
      <4> QED BY <4>3, <4>5, <4>6
    <3> QED BY <3>3, <3>4
  <2> QED BY <2>1, <2>2
<1>11. CASE UNCHANGED vars
  BY <1>3, <1>11 DEF vars, Undisturbed, StopsListening
<1> QED BY <1>6, <1>7, <1>8, <1>9, <1>10, <1>11 DEF Next

LEMMA AlwaysUndisturbed == Spec => []Undisturbed
BY InitUndisturbed, NextUndisturbed, AlwaysObjects, PTL DEF Spec

(* Without an overlap no object but the state of the manager listens. *)
THEOREM OnlyTheStateListensAlways == Spec => []OnlyTheStateListens
<1>1. Undisturbed => OnlyTheStateListens
  BY DEF Undisturbed, OnlyTheStateListens
<1> QED BY <1>1, AlwaysUndisturbed, PTL
-----------------------------------------------------------------------------
(* What an answer finds when nothing overlapped: the state awaits it, and  *)
(* nothing else is pending afterwards.                                     *)
LEMMA AnswerUndisturbed ==
  ASSUME ObjectInv, Undisturbed, "overlap" \notin upsets,
         NEW o \in Alive, NEW op \in Ops, ops[o][op] > 0
  PROVE  o = state /\ kind[state] \in Kinds
<1>1. Alive \subseteq Objects
  <2>1. MaxObjects \in Nat /\ Len(kind) \in Nat /\ Len(kind) <= MaxObjects
    BY ProviderAssumption DEF ObjectInv, TypeOK
  <2> QED BY <2>1 DEF Alive, Objects
<1>2. kind[state] \in Kinds
  BY DEF ObjectInv, TypeOK, Alive
<1> QED BY <1>1, <1>2 DEF Undisturbed

(* The state that an answer leads to. *)
LEMMA AnswerOutcome ==
  ASSUME ObjectInv, NEW op \in Ops, NEW ok \in BOOLEAN, kind[state] \in Kinds,
         Answer(state, op, ok)
  PROVE  kind'[state'] = IF ok THEN Follows(op) ELSE "error"
<1>1. TypeOK /\ "error" \in Kinds /\ Follows(op) \in Kinds
  BY DEF ObjectInv, Follows, Kinds
<1>2. CASE ok
  <2>1. CASE /\ \/ kind[state] = "running" /\ op = "start"
                \/ kind[state] = "stopped" /\ op = "stop"
             /\ Keep({})
    <3>1. kind' = kind /\ state' = state
      BY <1>1, <2>1, KeepFacts
    <3> QED BY <1>2, <2>1, <3>1 DEF Follows
  <2>2. CASE Replace({}, 1, Follows(op))
    BY <1>1, <1>2, <2>2, ReplaceOneFacts
  <2>3. ~(kind[state] = "error" /\ ~ok)
    BY <1>2
  <2>4. \/ /\ \/ kind[state] = "running" /\ op = "start"
              \/ kind[state] = "stopped" /\ op = "stop"
           /\ Keep({})
        \/ Replace({}, 1, Follows(op))
    BY <1>2, <2>3 DEF Answer
  <2> QED BY <2>1, <2>2, <2>4
<1>3. CASE ~ok
  <2>1. CASE kind[state] = "error" /\ Keep({})
    <3>1. kind' = kind /\ state' = state
      BY <1>1, <2>1, KeepFacts
    <3> QED BY <1>3, <2>1, <3>1
  <2>2. CASE Replace({state}, 1, "error")
    BY <1>1, <1>3, <2>2, ReplaceOneFacts
  <2> QED BY <1>3, <2>1, <2>2 DEF Answer
<1> QED BY <1>2, <1>3

LEMMA NextHealthy ==
  ObjectInv /\ Undisturbed /\ RunningIsHealthy /\ [Next]_vars => RunningIsHealthy'
<1> SUFFICES ASSUME ObjectInv, Undisturbed, RunningIsHealthy, [Next]_vars,
                    Quiet', upsets' = {}, kind'[state'] = "running"
             PROVE  healthy'
  BY DEF RunningIsHealthy
<1>1. TypeOK /\ state \in Alive /\ upsets = {} /\ "error" \in Kinds
  <2>1. upsets \subseteq upsets'
    BY DEF Next, Call, Fail, Close, Answer, Emit, Upset, vars
  <2> QED BY <2>1 DEF ObjectInv, TypeOK, Kinds
<1>2. ASSUME NEW op \in Ops, Call(op) PROVE healthy'
  <2> DEFINE caller == {state}
             left   == StopsListening(state, op)
  <2>1. TypeOK /\ Room(1) /\ caller \subseteq Alive /\ op \in Ops /\ Await(caller, op) /\ Keep(left)
    BY <1>1, <1>2 DEF Call
  <2>2. state \in caller
    OBVIOUS
  <2> HIDE DEF caller, left
  <2>3. kind' = kind /\ state' = state
    BY <2>1, KeepFacts
  <2>4. \A o \in caller : ops'[o][op] = ops[o][op] + 1
    BY ONLY <2>1, AwaitFacts
  <2>5. ops[state][op] \in Nat
    BY <1>1, ProviderAssumption DEF TypeOK, Alive, Objects
  <2>6. ops'[state][op] > 0
    BY <2>2, <2>4, <2>5
  <2>7. state \in Pending'
    BY <1>1, <2>3, <2>6 DEF Pending, Alive
  <2> QED BY <2>7 DEF Quiet
<1>3. CASE Fail
  BY <1>1, <1>3, ReplaceOneFacts DEF Fail
<1>4. CASE Close
  BY <1>4 DEF Close, Upset
<1>5. ASSUME NEW o \in Alive, NEW op \in Ops, NEW ok \in BOOLEAN, Answer(o, op, ok) PROVE healthy'
  <2>1. o = state /\ kind[state] \in Kinds
    BY <1>1, <1>5, AnswerUndisturbed DEF Answer
  <2>2. kind'[state'] = IF ok THEN Follows(op) ELSE "error"
    BY <1>5, <2>1, AnswerOutcome
  <2>3. op = "start" /\ ok
    BY <2>2 DEF Follows, Ops
  <2> QED BY <1>5, <2>3 DEF Answer
<1>6. ASSUME NEW event \in Events, Emit(event) PROVE healthy'
  <2>1. CASE event = "healthy"
    BY <1>6, <2>1 DEF Emit
  <2>2. CASE event # "healthy"
    <3>1. Notice(event) = {}
      BY <1>6 DEF Emit, Upset
    <3>2. Listeners(event) # {}
      BY <2>2, <3>1 DEF Notice
    <3>3. Listeners(event) = {state}
      BY <1>1, <3>2 DEF Listeners, Undisturbed
    <3>4. FailsOn(event) = {}
      BY <1>6, EmitFacts
    <3>5. kind[state] = "error"
      BY <2>2, <3>3, <3>4 DEF FailsOn
    <3>6. kind' = kind /\ state' = state
      BY <1>6, <3>4, EmitFacts
    <3> QED BY <3>5, <3>6
  <2> QED BY <2>1, <2>2
<1>7. CASE UNCHANGED vars
  <2>1. Quiet /\ kind[state] = "running" /\ healthy' = healthy
    BY <1>7 DEF vars, Quiet, Pending, Alive
  <2> QED BY <1>1, <2>1 DEF RunningIsHealthy
<1> QED BY <1>2, <1>3, <1>4, <1>5, <1>6, <1>7 DEF Next

(* A provider that runs has access to its resources, for any number of     *)
(* starts, stops, failures and recoveries.                                 *)
THEOREM RunningIsHealthyAlways == Spec => []RunningIsHealthy
<1>1. Init => RunningIsHealthy
  <2> SUFFICES ASSUME Init PROVE kind[state] # "running"
    BY DEF RunningIsHealthy
  <2> QED BY DEF Init
<1> QED BY <1>1, NextHealthy, AlwaysObjects, AlwaysUndisturbed, PTL DEF Spec

(* The promises of start() and stop() settle in the state they announce.   *)
THEOREM PromisesHoldAlways == Spec => PromisesHold
<1> DEFINE Holds ==
      \A o \in Alive, op \in Ops :
        (ops'[o][op] < ops[o][op] /\ "overlap" \notin upsets) =>
          IF op = "stop" THEN kind'[state'] \in {"stopped", "error"}
          ELSE kind'[state'] = IF healthy' THEN "running" ELSE "error"
<1>1. ObjectInv /\ Undisturbed /\ [Next]_vars => [Holds]_vars
  <2> SUFFICES ASSUME ObjectInv, Undisturbed, [Next]_vars, NEW o \in Alive, NEW op \in Ops,
                      ops'[o][op] < ops[o][op], "overlap" \notin upsets
               PROVE  IF op = "stop" THEN kind'[state'] \in {"stopped", "error"}
                      ELSE kind'[state'] = IF healthy' THEN "running" ELSE "error"
    OBVIOUS
  <2>1. /\ TypeOK /\ state \in Alive /\ Alive \subseteq Objects
        /\ \A c \in Objects, p \in Ops : ops[c][p] \in Nat
    <3>1. TypeOK /\ MaxPending \in Nat /\ MaxObjects \in Nat
      BY ProviderAssumption DEF ObjectInv
    <3>2. Alive \subseteq Objects
      BY <3>1 DEF TypeOK, Alive, Objects
    <3> QED BY <3>1, <3>2 DEF TypeOK
  <2>2. \A p \in Ops : ~Call(p)
    <3> SUFFICES ASSUME NEW p \in Ops, Call(p) PROVE FALSE
      OBVIOUS
    <3> DEFINE caller == {state}
    <3>1. TypeOK /\ Room(1) /\ caller \subseteq Alive /\ p \in Ops /\ Await(caller, p)
      BY <2>1 DEF Call
    <3> HIDE DEF caller
    <3>2. \A c \in caller : ops'[c][p] = ops[c][p] + 1
      BY ONLY <3>1, AwaitFacts
    <3>3. \A c \in Objects, q \in Ops : c \notin caller \/ q # p => ops'[c][q] = ops[c][q]
      BY ONLY <3>1, AwaitFacts
    <3>4. ops'[o][op] = ops[o][op] \/ ops'[o][op] = ops[o][op] + 1
      BY <2>1, <3>2, <3>3
    <3> QED BY <2>1, <3>4
  <2>3. \A event \in Events : ~Emit(event)
    <3> SUFFICES ASSUME NEW event \in Events, Emit(event) PROVE FALSE
      OBVIOUS
    <3>1. ops'[o][op] = ops[o][op] \/ ops'[o][op] = ops[o][op] + 1
      BY <2>1, EmitFacts
    <3> QED BY <2>1, <3>1
  <2>4. ~(ops' = ops)
    BY <2>1
  <2>5. PICK c \in Alive, p \in Ops, ok \in BOOLEAN : Answer(c, p, ok)
    BY <2>2, <2>3, <2>4 DEF Next, Fail, Close, vars
  <2>6. c = state /\ kind[state] \in Kinds
    BY <2>5, AnswerUndisturbed DEF Answer
  <2>7. p = op
    <3>1. TypeOK /\ ops[c][p] > 0 /\ ops' = [ops EXCEPT ![c][p] = @ - 1]
      BY <2>1, <2>5 DEF Answer
    <3>2. \A d \in Objects, q \in Ops :
            ops'[d][q] = IF d = c /\ q = p THEN ops[d][q] - 1 ELSE ops[d][q]
      BY ONLY <3>1, AnswerFacts, c \in Alive, p \in Ops
    <3> QED BY <2>1, <3>2
  <2>8. kind'[state'] = IF ok THEN Follows(op) ELSE "error"
    BY <2>5, <2>6, <2>7, AnswerOutcome
  <2>9. healthy' = (op = "start" /\ ok)
    BY <2>5, <2>7 DEF Answer
  <2> QED BY <2>8, <2>9 DEF Follows, Ops
<1> QED BY <1>1, AlwaysObjects, AlwaysUndisturbed, PTL DEF Spec, PromisesHold
-----------------------------------------------------------------------------
(***************************************************************************)
(* The same manager with a real port below it (module ManagedPort): what   *)
(* a provider of mongo or kafka that was stopped does.                     *)
(***************************************************************************)
(* The port listens to its library only while it is started, and not any   *)
(* more when the provider has come to its state stopped: nobody says       *)
(* anything then.  A stopped provider that awaits its port was started.    *)
KeptInv ==
  port \in {"mongo", "kafka"} =>
    /\ listeners \in {0, 1} /\ (listeners > 0 => started)
    /\ call \in {"none", "start", "check", "stop"}
    /\ listens # {} => call = "none"
    /\ port = "mongo" => checks = 0
    /\ call = "stop" => stateKind # "stopped" /\ (port = "kafka" => listeners = 0)
    /\ stateKind = "stopped" =>
         /\ call = "none" => listeners = 0 /\ said = "none"
         /\ call # "none" => listens = {} /\ wants = "start"

(* The answer of a port ends a call in one of the three states. *)
LEMMA SettleFacts ==
  ASSUME NEW op \in {"start", "stop"}, NEW ok, Settle(op, ok),
         stateKind # "stopped" \/ op = "start"
  PROVE  /\ call' = "none" /\ wants' = wants
         /\ stateKind' = "stopped" => ok /\ op = "stop"
BY DEF Settle, Become, StateAfter

(* A call of the port, by the client or by an error state. *)
LEMMA CallPortKept ==
  ASSUME KeptInv, port \in {"mongo", "kafka"}, NEW op \in {"start", "stop"},
         CallPort(op), stateKind # "stopped" \/ (op = "start" /\ wants' = "start"),
         call = "none", UNCHANGED <<port, system>>, said' = "none"
  PROVE  KeptInv'
<1>1. port # "elastic" /\ port # "amqp" /\ port # "socket" /\ port # "redis"
  OBVIOUS
<1>2. listeners' = IF op = "stop" /\ port = "kafka" /\ started THEN 0 ELSE listeners
  BY <1>1 DEF CallPort, Unwraps
<1>3. started' = started /\ checks' = checks
  BY <1>1 DEF CallPort, checking
<1>4. CASE NothingToDo(op) /\ Resolve(op)
  <2>1. call' = "none" /\ stateKind' = StateAfter(op)
    BY <1>4 DEF Resolve, Become
  <2>2. op = "stop" => ~started
    BY <1>1, <1>4 DEF NothingToDo
  <2> QED BY <1>2, <1>3, <2>1, <2>2 DEF KeptInv, StateAfter
<1>5. CASE Acts(op) /\ AwaitPort(op)
  <2>1. call' = op /\ listens' = {} /\ stateKind' = stateKind
    BY <1>5 DEF AwaitPort
  <2>2. op = "stop" => started
    BY <1>1, <1>5 DEF Acts, NothingToDo
  <2> QED BY <1>2, <1>3, <2>1, <2>2 DEF KeptInv
<1> QED BY <1>1, <1>4, <1>5 DEF CallPort

LEMMA InitKept == PortInit => KeptInv
BY DEF PortInit, KeptInv

(* The steps that are not those of another port. *)
LEMMA PortSteps ==
  ASSUME PortNext
  PROVE  /\ port' = port
         /\ port \in {"mongo", "kafka"} =>
              \/ \E op \in {"start", "stop"} : ClientCalls(op)
              \/ Hear \/ SystemChanges \/ AskStatus
              \/ StatusEnds \/ Heartbeat \/ Reconnect
              \/ SenderCloses
              \/ ConnectMongo \/ CreateCollections \/ CloseMongo
              \/ ConnectMonitor \/ ConnectKafka \/ DisconnectKafka
<1> USE DEF systemVars
<1>1. CASE Answers
  <2> USE <1>1 DEF Answers
  <2>1. CASE ConnectRedis \/ QuitRedis \/ ConnectMqtt \/ EndMqtt
    BY <2>1 DEF ConnectRedis, QuitRedis,
                ConnectMqtt, EndMqtt
  <2>2. CASE ConnectAmqp \/ CreateSender \/ CloseAmqp
    BY <2>2 DEF ConnectAmqp, CreateSender,
                CloseAmqp
  <2>3. CASE ConnectSocket \/ CloseSocket
    BY <2>3 DEF ConnectSocket, CloseSocket
  <2>4. CASE ConnectMongo \/ CreateCollections \/ CloseMongo
    BY <2>4 DEF ConnectMongo, CreateCollections, CloseMongo
  <2>5. CASE ConnectMonitor \/ ConnectKafka \/ DisconnectKafka
    BY <2>5 DEF ConnectMonitor, ConnectKafka, DisconnectKafka
  <2> QED BY <2>1, <2>2, <2>3, <2>4, <2>5
<1>2. CASE CheckConnection \/ Lose \/ RetryFails \/ GiveUp
  BY <1>2 DEF CheckConnection, Lose, RetryFails, GiveUp
<1>3. CASE ServerDisconnects \/ LoseAmqp \/ ReconnectAmqp
             \/ SenderDetached
  BY <1>3 DEF ServerDisconnects, LoseAmqp, ReconnectAmqp,
              SenderDetached
<1>4. CASE \/ \E op \in {"start", "stop"} : ClientCalls(op)
           \/ Hear \/ SystemChanges
  BY <1>4 DEF ClientCalls, Hear, SystemChanges
<1>5. CASE AskStatus \/ StatusEnds \/ Heartbeat
             \/ Reconnect \/ SenderCloses
  BY <1>5 DEF AskStatus, StatusEnds, Heartbeat, Reconnect,
              SenderCloses
<1> QED BY <1>1, <1>2, <1>3, <1>4, <1>5 DEF PortNext

LEMMA NextKept == KeptInv /\ [PortNext]_allVars => KeptInv'
<1> SUFFICES ASSUME KeptInv, PortNext, port \in {"mongo", "kafka"} PROVE KeptInv'
  <2>1. CASE UNCHANGED allVars
    BY <2>1 DEF KeptInv, allVars, systemVars, connection,
                checking, portVars, managerVars
  <2>2. CASE PortNext /\ port \notin {"mongo", "kafka"}
    BY <2>2, PortSteps DEF KeptInv
  <2> QED BY <2>1, <2>2
<1> USE DEF systemVars, connection, checking, portVars,
            managerVars
<1>1. port' = port /\ port # "redis" /\ port # "mqtt" /\ port # "amqp" /\ port # "socket"
  BY PortSteps
<1>2. ASSUME NEW op \in {"start", "stop"}, ClientCalls(op) PROVE KeptInv'
  <2>1. stateKind = "stopped" => op = "start"
    BY <1>2 DEF ClientCalls, StateAfter
  <2> QED BY <1>2, <2>1, CallPortKept DEF ClientCalls, Silent
<1>3. CASE Hear
  <2>1. /\ said # "none" /\ said' = "none" /\ wants' = wants /\ system' = system
    BY <1>3 DEF Hear, Says
  <2>2. CASE /\ said \in listens /\ stateKind # "error" /\ Become("error")
             /\ UNCHANGED <<portVars, call>>
    BY <1>1, <2>1, <2>2 DEF KeptInv, Become
  <2>3. CASE /\ said \in listens /\ stateKind = "error" /\ call = "none"
             /\ CallPort(IF said = "healthy" THEN "start" ELSE "stop")
    BY <1>1, <2>1, <2>3, CallPortKept
  <2>4. CASE UNCHANGED <<portVars, stateKind, listens, call>>
    BY <1>1, <2>1, <2>4 DEF KeptInv
  <2>5. said \in listens => call = "none"
    BY DEF KeptInv
  <2> QED BY <1>3, <2>2, <2>3, <2>4, <2>5 DEF Hear
<1>4. CASE SystemChanges
  BY <1>1, <1>4 DEF KeptInv, SystemChanges
<1>5. CASE AskStatus
  BY <1>1, <1>5 DEF KeptInv, AskStatus
<1>6. CASE StatusEnds
  <2>1. port = "kafka"
    BY <1>6 DEF StatusEnds, KeptInv
  <2>2. listeners = 0 => said' = said \/ said' = "none"
    BY <1>6, <2>1 DEF StatusEnds, EvaluateKafka, Tells, PassOn
  <2>3. /\ UNCHANGED <<listeners, started, stateKind, listens, wants>>
        /\ call' = call \/ (call = "check" /\ call' = "start")
    BY <1>6 DEF StatusEnds
  <2> QED BY <1>1, <2>1, <2>2, <2>3 DEF KeptInv
<1>7. CASE Heartbeat
  BY <1>1, <1>7 DEF KeptInv, Heartbeat
<1>8. CASE Reconnect \/ SenderCloses
  <2>1. /\ UNCHANGED <<listeners, started, stateKind, listens, call, wants, checks>>
        /\ listeners = 0 => said' = "none"
    BY <1>1, <1>8 DEF Reconnect, SenderCloses, PassOn
  <2> QED BY <1>1, <2>1 DEF KeptInv
<1>9. CASE ConnectMongo
  <2>1. CASE Settle("start", FALSE) /\ UNCHANGED <<listeners, started, said>>
    BY <1>1, <1>9, <2>1, SettleFacts DEF KeptInv, ConnectMongo
  <2> QED BY <1>1, <1>9, <2>1 DEF KeptInv, ConnectMongo
<1>10. CASE CreateCollections
  <2>1. PICK ok \in BOOLEAN : Settle("start", ok)
    BY <1>10 DEF CreateCollections
  <2> QED BY <1>1, <1>10, <2>1, SettleFacts DEF KeptInv, CreateCollections
<1>11. CASE CloseMongo
  <2>1. call = "stop" /\ stateKind # "stopped" /\ said' = "none" /\ checks' = checks
    BY <1>11 DEF CloseMongo, Silent, KeptInv
  <2>2. CASE Settle("stop", FALSE) /\ UNCHANGED <<listeners, started>>
    <3>1. call' = "none" /\ stateKind' # "stopped"
      BY <2>1, <2>2, SettleFacts
    <3> QED BY <1>1, <2>1, <2>2, <3>1 DEF KeptInv
  <2>3. CASE Settle("stop", TRUE) /\ listeners' = 0 /\ ~started'
    <3>1. call' = "none"
      BY <2>1, <2>3, SettleFacts
    <3> QED BY <1>1, <2>1, <2>3, <3>1 DEF KeptInv
  <2> QED BY <1>11, <2>2, <2>3 DEF CloseMongo
<1>12. CASE ConnectMonitor
  <2>1. CASE Settle("start", FALSE)
    BY <1>1, <1>12, <2>1, SettleFacts DEF KeptInv, ConnectMonitor
  <2>2. CASE call' \in {call, "check"} /\ UNCHANGED <<stateKind, listens, wants>>
    BY <1>1, <1>12, <2>2 DEF KeptInv, ConnectMonitor
  <2> QED BY <1>12, <2>1, <2>2 DEF ConnectMonitor
<1>13. CASE ConnectKafka
  <2>1. PICK ok \in BOOLEAN : Settle("start", ok) /\ (ok => started' /\ listeners' = 1)
                              /\ (~ok => UNCHANGED <<started, listeners>>)
    BY <1>13 DEF ConnectKafka
  <2> QED BY <1>1, <1>13, <2>1, SettleFacts DEF KeptInv, ConnectKafka
<1>14. CASE DisconnectKafka
  <2>1. PICK ok \in BOOLEAN : Settle("stop", ok)
    BY <1>14 DEF DisconnectKafka
  <2> QED BY <1>1, <1>14, <2>1, SettleFacts DEF KeptInv, DisconnectKafka, Silent
<1> QED BY <1>1, <1>2, <1>3, <1>4, <1>5, <1>6, <1>7, <1>8, <1>9, <1>10, <1>11, <1>12, <1>13,
           <1>14, PortSteps

(* A step that leaves the state stopped is the call of the client, or the  *)
(* answer to it: nobody says anything else to a state that listens.        *)
LEMMA StepKeepsStop ==
  ASSUME KeptInv, PortNext, port \in {"mongo", "kafka"}
  PROVE  StopIsKept
<1> SUFFICES ASSUME stateKind = "stopped", stateKind' # "stopped"
             PROVE  wants' = "start"
  BY DEF StopIsKept
<1>1. /\ call = "none" => said = "none"
      /\ call # "none" => listens = {} /\ wants = "start"
      /\ call # "stop"
  BY DEF KeptInv
<1>2. ASSUME NEW op \in {"start", "stop"}, ClientCalls(op) PROVE wants' = "start"
  BY <1>2 DEF ClientCalls, StateAfter
<1>3. CASE Hear
  BY <1>1, <1>3 DEF Hear, Says
<1>4. ASSUME SystemChanges \/ AskStatus \/ StatusEnds \/ Heartbeat \/ Reconnect \/ SenderCloses
      PROVE  stateKind' = stateKind
  BY <1>4 DEF SystemChanges, AskStatus, StatusEnds, Heartbeat, Reconnect, SenderCloses,
              managerVars
<1>5. CASE ConnectMongo \/ CreateCollections
  BY <1>1, <1>5 DEF ConnectMongo, CreateCollections, Settle
<1>6. CASE ConnectMonitor \/ ConnectKafka
  BY <1>1, <1>6 DEF ConnectMonitor, ConnectKafka, Settle
<1>7. ~CloseMongo /\ ~DisconnectKafka
  BY <1>1 DEF CloseMongo, DisconnectKafka
<1> QED BY <1>2, <1>3, <1>4, <1>5, <1>6, <1>7, PortSteps

(* A provider of mongo or kafka that the client stopped stays stopped      *)
(* until the client calls, whatever the port says meanwhile, for any       *)
(* number of requests under way.                                           *)
THEOREM StaysStoppedAlways == PortSpec => StaysStopped
<1>1. KeptInv /\ [PortNext]_allVars =>
        [(port \in {"mongo", "kafka"}) => StopIsKept]_allVars
  <2>1. CASE PortNext
    BY <2>1, StepKeepsStop
  <2>2. CASE UNCHANGED allVars
    BY <2>2
  <2> QED BY <2>1, <2>2
<1> QED BY <1>1, InitKept, NextKept, PTL DEF PortSpec, StaysStopped
-----------------------------------------------------------------------------
(***************************************************************************)
(* What a port has attached and armed, compared with the state of its      *)
(* manager.  For each port: what its flag stands for, in which states a    *)
(* call can be awaited, and what is there when a call has ended.           *)
(***************************************************************************)
ElasticHolds ==
  /\ call = "none"
  /\ stateKind = "running" => timer
  /\ stateKind = "stopped" => ~timer

MongoHolds ==
  /\ ~timer /\ link = (IF started THEN "open" ELSE "closed")
  /\ listeners = (IF started THEN 1 ELSE 0)
  /\ call = "none" /\ stateKind = "running" => started
  /\ call = "none" /\ stateKind = "stopped" => ~started
  /\ call = "start" => stateKind # "running"
  /\ call = "stop" => stateKind # "stopped"

MqttHolds ==
  /\ listeners \in Nat
  /\ link # "closed" => timer /\ listeners > 0
  /\ started => link # "closed"
  /\ call = "none" /\ stateKind = "running" => link # "closed"
  /\ call = "start" => ~started /\ stateKind # "running"

(* A port that disconnects does not listen any more; if it fails to, its   *)
(* flag stays, and its monitor may be connected without a timer.           *)
KafkaHolds ==
  /\ listeners \in {0, 1} /\ (listeners > 0 => started /\ timer /\ link = "open")
  /\ link # "lost" /\ (link = "open" /\ ~started => timer)
  /\ call = "stop" => started /\ listeners = 0 /\ stateKind # "stopped"
  /\ call \in {"start", "check"} => ~started
  /\ stateKind = "stopped" => ~started

RedisHolds ==
  /\ listeners \in {0, 1} /\ (listeners > 0 \/ timer => started)
  /\ call = "stop" => listeners = 0
  /\ call = "start" => ~started
  /\ stateKind = "stopped" /\ call = "none" => listeners = 0 /\ ~timer

HoldsInv ==
  /\ call \in {"none", "start", "check", "sender", "stop"}
  /\ call = "check" => port = "kafka"
  /\ listens # {} => call = "none"
  /\ port = "elastic" => ElasticHolds
  /\ port = "mongo" => MongoHolds
  /\ port = "mqtt" => MqttHolds
  /\ port = "kafka" => KafkaHolds
  /\ port = "redis" => RedisHolds

heldVars == <<port, link, started, listeners, timer, stateKind, listens, call>>

LEMMA InitHolds == PortInit => HoldsInv
BY DEF PortInit, HoldsInv, ElasticHolds, MongoHolds, MqttHolds, KafkaHolds, RedisHolds

LEMMA HeldKept == HoldsInv /\ UNCHANGED heldVars => HoldsInv'
BY DEF heldVars, HoldsInv, ElasticHolds, MongoHolds, MqttHolds, KafkaHolds, RedisHolds

(* start() or stop() of a port, up to its first await. *)
LEMMA CallHolds ==
  ASSUME HoldsInv, NEW op \in {"start", "stop"}, CallPort(op), call = "none",
         stateKind # StateAfter(op), port' = port
  PROVE  HoldsInv'
<1>1. CASE port = "elastic"
  <2>1. /\ call' = "none" /\ stateKind' = StateAfter(op)
        /\ op = "start" => timer' = TRUE
        /\ op = "stop" => timer' = FALSE
    BY <1>1 DEF CallPort, StartElastic, StopElastic, Resolve, Become
  <2> QED BY <1>1, <2>1 DEF HoldsInv, ElasticHolds, StateAfter
<1>2. CASE port # "elastic"
  <2> DEFINE Resolves == NothingToDo(op) /\ call' = "none" /\ stateKind' = StateAfter(op)
             Awaits == Acts(op) /\ call' = op /\ stateKind' = stateKind /\ listens' = {}
  <2>1. /\ UNCHANGED <<link, started, timer>> /\ Unwraps(op)
        /\ Resolves \/ Awaits
    BY <1>2 DEF CallPort, checking, Resolve, Become, AwaitPort
  <2> HIDE DEF Resolves, Awaits
  <2>2. call' \in {"none", op} /\ (listens' # {} => call' = "none")
    BY <2>1 DEF Resolves, Awaits
  <2>3. CASE port = "mongo"
    <3>1. listeners' = listeners
      BY <2>1, <2>3 DEF Unwraps
    <3>2. Resolves => (op = "start" <=> started)
      BY <2>3 DEF Resolves, NothingToDo
    <3>3. CASE Resolves
      BY <1>2, <2>1, <2>2, <2>3, <3>1, <3>2, <3>3 DEF Resolves, HoldsInv, MongoHolds, StateAfter
    <3>4. CASE Awaits
      BY <1>2, <2>1, <2>2, <2>3, <3>1, <3>4 DEF Awaits, HoldsInv, MongoHolds, StateAfter
    <3> QED BY <2>1, <3>3, <3>4
  <2>4. CASE port = "mqtt"
    <3>1. listeners' = listeners
      BY <2>1, <2>4 DEF Unwraps
    <3>2. (Resolves => (op = "start" <=> started)) /\ (Awaits => (op = "stop" <=> started))
      BY <2>4 DEF Resolves, Awaits, Acts, NothingToDo
    <3>3. CASE Resolves
      BY <1>2, <2>1, <2>2, <2>4, <3>1, <3>2, <3>3 DEF Resolves, HoldsInv, MqttHolds, StateAfter
    <3>4. CASE Awaits
      BY <1>2, <2>1, <2>2, <2>4, <3>1, <3>2, <3>4 DEF Awaits, HoldsInv, MqttHolds, StateAfter
    <3> QED BY <2>1, <3>3, <3>4
  <2>5. CASE port = "kafka"
    <3>1. listeners' = IF op = "stop" /\ started THEN 0 ELSE listeners
      BY <2>1, <2>5 DEF Unwraps
    <3>2. (Resolves => (op = "start" <=> started)) /\ (Awaits => (op = "stop" <=> started))
      BY <2>5 DEF Resolves, Awaits, Acts, NothingToDo
    <3>3. CASE Resolves
      BY <1>2, <2>1, <2>2, <2>5, <3>1, <3>2, <3>3 DEF Resolves, HoldsInv, KafkaHolds, StateAfter
    <3>4. CASE Awaits
      BY <1>2, <2>1, <2>2, <2>5, <3>1, <3>2, <3>4 DEF Awaits, HoldsInv, KafkaHolds, StateAfter
    <3> QED BY <2>1, <3>3, <3>4
  <2>6. CASE port = "redis"
    <3>1. listeners' = IF op = "stop" /\ started THEN 0 ELSE listeners
      BY <2>1, <2>6 DEF Unwraps
    <3>2. (op = "stop" /\ Resolves => ~started) /\ (op = "start" /\ Awaits => ~started)
      BY <2>6 DEF Resolves, Awaits, Acts, NothingToDo
    <3>3. CASE Resolves
      BY <1>2, <2>1, <2>2, <2>6, <3>1, <3>2, <3>3 DEF Resolves, HoldsInv, RedisHolds, StateAfter
    <3>4. CASE Awaits
      BY <1>2, <2>1, <2>2, <2>6, <3>1, <3>2, <3>4 DEF Awaits, HoldsInv, RedisHolds, StateAfter
    <3> QED BY <2>1, <3>3, <3>4
  <2>7. CASE port \notin {"mongo", "mqtt", "kafka", "redis"}
    BY <1>2, <2>2, <2>7 DEF HoldsInv
  <2> QED BY <2>3, <2>4, <2>5, <2>6, <2>7
<1> QED BY <1>1, <1>2

(* The answer of a port. *)
LEMMA AnswerHolds == HoldsInv /\ Answers /\ port' = port => HoldsInv'
<1> SUFFICES ASSUME HoldsInv, Answers, port' = port PROVE HoldsInv'
  OBVIOUS
<1> USE DEF Settle, Become, StateAfter
<1>1. CASE ConnectMongo
  <2>1. CASE Settle("start", FALSE) /\ UNCHANGED connection
    BY <1>1, <2>1 DEF ConnectMongo, connection, checking, HoldsInv, MongoHolds
  <2>2. CASE /\ link' = "open" /\ started' = TRUE /\ listeners' = 1
             /\ UNCHANGED <<stateKind, listens, call, wants>>
    BY <1>1, <2>2 DEF ConnectMongo, checking, HoldsInv, MongoHolds
  <2> QED BY <1>1, <2>1, <2>2 DEF ConnectMongo
<1>2. CASE CreateCollections
  <2>1. PICK ok \in BOOLEAN : Settle("start", ok)
    BY <1>2 DEF CreateCollections
  <2> QED BY <1>2, <2>1
          DEF CreateCollections, connection, checking, HoldsInv, MongoHolds
<1>3. CASE CloseMongo
  <2>1. CASE Settle("stop", TRUE) /\ link' = "closed" /\ started' = FALSE /\ listeners' = 0
    BY <1>3, <2>1 DEF CloseMongo, checking, HoldsInv, MongoHolds
  <2>2. CASE Settle("stop", FALSE) /\ UNCHANGED connection
    BY <1>3, <2>2 DEF CloseMongo, connection, checking, HoldsInv, MongoHolds
  <2> QED BY <1>3, <2>1, <2>2 DEF CloseMongo
<1>4. CASE ConnectMqtt
  <2>1. CASE /\ Settle("start", TRUE) /\ link' = "open" /\ started' = TRUE
             /\ listeners' = listeners + 1 /\ timer' = TRUE
    <3>1. port = "mqtt" /\ call' = "none" /\ stateKind' = "running"
      BY <1>4, <2>1 DEF ConnectMqtt
    <3>2. listeners \in Nat
      BY <3>1 DEF HoldsInv, MqttHolds
    <3> QED BY <2>1, <3>1, <3>2 DEF HoldsInv, MqttHolds
  <2>2. CASE /\ Settle("start", FALSE) /\ link' = "closed"
             /\ UNCHANGED <<started, listeners, timer, stray>>
    <3>1. port = "mqtt" /\ call' = "none" /\ stateKind' = "error" /\ call = "start"
      BY <1>4, <2>2 DEF ConnectMqtt
    <3>2. ~started
      BY <1>4, <3>1 DEF HoldsInv, MqttHolds
    <3> QED BY <2>2, <3>1, <3>2 DEF HoldsInv, MqttHolds
  <2> QED BY <1>4, <2>1, <2>2 DEF ConnectMqtt
<1>5. CASE EndMqtt
  <2>1. /\ port = "mqtt" /\ call' = "none" /\ stateKind' = "stopped"
        /\ link' = "closed" /\ started' = FALSE /\ listeners' = Less(listeners)
    BY <1>5 DEF EndMqtt
  <2>2. listeners' \in Nat
    BY <2>1 DEF Less, HoldsInv, MqttHolds
  <2> QED BY <2>1, <2>2 DEF HoldsInv, MqttHolds
<1>6. CASE ConnectMonitor
  <2>1. CASE Settle("start", FALSE) /\ UNCHANGED <<link, timer, checks>>
    BY <1>6, <2>1 DEF ConnectMonitor, HoldsInv, KafkaHolds
  <2>2. CASE /\ link' = "open" /\ timer' = TRUE /\ call' \in {call, "check"}
             /\ UNCHANGED <<stateKind, listens, wants>>
    BY <1>6, <2>2 DEF ConnectMonitor, HoldsInv, KafkaHolds
  <2> QED BY <1>6, <2>1, <2>2 DEF ConnectMonitor
<1>7. CASE ConnectKafka
  <2>1. PICK ok \in BOOLEAN : /\ Settle("start", ok)
                              /\ ok => started' = TRUE /\ listeners' = 1
                              /\ ~ok => UNCHANGED <<started, listeners>>
    BY <1>7 DEF ConnectKafka
  <2> QED BY <1>7, <2>1 DEF ConnectKafka, checking, HoldsInv, KafkaHolds
<1>8. CASE DisconnectKafka
  <2>1. CASE Settle("stop", TRUE) /\ link' = "closed" /\ started' = FALSE
    <3>1. /\ port = "kafka" /\ call = "stop" /\ listeners' = listeners
          /\ call' = "none" /\ stateKind' = "stopped"
      BY <1>8, <2>1 DEF DisconnectKafka
    <3> QED BY <2>1, <3>1 DEF HoldsInv, KafkaHolds
  <2>2. CASE Settle("stop", FALSE) /\ link' \in {link, "closed"} /\ UNCHANGED started
    <3>1. /\ port = "kafka" /\ call = "stop" /\ listeners' = listeners
          /\ call' = "none" /\ stateKind' = "error"
      BY <1>8, <2>2 DEF DisconnectKafka
    <3> QED BY <2>2, <3>1 DEF HoldsInv, KafkaHolds
  <2> QED BY <1>8, <2>1, <2>2, Zenon DEF DisconnectKafka
<1>9. CASE ConnectRedis
  <2>1. PICK ok \in BOOLEAN : /\ Settle("start", ok)
                              /\ ok => started' = TRUE /\ listeners' = 1 /\ timer' = TRUE
                              /\ ~ok => UNCHANGED <<started, listeners, timer>>
    BY <1>9 DEF ConnectRedis
  <2> QED BY <1>9, <2>1 DEF ConnectRedis, HoldsInv, RedisHolds
<1>10. CASE QuitRedis
  <2>1. PICK ok \in BOOLEAN : Settle("stop", ok)
    BY <1>10 DEF QuitRedis
  <2> QED BY <1>10, <2>1 DEF QuitRedis, HoldsInv, RedisHolds
<1>11. CASE ConnectAmqp \/ CreateSender \/ CloseAmqp \/ ConnectSocket \/ CloseSocket
  <2>1. /\ port \in {"amqp", "socket"}
        /\ call' = "none" \/ (call # "none" /\ call' = "sender" /\ listens' = listens)
    BY <1>11 DEF ConnectAmqp, CreateSender, CloseAmqp, ConnectSocket, CloseSocket, Settle
  <2> QED BY <2>1 DEF HoldsInv
<1> QED BY <1>1, <1>2, <1>3, <1>4, <1>5, <1>6, <1>7, <1>8, <1>9, <1>10, <1>11 DEF Answers

LEMMA NextHolds == HoldsInv /\ [PortNext]_allVars => HoldsInv'
<1> SUFFICES ASSUME HoldsInv, [PortNext]_allVars PROVE HoldsInv'
  OBVIOUS
<1> USE DEF systemVars, connection, checking, portVars, managerVars
<1>1. CASE UNCHANGED allVars
  BY <1>1, HeldKept DEF allVars, heldVars
<1>2. ASSUME PortNext PROVE port' = port
  BY <1>2, PortSteps
<1>3. ASSUME PortNext, NEW op \in {"start", "stop"}, ClientCalls(op) PROVE HoldsInv'
  BY <1>2, <1>3, CallHolds DEF ClientCalls
<1>4. CASE PortNext /\ Hear
  <2>1. CASE said \in listens /\ Become("error") /\ UNCHANGED <<portVars, call>>
    <3>1. stateKind' = "error" /\ UNCHANGED <<port, link, started, listeners, timer, call>>
      BY <1>2, <1>4, <2>1 DEF Become
    <3>2. call = "none"
      BY <2>1 DEF HoldsInv
    <3> QED BY <3>1, <3>2 DEF HoldsInv, ElasticHolds, MongoHolds, MqttHolds, KafkaHolds, RedisHolds
  <2>2. CASE UNCHANGED <<portVars, stateKind, listens, call>>
    BY <1>2, <1>4, <2>2, HeldKept DEF heldVars
  <2>3. CASE /\ said \in listens /\ stateKind = "error"
             /\ CallPort(IF said = "healthy" THEN "start" ELSE "stop")
    <3>1. call = "none"
      BY <2>3 DEF HoldsInv
    <3> QED BY <1>2, <1>4, <2>3, <3>1, CallHolds DEF StateAfter
  <2> QED BY <1>4, <2>1, <2>2, <2>3 DEF Hear
<1>5. CASE PortNext /\ (SystemChanges \/ AskStatus \/ Heartbeat \/ CheckConnection \/ RetryFails)
  BY <1>2, <1>5, HeldKept
     DEF SystemChanges, AskStatus, Heartbeat, CheckConnection, RetryFails, heldVars
<1>6. CASE PortNext /\ StatusEnds
  <2>1. /\ UNCHANGED <<port, link, started, listeners, timer, stateKind, listens>>
        /\ call' = call \/ (call = "check" /\ call' = "start")
    BY <1>2, <1>6 DEF StatusEnds
  <2>2. CASE call' = call
    BY <2>1, <2>2, HeldKept DEF heldVars
  <2>3. CASE call = "check" /\ call' = "start"
    BY <2>1, <2>3 DEF HoldsInv, ElasticHolds, MongoHolds, MqttHolds, KafkaHolds, RedisHolds
  <2> QED BY <2>1, <2>2, <2>3
<1>7. CASE PortNext /\ (Lose \/ Reconnect \/ GiveUp)
  <2>1. UNCHANGED <<port, listeners, timer, stateKind, listens, call>>
    BY <1>2, <1>7 DEF Lose, Reconnect, GiveUp
  <2>2. CASE port = "mqtt"
    <3>1. link # "closed" /\ link' # "closed" /\ (call = "start" /\ ~started => ~started')
      BY <1>7, <2>2 DEF Lose, Reconnect, GiveUp
    <3> QED BY <2>1, <2>2, <3>1 DEF HoldsInv, MqttHolds
  <2>3. CASE port # "mqtt"
    <3>1. started' = started
      BY <1>7, <2>3 DEF Lose, Reconnect, GiveUp
    <3>2. port # "mongo" /\ port # "kafka"
      BY <1>7 DEF Lose, Reconnect, GiveUp, HoldsInv, MongoHolds, KafkaHolds
    <3> QED BY <2>1, <2>3, <3>1, <3>2 DEF HoldsInv, ElasticHolds, RedisHolds
  <2> QED BY <2>2, <2>3
<1>8. CASE PortNext /\ (ServerDisconnects \/ LoseAmqp \/ ReconnectAmqp \/ SenderDetached)
  <2>1. port \in {"amqp", "socket"} /\ UNCHANGED <<call, listens>>
    BY <1>8 DEF ServerDisconnects, LoseAmqp, ReconnectAmqp, SenderDetached
  <2> QED BY <1>2, <1>8, <2>1 DEF HoldsInv
<1>9. CASE PortNext /\ SenderCloses
  BY <1>2, <1>9, HeldKept DEF SenderCloses, heldVars
<1>10. CASE PortNext /\ Answers
  BY <1>2, <1>10, AnswerHolds
<1> QED BY <1>1, <1>3, <1>4, <1>5, <1>6, <1>7, <1>8, <1>9, <1>10 DEF PortNext

LEMMA AlwaysHolds == PortSpec => []HoldsInv
BY InitHolds, NextHolds, PTL DEF PortSpec

(* A provider that runs on elastic, mongo or mqtt, or on kafka while it    *)
(* listens, has a port that can notice a loss, and one that is stopped has *)
(* let go of its library and its timer as far as its port does that: for   *)
(* any number of checks under way and of starts that left something        *)
(* attached, and whatever call failed.                                     *)
THEOREM HoldsWhatItUsesAlways == PortSpec => []HoldsWhatItUses
<1>1. HoldsInv => RunningWatches
  BY DEF HoldsInv, ElasticHolds, MongoHolds, MqttHolds, KafkaHolds, RunningWatches, Watches
<1>2. HoldsInv => StoppedIsReleased
  BY DEF HoldsInv, ElasticHolds, MongoHolds, KafkaHolds, RedisHolds, StoppedIsReleased
<1>3. HoldsInv => HoldsWhatItUses
  BY <1>1, <1>2 DEF HoldsWhatItUses
<1> QED BY AlwaysHolds, <1>3, PTL
=============================================================================
