--------------------------- MODULE Scheduler_proofs -------------------------
(***************************************************************************)
(* What holds of a scheduler with any number of groups, of resources that  *)
(* they share, of tasks and of slots, and queues of any length.            *)
(***************************************************************************)
EXTENDS Scheduler, FiniteSetTheorems, SequenceTheorems, WellFoundedInduction, TLAPS

(***************************************************************************)
(* How many jobs of a sequence are among some tasks.                       *)
(***************************************************************************)
Where(seq, S) == {i \in DOMAIN seq : seq[i] \in S}
Num(seq, S) == Cardinality(Where(seq, S))

LEMMA NumType ==
  ASSUME NEW seq \in Seq(Tasks), NEW S
  PROVE  IsFiniteSet(Where(seq, S)) /\ Num(seq, S) \in Nat
<1>1. IsFiniteSet(1 .. Len(seq)) /\ DOMAIN seq = 1 .. Len(seq)
  BY FS_Interval
<1>2. Where(seq, S) \in SUBSET (1 .. Len(seq))
  BY <1>1 DEF Where
<1>3. IsFiniteSet(Where(seq, S))
  BY <1>1, <1>2, FS_Subset
<1> QED BY <1>3, FS_CardinalityType DEF Num

LEMMA NumZero ==
  ASSUME NEW seq \in Seq(Tasks), NEW S
  PROVE  Num(seq, S) = 0 <=> \A i \in DOMAIN seq : seq[i] \notin S
<1>1. Num(seq, S) = 0 <=> Where(seq, S) = {}
  BY NumType, FS_EmptySet DEF Num
<1> QED BY <1>1 DEF Where

LEMMA NumAll ==
  ASSUME NEW seq \in Seq(Tasks), NEW S, \A i \in DOMAIN seq : seq[i] \in S
  PROVE  Num(seq, S) = Len(seq)
<1>1. Where(seq, S) = 1 .. Len(seq) /\ Len(seq) \in Nat
  BY DEF Where
<1>2. Cardinality(1 .. Len(seq)) = Len(seq)
  <2>1. 1 \in Int /\ Len(seq) \in Int
    BY <1>1
  <2>2. Cardinality(1 .. Len(seq)) = IF 1 > Len(seq) THEN 0 ELSE Len(seq) - 1 + 1
    BY <2>1, FS_Interval
  <2> QED BY <1>1, <2>2
<1> QED BY <1>1, <1>2 DEF Num

LEMMA NumEmpty ==
  ASSUME NEW S
  PROVE  Num(<<>>, S) = 0
BY FS_EmptySet DEF Num, Where

LEMMA NumOne ==
  ASSUME NEW task \in Tasks, NEW S
  PROVE  Num(<<task>>, S) = IF task \in S THEN 1 ELSE 0
<1>1. DOMAIN <<task>> = {1} /\ <<task>>[1] = task
  OBVIOUS
<1>2. Where(<<task>>, S) = IF task \in S THEN {1} ELSE {}
  BY <1>1 DEF Where
<1> QED BY <1>2, FS_Singleton, FS_EmptySet DEF Num

LEMMA NumConcat ==
  ASSUME NEW a \in Seq(Tasks), NEW b \in Seq(Tasks), NEW S
  PROVE  Num(a \o b, S) = Num(a, S) + Num(b, S)
<1> DEFINE n == Len(a)
           shifted == {i + n : i \in Where(b, S)}
<1>1. /\ n \in Nat /\ DOMAIN a = 1 .. n /\ DOMAIN b = 1 .. Len(b) /\ Len(b) \in Nat
      /\ a \o b \in Seq(Tasks) /\ DOMAIN (a \o b) = 1 .. n + Len(b)
      /\ \A i \in 1 .. n : (a \o b)[i] = a[i]
      /\ \A i \in 1 .. Len(b) : (a \o b)[n + i] = b[i]
  OBVIOUS
<1> HIDE DEF n
<1>2. Where(a, S) \subseteq 1 .. n /\ Where(b, S) \subseteq 1 .. Len(b)
  BY <1>1 DEF Where
<1>3. Where(a \o b, S) = Where(a, S) \union shifted
  <2>1. ASSUME NEW i \in Where(a \o b, S) PROVE i \in Where(a, S) \union shifted
    <3>1. i \in 1 .. n + Len(b) /\ (a \o b)[i] \in S
      BY <1>1, <2>1 DEF Where
    <3>2. CASE i <= n
      BY <1>1, <3>1, <3>2 DEF Where
    <3>3. CASE i > n
      <4>1. i - n \in 1 .. Len(b) /\ i = (i - n) + n /\ i = n + (i - n)
        BY <1>1, <3>1, <3>3
      <4>2. i - n \in Where(b, S)
        BY <1>1, <3>1, <4>1 DEF Where
      <4> QED BY <4>1, <4>2
    <3> QED BY <1>1, <3>1, <3>2, <3>3
  <2>2. ASSUME NEW i \in Where(a, S) PROVE i \in Where(a \o b, S)
    BY <1>1, <1>2 DEF Where
  <2>3. ASSUME NEW i \in Where(b, S) PROVE i + n \in Where(a \o b, S)
    <3>1. i \in 1 .. Len(b) /\ b[i] \in S
      BY <1>1 DEF Where
    <3>2. i + n \in 1 .. n + Len(b) /\ i + n = n + i
      BY <1>1, <3>1
    <3> QED BY <1>1, <3>1, <3>2 DEF Where
  <2> QED BY <2>1, <2>2, <2>3
<1>4. IsFiniteSet(shifted) /\ Cardinality(shifted) = Cardinality(Where(b, S))
  <2> DEFINE f == [i \in Where(b, S) |-> i + n]
  <2>1. f \in Bijection(Where(b, S), shifted)
    BY <1>1, <1>2 DEF Bijection, Injection, Surjection, IsInjective
  <2>2. ExistsBijection(Where(b, S), shifted)
    BY <2>1 DEF ExistsBijection
  <2> HIDE DEF shifted
  <2> QED BY <2>2, NumType, FS_Bijection
<1>5. Where(a, S) \intersect shifted = {}
  BY <1>1, <1>2
<1> HIDE DEF shifted
<1>6. IsFiniteSet(Where(a, S)) /\ Num(a, S) \in Nat /\ Num(b, S) \in Nat
  BY NumType
<1>7. Cardinality(Where(a, S) \union shifted)
        = Cardinality(Where(a, S)) + Cardinality(shifted) - Cardinality(Where(a, S) \intersect shifted)
  BY <1>4, <1>6, FS_Union
<1>8. Cardinality(Where(a, S) \intersect shifted) = 0
  BY <1>5, FS_EmptySet
<1> QED BY <1>3, <1>4, <1>6, <1>7, <1>8 DEF Num

LEMMA NumAppend ==
  ASSUME NEW seq \in Seq(Tasks), NEW task \in Tasks, NEW S
  PROVE  Num(Append(seq, task), S) = Num(seq, S) + (IF task \in S THEN 1 ELSE 0)
<1> DEFINE one == <<task>>
<1>1. Append(seq, task) = seq \o one /\ one \in Seq(Tasks)
  OBVIOUS
<1>2. Num(one, S) = IF task \in S THEN 1 ELSE 0
  BY NumOne
<1> HIDE DEF one
<1>3. Num(seq \o one, S) = Num(seq, S) + Num(one, S)
  BY <1>1, NumConcat
<1> QED BY <1>1, <1>2, <1>3

LEMMA NumSplit ==
  ASSUME NEW seq \in Seq(Tasks), NEW n \in 0 .. Len(seq), NEW S
  PROVE  /\ SubSeq(seq, 1, n) \in Seq(Tasks) /\ SubSeq(seq, n + 1, Len(seq)) \in Seq(Tasks)
         /\ Num(seq, S) = Num(SubSeq(seq, 1, n), S) + Num(SubSeq(seq, n + 1, Len(seq)), S)
<1> DEFINE a == SubSeq(seq, 1, n)
           b == SubSeq(seq, n + 1, Len(seq))
<1>1. /\ Len(seq) \in Nat
      /\ a \in Seq(Tasks) /\ Len(a) = n /\ \A i \in 1 .. n : a[i] = seq[i]
      /\ b \in Seq(Tasks) /\ Len(b) = Len(seq) - n /\ \A i \in 1 .. Len(seq) - n : b[i] = seq[n + i]
  OBVIOUS
<1> HIDE DEF a, b
<1>2. seq = a \o b
  <2>1. a \o b \in Seq(Tasks) /\ Len(a \o b) = Len(seq)
    BY <1>1
  <2>2. ASSUME NEW i \in 1 .. Len(seq) PROVE (a \o b)[i] = seq[i]
    <3>1. CASE i <= n
      BY <1>1, <3>1
    <3>2. CASE i > n
      <4>1. i - n \in 1 .. Len(seq) - n /\ n + (i - n) = i
        BY <1>1, <3>2
      <4>2. (a \o b)[i] = b[i - n]
        BY <1>1, <3>2
      <4> QED BY <1>1, <4>1, <4>2
    <3> QED BY <1>1, <3>1, <3>2
  <2> QED BY <2>1, <2>2, SeqEqual
<1>3. Num(seq, S) = Num(a, S) + Num(b, S)
  BY <1>1, <1>2, NumConcat
<1> QED BY <1>1, <1>3 DEF a, b

LEMMA NumTail ==
  ASSUME NEW seq \in Seq(Tasks), seq # <<>>, NEW S
  PROVE  /\ Tail(seq) \in Seq(Tasks) /\ Head(seq) \in Tasks
         /\ Num(seq, S) = Num(Tail(seq), S) + (IF Head(seq) \in S THEN 1 ELSE 0)
<1>1. /\ Tail(seq) \in Seq(Tasks) /\ Head(seq) \in Tasks /\ <<Head(seq)>> \in Seq(Tasks)
      /\ seq = <<Head(seq)>> \o Tail(seq)
  OBVIOUS
<1> DEFINE one == <<Head(seq)>>
           rest == Tail(seq)
<1>2. Num(one, S) = (IF Head(seq) \in S THEN 1 ELSE 0) /\ Num(rest, S) \in Nat
  BY <1>1, NumOne, NumType
<1>3. one \in Seq(Tasks) /\ rest \in Seq(Tasks) /\ seq = one \o rest
  BY <1>1
<1> HIDE DEF one, rest
<1>4. Num(one \o rest, S) = Num(one, S) + Num(rest, S)
  BY <1>3, NumConcat
<1>5. Num(seq, S) = Num(rest, S) + (IF Head(seq) \in S THEN 1 ELSE 0)
  BY <1>2, <1>3, <1>4
<1> QED BY <1>1, <1>5 DEF rest
-----------------------------------------------------------------------------
(***************************************************************************)
(* The scans are folds.  What a fold over a sequence goes through is a     *)
(* trace: it begins with the first value, and every element takes it one   *)
(* step further.                                                           *)
(***************************************************************************)
LEMMA NatSetInduction ==
  ASSUME NEW S, 0 \in S, \A n \in Nat : n \in S => n + 1 \in S
  PROVE  Nat \subseteq S
<1> DEFINE R == OpToRel(<, Nat)
           T == Nat \ S
<1> SUFFICES ASSUME T # {} PROVE FALSE
  OBVIOUS
<1>1. IsWellFoundedOn(R, Nat)
  BY NatLessThanWellFounded
<1>2. \E x \in T : \A y \in T : ~(<<y, x>> \in R)
  <2>1. T \subseteq Nat
    OBVIOUS
  <2> HIDE DEF R, T
  <2> QED BY <1>1, <2>1, WFMin
<1>3. PICK x \in T : \A y \in T : ~(<<y, x>> \in R)
  BY <1>2
<1>4. x \in Nat /\ x # 0 /\ x - 1 \in Nat
  OBVIOUS
<1>5. x - 1 \in T
  BY <1>4
<1>6. <<x - 1, x>> \in R
  BY <1>4 DEF OpToRel
<1> QED BY <1>3, <1>5, <1>6

(* Induction along a trace of n steps. *)
LEMMA TraceInduction ==
  ASSUME NEW n \in Nat, NEW S, 0 \in S, \A i \in 1 .. n : i - 1 \in S => i \in S
  PROVE  0 .. n \subseteq S
<1> DEFINE T == {i \in Nat : i <= n => i \in S}
<1>1. 0 \in T
  OBVIOUS
<1>2. ASSUME NEW i \in Nat, i \in T PROVE i + 1 \in T
  <2> SUFFICES ASSUME i + 1 <= n PROVE i + 1 \in S
    OBVIOUS
  <2>1. i \in S /\ i + 1 \in 1 .. n /\ (i + 1) - 1 = i
    BY <1>2
  <2> QED BY <2>1
<1>3. Nat \subseteq T
  <2> HIDE DEF T
  <2> QED BY <1>1, <1>2, NatSetInduction
<1> QED BY <1>3

LEMMA MaxFacts ==
  ASSUME NEW n \in Nat, NEW s \in SUBSET (1 .. n), s # {}
  PROVE  Max(s) \in s /\ \A y \in s : Max(s) >= y
<1>1. \E x \in s : \A y \in s : x >= y
  <2> DEFINE C == {n - y : y \in s}
             R == OpToRel(<, Nat)
  <2>1. C \subseteq Nat /\ C # {}
    <3>1. \A y \in s : n - y \in Nat
      OBVIOUS
    <3>2. PICK y \in s : TRUE
      OBVIOUS
    <3> QED BY <3>1, <3>2
  <2>2. IsWellFoundedOn(R, Nat)
    BY NatLessThanWellFounded
  <2>3. \E x \in C : \A y \in C : ~(<<y, x>> \in R)
    <3> HIDE DEF R, C
    <3> QED BY <2>1, <2>2, WFMin
  <2>4. PICK x \in C : \A y \in C : ~(<<y, x>> \in R)
    BY <2>3
  <2>5. \A i, k \in Nat : i < k => <<i, k>> \in R
    BY DEF OpToRel
  <2>6. ASSUME NEW y \in C PROVE y >= x
    <3>1. x \in Nat /\ y \in Nat
      BY <2>1
    <3>2. ~(<<y, x>> \in R)
      BY <2>4
    <3> HIDE DEF R, C
    <3> QED BY <2>5, <3>1, <3>2
  <2>7. PICK z \in s : x = n - z
    BY <2>4
  <2>8. ASSUME NEW y \in s PROVE z >= y
    <3>1. n - y \in C
      OBVIOUS
    <3>2. n - y >= n - z
      BY <2>6, <2>7, <3>1
    <3> QED BY <3>2
  <2> QED BY <2>8
<1> QED BY <1>1 DEF Max

LEMMA MaxOfPrefix ==
  ASSUME NEW n \in Nat
  PROVE  /\ Max(1 .. n + 1) = n + 1 /\ (1 .. n + 1) \ {n + 1} = 1 .. n
         /\ 1 .. n + 1 # {}
<1>1. n + 1 \in 1 .. n + 1 /\ n + 1 \in Nat
  OBVIOUS
<1>2. Max(1 .. n + 1) \in 1 .. n + 1 /\ Max(1 .. n + 1) >= n + 1
  BY <1>1, MaxFacts
<1>3. \A i : i \in (1 .. n + 1) \ {n + 1} <=> i \in 1 .. n
  OBVIOUS
<1> QED BY <1>1, <1>2, <1>3

(* The function that a fold of F over the numbers to n is defined by. *)
Folding(n, X, p, F, f) ==
  /\ f \in [SUBSET (1 .. n) -> X]
  /\ \A s \in SUBSET (1 .. n) :
       f[s] = IF s = {} THEN p ELSE F[Max(s)][f[s \ {Max(s)}]]

LEMMA FoldExists ==
  ASSUME NEW n \in Nat, NEW X, NEW p \in X, NEW F \in [1 .. n -> [X -> X]]
  PROVE  \E f : Folding(n, X, p, F, f)
<1> DEFINE Folds(k, f) == Folding(k, X, p, F, f)
           S == {k \in Nat : \E f : Folds(k, f)}
<1>1. 0 \in S
  <2> DEFINE f == [s \in SUBSET (1 .. 0) |-> p]
  <2>1. \A s \in SUBSET (1 .. 0) : s = {}
    OBVIOUS
  <2>2. Folds(0, f)
    BY <2>1 DEF Folding
  <2> QED BY <2>2
<1>2. ASSUME NEW k \in 1 .. n, k - 1 \in S PROVE k \in S
  <2>1. PICK f : Folds(k - 1, f)
    BY <1>2
  <2>2. /\ f \in [SUBSET (1 .. k - 1) -> X]
        /\ \A s \in SUBSET (1 .. k - 1) :
             f[s] = IF s = {} THEN p ELSE F[Max(s)][f[s \ {Max(s)}]]
    BY <2>1 DEF Folding
  <2> DEFINE g == [s \in SUBSET (1 .. k) |-> IF k \notin s THEN f[s] ELSE F[k][f[s \ {k}]]]
  <2>3. ASSUME NEW s \in SUBSET (1 .. k), k \notin s PROVE s \in SUBSET (1 .. k - 1)
    BY <2>3
  <2>4. ASSUME NEW s \in SUBSET (1 .. k) PROVE g[s] \in X
    <3>1. CASE k \notin s
      BY <2>2, <2>3, <3>1
    <3>2. CASE k \in s
      <4>1. s \ {k} \in SUBSET (1 .. k - 1)
        BY <2>3
      <4>2. f[s \ {k}] \in X /\ F[k] \in [X -> X]
        BY <2>2, <4>1
      <4> QED BY <3>2, <4>2
    <3> QED BY <3>1, <3>2
  <2>5. ASSUME NEW s \in SUBSET (1 .. k)
        PROVE  g[s] = IF s = {} THEN p ELSE F[Max(s)][g[s \ {Max(s)}]]
    <3>1. CASE s = {}
      BY <2>2, <2>3, <3>1
    <3>2. CASE s # {} /\ k \notin s
      <4>1. s \in SUBSET (1 .. k - 1) /\ k - 1 \in Nat
        BY <2>3, <3>2
      <4>2. Max(s) \in s
        BY <3>2, <4>1, MaxFacts
      <4>3. s \ {Max(s)} \in SUBSET (1 .. k) /\ k \notin s \ {Max(s)}
        BY <3>2
      <4>4. g[s] = f[s] /\ g[s \ {Max(s)}] = f[s \ {Max(s)}]
        BY <3>2, <4>3
      <4>5. f[s] = F[Max(s)][f[s \ {Max(s)}]]
        BY <2>2, <3>2, <4>1
      <4> QED BY <3>2, <4>4, <4>5
    <3>3. CASE k \in s
      <4>1. Max(s) = k
        <5>1. k \in Nat /\ s \in SUBSET (1 .. k) /\ s # {}
          BY <3>3
        <5>2. Max(s) \in s /\ Max(s) >= k
          BY <3>3, <5>1, MaxFacts
        <5>3. Max(s) \in 1 .. k
          BY <5>1, <5>2
        <5> QED BY <5>1, <5>2, <5>3
      <4>2. s \ {k} \in SUBSET (1 .. k) /\ k \notin s \ {k}
        OBVIOUS
      <4>3. g[s \ {k}] = f[s \ {k}]
        BY <4>2
      <4>4. g[s] = F[k][f[s \ {k}]]
        BY <3>3
      <4> QED BY <3>3, <4>1, <4>3, <4>4
    <3> QED BY <3>1, <3>2, <3>3
  <2>6. g \in [SUBSET (1 .. k) -> X]
    BY <2>4
  <2> HIDE DEF g
  <2>7. Folds(k, g)
    BY <2>5, <2>6 DEF Folding
  <2> HIDE DEF Folds
  <2>8. k \in Nat
    OBVIOUS
  <2> QED BY <2>7, <2>8
<1>3. n \in S
  <2> HIDE DEF S
  <2>1. 0 .. n \subseteq S
    BY <1>1, <1>2, TraceInduction
  <2> QED BY <2>1
<1> QED BY <1>3
-----------------------------------------------------------------------------
(***************************************************************************)
(* What the functions of the polling groups change.                        *)
(***************************************************************************)
PollingStates ==
  [attached : SUBSET Groups, scanTimer : SUBSET Groups, orphans : [Groups -> Nat],
   pending : [Groups -> SUBSET Tasks], slow : SUBSET Tasks, queue : [Resources -> Seq(Tasks)],
   disturbed : SUBSET Groups, taken : [Resources -> Int], looks : [Resources -> Nat],
   mainQueue : Seq(Tasks), mainAwaited : Seq(BOOLEAN)]

LEMMA TaskFacts ==
  ASSUME NEW task \in Tasks
  PROVE  /\ GroupOf(task) \in Groups /\ task \in ToSet(Entries[GroupOf(task)])
         /\ Home(task) = ResourceOf[GroupOf(task)] /\ Home(task) \in Resources
<1>1. \E g \in Groups : task \in ToSet(Entries[g])
  BY SchedulerAssumption
<1>2. GroupOf(task) \in Groups /\ task \in ToSet(Entries[GroupOf(task)])
  BY <1>1 DEF GroupOf
<1> QED BY <1>2 DEF Home, Resources

LEMMA EntryFacts ==
  ASSUME NEW g \in Groups, NEW task \in ToSet(Entries[g])
  PROVE  task \in Tasks /\ GroupOf(task) = g /\ Home(task) = ResourceOf[g]
<1>1. Entries[g] \in Seq(Tasks)
  BY SchedulerAssumption
<1>2. task \in Tasks
  BY <1>1 DEF ToSet
<1>3. GroupOf(task) \in Groups /\ task \in ToSet(Entries[GroupOf(task)])
  BY <1>2, TaskFacts
<1>4. GroupOf(task) = g
  BY <1>3, SchedulerAssumption
<1> QED BY <1>2, <1>4 DEF Home

(* Nothing but the fields that are named. *)
SameQueues(p, q) ==
  /\ q.queue = p.queue /\ q.taken = p.taken /\ q.looks = p.looks
  /\ q.mainQueue = p.mainQueue /\ q.mainAwaited = p.mainAwaited

EndCycleFacts(p, g, q) ==
  /\ q \in PollingStates
  /\ SameQueues(p, q) /\ q.attached = p.attached /\ q.disturbed = p.disturbed
  /\ q.pending = p.pending /\ q.slow = p.slow
  /\ q.scanTimer = IF g \in p.attached THEN p.scanTimer \union {g} ELSE p.scanTimer
  /\ \A h \in Groups : h # g \/ h \notin p.scanTimer => q.orphans[h] = p.orphans[h]
  /\ \A h \in Groups : q.orphans[h] >= p.orphans[h]

LEMMA EndCycleShape ==
  ASSUME NEW p \in PollingStates, NEW g \in Groups
  PROVE  EndCycleFacts(p, g, EndCycle(p, g))
<1> DEFINE q == EndCycle(p, g)
<1> SUFFICES EndCycleFacts(p, g, q)
  OBVIOUS
<1>1. CASE g \notin p.attached
  <2>1. q = p
    BY <1>1 DEF EndCycle
  <2>2. \A h \in Groups : p.orphans[h] >= p.orphans[h]
    BY DEF PollingStates
  <2> HIDE DEF q
  <2> QED BY <1>1, <2>1, <2>2 DEF EndCycleFacts, SameQueues
<1>2. CASE g \in p.attached
  <2> DEFINE o == IF g \in p.scanTimer /\ p.orphans[g] < MaxTimers THEN p.orphans[g] + 1
                  ELSE p.orphans[g]
  <2>1. q = [p EXCEPT !.scanTimer = p.scanTimer \union {g},
                      !.orphans = [p.orphans EXCEPT ![g] = o]]
    BY <1>2 DEF EndCycle
  <2>2. p.orphans \in [Groups -> Nat] /\ p.scanTimer \union {g} \in SUBSET Groups
    BY DEF PollingStates
  <2>3. o \in Nat /\ o >= p.orphans[g] /\ (g \notin p.scanTimer => o = p.orphans[g])
    BY <2>2
  <2> HIDE DEF o
  <2>4. [p.orphans EXCEPT ![g] = o] \in [Groups -> Nat]
    BY <2>2, <2>3
  <2>5. /\ q \in PollingStates
        /\ SameQueues(p, q) /\ q.attached = p.attached /\ q.disturbed = p.disturbed
        /\ q.pending = p.pending /\ q.slow = p.slow
        /\ q.scanTimer = p.scanTimer \union {g} /\ q.orphans = [p.orphans EXCEPT ![g] = o]
    BY <2>1, <2>2, <2>4 DEF PollingStates, SameQueues
  <2>6. ASSUME NEW h \in Groups
        PROVE  /\ h # g \/ h \notin p.scanTimer => q.orphans[h] = p.orphans[h]
               /\ q.orphans[h] >= p.orphans[h]
    BY <2>2, <2>3, <2>5
  <2> HIDE DEF q
  <2> QED BY <1>2, <2>5, <2>6 DEF EndCycleFacts
<1> QED BY <1>1, <1>2

TaskDoneFacts(p, task, failed, q) ==
  LET g == GroupOf(task)
      left == p.pending[g] \ {task}
  IN  /\ q \in PollingStates
      /\ SameQueues(p, q) /\ q.attached = p.attached /\ q.disturbed = p.disturbed
      /\ q.pending = [p.pending EXCEPT ![g] = left]
      /\ q.slow = IF failed THEN p.slow \union {task} ELSE p.slow
      /\ q.scanTimer = IF g \in p.attached /\ left = {} THEN p.scanTimer \union {g}
                       ELSE p.scanTimer
      /\ \A h \in Groups : h # g \/ h \notin p.scanTimer => q.orphans[h] = p.orphans[h]
      /\ \A h \in Groups : q.orphans[h] >= p.orphans[h]

LEMMA TaskDoneShape ==
  ASSUME NEW p \in PollingStates, NEW task \in Tasks, NEW failed \in BOOLEAN
  PROVE  TaskDoneFacts(p, task, failed, TaskDone(p, task, failed))
<1> DEFINE g == GroupOf(task)
           q == TaskDone(p, task, failed)
           left == p.pending[g] \ {task}
           next == [p EXCEPT !.pending = [p.pending EXCEPT ![g] = left],
                             !.slow = IF failed THEN p.slow \union {task} ELSE p.slow]
<1> SUFFICES TaskDoneFacts(p, task, failed, q)
  OBVIOUS
<1>1. q = IF left = {} THEN EndCycle(next, g) ELSE next
  BY DEF TaskDone
<1>2. /\ g \in Groups /\ p.pending \in [Groups -> SUBSET Tasks] /\ p.slow \in SUBSET Tasks
      /\ p.orphans \in [Groups -> Nat]
  BY TaskFacts DEF PollingStates
<1>3. [p.pending EXCEPT ![g] = left] \in [Groups -> SUBSET Tasks]
  BY <1>2
<1>4. /\ next \in PollingStates
      /\ SameQueues(p, next) /\ next.attached = p.attached /\ next.disturbed = p.disturbed
      /\ next.scanTimer = p.scanTimer /\ next.orphans = p.orphans
      /\ next.pending = [p.pending EXCEPT ![g] = left]
      /\ next.slow = IF failed THEN p.slow \union {task} ELSE p.slow
  BY <1>2, <1>3 DEF PollingStates, SameQueues
<1> HIDE DEF next, q
<1>5. CASE left = {}
  <2>1. q = EndCycle(next, g)
    BY <1>1, <1>5
  <2>2. EndCycleFacts(next, g, q)
    BY <1>2, <1>4, <2>1, EndCycleShape
  <2> QED BY <1>4, <1>5, <2>2 DEF EndCycleFacts, TaskDoneFacts, SameQueues
<1>6. CASE left # {}
  <2>1. q = next /\ \A h \in Groups : p.orphans[h] >= p.orphans[h]
    BY <1>1, <1>2, <1>6
  <2> QED BY <1>4, <1>6, <2>1 DEF TaskDoneFacts
<1> QED BY <1>5, <1>6

(* One more chain looks at a queue, or none. *)
Looking(p, q) ==
  /\ q \in PollingStates
  /\ q.attached = p.attached /\ q.scanTimer = p.scanTimer /\ q.orphans = p.orphans
  /\ q.pending = p.pending /\ q.slow = p.slow /\ q.disturbed = p.disturbed
  /\ q.queue = p.queue /\ q.taken = p.taken
  /\ q.mainQueue = p.mainQueue /\ q.mainAwaited = p.mainAwaited
  /\ \A o \in Resources : q.looks[o] >= p.looks[o]

LEMMA WillLookShape ==
  ASSUME NEW p \in PollingStates, NEW r \in Resources
  PROVE  Looking(p, WillLook(p, r)) /\ WillLook(p, r).looks[r] > 0
<1> DEFINE k == IF p.looks[r] < MaxLooks THEN p.looks[r] + 1 ELSE p.looks[r]
           more == [p.looks EXCEPT ![r] = k]
           q == WillLook(p, r)
<1>1. p.looks \in [Resources -> Nat] /\ MaxLooks \in Nat \ {0}
  BY SchedulerAssumption DEF PollingStates
<1>2. k \in Nat /\ k >= p.looks[r] /\ k > 0
  BY <1>1
<1>3. q = [p EXCEPT !.looks = more]
  BY DEF WillLook
<1> HIDE DEF k, q
<1>4. more \in [Resources -> Nat] /\ more[r] > 0 /\ \A o \in Resources : more[o] >= p.looks[o]
  BY <1>1, <1>2
<1> HIDE DEF more
<1>5. Looking(p, q) /\ q.looks = more
  BY <1>3, <1>4 DEF PollingStates, Looking
<1> QED BY <1>4, <1>5 DEF q

LEMMA SeedShape ==
  ASSUME NEW p \in PollingStates, NEW r \in Resources
  PROVE  Looking(p, Seed(p, r)) /\ (Len(p.queue[r]) = 1 => Seed(p, r).looks[r] > 0)
<1>1. CASE Len(p.queue[r]) = 1
  <2>1. Seed(p, r) = WillLook(p, r)
    BY <1>1 DEF Seed
  <2> QED BY <2>1, WillLookShape
<1>2. CASE Len(p.queue[r]) # 1
  <2>1. Seed(p, r) = p
    BY <1>2 DEF Seed
  <2>2. \A o \in Resources : p.looks[o] >= p.looks[o]
    BY DEF PollingStates
  <2> QED BY <1>2, <2>1, <2>2 DEF Looking
<1> QED BY <1>1, <1>2

(* A task that is offered goes into the queue, or is refused; the one that *)
(* it takes the place of is the first of the queue.                        *)
Queued(p, q, task) ==
  /\ q.pending = [p.pending EXCEPT ![GroupOf(task)] = @ \union {task}]
  /\ q.slow = p.slow /\ q.scanTimer = p.scanTimer /\ q.orphans = p.orphans
  /\ p.queue[Home(task)] = <<>> => q.looks[Home(task)] > 0
  /\ \/ /\ q.queue = [p.queue EXCEPT ![Home(task)] = Append(@, task)]
        /\ q.disturbed = p.disturbed
     \/ /\ Strategy[Home(task)] = "leak" /\ p.queue[Home(task)] # <<>>
        /\ q.queue = [p.queue EXCEPT ![Home(task)] = Append(Tail(@), task)]
        /\ q.disturbed = p.disturbed \union {GroupOf(task)}

Refused(p, q, task) ==
  LET g == GroupOf(task)
      left == p.pending[g] \ {task}
  IN  /\ q.queue = p.queue /\ q.disturbed = p.disturbed \union {g}
      /\ q.pending = [p.pending EXCEPT ![g] = left]
      /\ q.slow = p.slow \union {task}
      /\ q.scanTimer = IF g \in p.attached /\ left = {} THEN p.scanTimer \union {g}
                       ELSE p.scanTimer
      /\ \A h \in Groups : h # g \/ h \notin p.scanTimer => q.orphans[h] = p.orphans[h]
      /\ \A h \in Groups : q.orphans[h] >= p.orphans[h]

OfferFacts(p, task, q) ==
  /\ q \in PollingStates
  /\ q.attached = p.attached /\ q.taken = p.taken /\ q.mainQueue = p.mainQueue
  /\ q.mainAwaited = p.mainAwaited /\ \A r \in Resources : q.looks[r] >= p.looks[r]
  /\ Queued(p, q, task) \/ Refused(p, q, task)

LEMMA OfferShape ==
  ASSUME NEW p \in PollingStates, NEW task \in Tasks
  PROVE  OfferFacts(p, task, Offer(p, task))
<1> DEFINE q == Offer(p, task)
           g == GroupOf(task)
           r == Home(task)
           more == [p.pending EXCEPT ![g] = p.pending[g] \union {task}]
           waits == [p EXCEPT !.pending = more]
<1> SUFFICES OfferFacts(p, task, q)
  OBVIOUS
<1>1. /\ g \in Groups /\ r \in Resources /\ HighWater[r] \in Nat \ {0}
      /\ Strategy[r] \in {"overflow", "leak"}
  BY TaskFacts, SchedulerAssumption
<1>2. /\ p.pending \in [Groups -> SUBSET Tasks] /\ p.queue \in [Resources -> Seq(Tasks)]
      /\ p.disturbed \union {g} \in SUBSET Groups
  BY <1>1 DEF PollingStates
<1>3. p.queue[r] \in Seq(Tasks) /\ more \in [Groups -> SUBSET Tasks]
  BY <1>1, <1>2
<1> HIDE DEF g, r, more, q
<1>4. CASE Len(p.queue[r]) < HighWater[r]
  <2> DEFINE longer == [p.queue EXCEPT ![r] = Append(p.queue[r], task)]
             w == [p EXCEPT !.pending = more, !.queue = longer]
  <2>1. q = Seed(w, r)
    BY <1>4 DEF Offer, g, r, more, q
  <2>2. longer \in [Resources -> Seq(Tasks)]
    BY <1>1, <1>2, <1>3
  <2>3. p.queue[r] = <<>> => Len(longer[r]) = 1
    BY <1>1, <1>2, <1>3
  <2> HIDE DEF longer
  <2>4. /\ w \in PollingStates /\ w.queue = longer /\ w.pending = more
        /\ w.attached = p.attached /\ w.taken = p.taken /\ w.mainQueue = p.mainQueue
        /\ w.mainAwaited = p.mainAwaited /\ w.looks = p.looks /\ w.disturbed = p.disturbed
        /\ w.slow = p.slow /\ w.scanTimer = p.scanTimer /\ w.orphans = p.orphans
    BY <1>3, <2>2 DEF PollingStates
  <2> HIDE DEF w
  <2>5. Looking(w, q) /\ (Len(w.queue[r]) = 1 => q.looks[r] > 0)
    BY <1>1, <2>1, <2>4, SeedShape
  <2>6. /\ q.slow = p.slow /\ q.scanTimer = p.scanTimer /\ q.orphans = p.orphans
        /\ q.disturbed = p.disturbed /\ q.pending = more /\ q.queue = longer
        /\ p.queue[r] = <<>> => q.looks[r] > 0
    BY <2>3, <2>4, <2>5 DEF Looking
  <2>7. Queued(p, q, task)
    BY <2>6 DEF Queued, g, r, more, longer
  <2> QED BY <2>4, <2>5, <2>7 DEF OfferFacts, Looking
<1>5. CASE ~(Len(p.queue[r]) < HighWater[r]) /\ Strategy[r] = "leak"
  <2> DEFINE other == [p.queue EXCEPT ![r] = Append(Tail(p.queue[r]), task)]
             w == [p EXCEPT !.pending = more, !.queue = other,
                            !.disturbed = p.disturbed \union {g}]
  <2>1. q = Seed(w, r)
    BY <1>5 DEF Offer, g, r, more, q
  <2>2. p.queue[r] # <<>>
    BY <1>1, <1>5
  <2>3. other \in [Resources -> Seq(Tasks)]
    BY <1>1, <1>2, <1>3, <2>2
  <2> HIDE DEF other
  <2>4. /\ w \in PollingStates /\ w.queue = other /\ w.pending = more
        /\ w.attached = p.attached /\ w.taken = p.taken /\ w.mainQueue = p.mainQueue
        /\ w.mainAwaited = p.mainAwaited /\ w.looks = p.looks
        /\ w.disturbed = p.disturbed \union {g}
        /\ w.slow = p.slow /\ w.scanTimer = p.scanTimer /\ w.orphans = p.orphans
    BY <1>2, <1>3, <2>3 DEF PollingStates
  <2> HIDE DEF w
  <2>5. Looking(w, q)
    BY <1>1, <2>1, <2>4, SeedShape
  <2>6. /\ q.slow = p.slow /\ q.scanTimer = p.scanTimer /\ q.orphans = p.orphans
        /\ q.disturbed = p.disturbed \union {g} /\ q.pending = more /\ q.queue = other
    BY <2>4, <2>5 DEF Looking
  <2>7. Queued(p, q, task)
    BY <1>5, <2>2, <2>6 DEF Queued, g, r, more, other
  <2> QED BY <2>4, <2>5, <2>7 DEF OfferFacts, Looking
<1>6. CASE ~(Len(p.queue[r]) < HighWater[r]) /\ Strategy[r] # "leak"
  <2> DEFINE w == [p EXCEPT !.pending = more, !.disturbed = p.disturbed \union {g}]
  <2>1. q = TaskDone(w, task, TRUE)
    BY <1>6 DEF Offer, g, r, more, q
  <2>2. /\ w \in PollingStates
        /\ w.attached = p.attached /\ SameQueues(p, w)
        /\ w.slow = p.slow /\ w.scanTimer = p.scanTimer /\ w.orphans = p.orphans
        /\ w.disturbed = p.disturbed \union {g} /\ w.pending = more
    BY <1>2, <1>3 DEF PollingStates, SameQueues
  <2> HIDE DEF w
  <2>3. TaskDoneFacts(w, task, TRUE, q)
    BY <2>1, <2>2, TaskDoneShape
  <2>4. w.pending[g] \ {task} = p.pending[g] \ {task}
    BY <1>1, <1>2, <2>2 DEF more
  <2>5. q.pending = [p.pending EXCEPT ![g] = p.pending[g] \ {task}]
    <3>1. q.pending = [w.pending EXCEPT ![g] = w.pending[g] \ {task}]
      BY <2>3 DEF TaskDoneFacts, g
    <3> QED BY <1>1, <1>2, <2>2, <2>4, <3>1 DEF more
  <2>6. /\ q \in PollingStates
        /\ q.attached = p.attached /\ q.taken = p.taken /\ q.mainQueue = p.mainQueue
        /\ q.mainAwaited = p.mainAwaited /\ q.looks = p.looks
        /\ q.queue = p.queue /\ q.disturbed = p.disturbed \union {g}
        /\ q.slow = p.slow \union {task}
        /\ q.scanTimer = IF g \in p.attached /\ p.pending[g] \ {task} = {}
                         THEN p.scanTimer \union {g} ELSE p.scanTimer
        /\ \A h \in Groups : h # g \/ h \notin p.scanTimer => q.orphans[h] = p.orphans[h]
        /\ \A h \in Groups : q.orphans[h] >= p.orphans[h]
    BY <2>2, <2>3, <2>4 DEF TaskDoneFacts, SameQueues, g
  <2>7. Refused(p, q, task)
    BY <2>5, <2>6 DEF Refused, g
  <2>8. \A o \in Resources : p.looks[o] >= p.looks[o]
    BY DEF PollingStates
  <2> QED BY <2>6, <2>7, <2>8 DEF OfferFacts
<1> QED BY <1>1, <1>4, <1>5, <1>6
-----------------------------------------------------------------------------
(***************************************************************************)
(* What a scan ends with, by induction along the entries: P holds, after   *)
(* as many entries, the states that may be reached.                        *)
(***************************************************************************)
LEMMA OfferTrace ==
  ASSUME NEW g \in Groups, NEW isSlow \in BOOLEAN, NEW p \in PollingStates, NEW P, p \in P[0],
         \A i \in 1 .. Len(Entries[g]) : \A q \in PollingStates :
           q \in P[i - 1] => OfferIf(q, Entries[g][i], isSlow) \in P[i]
  PROVE  /\ OfferAll(p, g, isSlow) \in PollingStates
         /\ OfferAll(p, g, isSlow) \in P[Len(Entries[g])]
<1> DEFINE s == Entries[g]
           n == Len(s)
           F == [i \in 1 .. n |-> [q \in PollingStates |-> OfferIf(q, s[i], isSlow)]]
           Eq(h) == h = [t \in SUBSET (DOMAIN s) |->
                           IF t = {} THEN p ELSE OfferIf(h[t \ {Max(t)}], s[Max(t)], isSlow)]
           iter == CHOOSE h : Eq(h)
<1>1. s \in Seq(Tasks) /\ n \in Nat /\ DOMAIN s = 1 .. n /\ \A i \in 1 .. n : s[i] \in Tasks
  <2>1. s \in Seq(Tasks)
    BY SchedulerAssumption
  <2> QED BY <2>1
<1> HIDE DEF s, n
<1>2. ASSUME NEW q \in PollingStates, NEW task \in Tasks
      PROVE  OfferIf(q, task, isSlow) \in PollingStates
  BY OfferShape DEF OfferIf, OfferFacts
<1>3. F \in [1 .. n -> [PollingStates -> PollingStates]]
  BY <1>1, <1>2
<1>4. PICK f : Folding(n, PollingStates, p, F, f)
  <2> HIDE DEF F
  <2> QED BY <1>1, <1>3, FoldExists
<1>5. Eq(f)
  <2>1. ASSUME NEW t \in SUBSET (1 .. n), t # {}
        PROVE  f[t] = OfferIf(f[t \ {Max(t)}], s[Max(t)], isSlow)
    <3>1. Max(t) \in t
      BY <1>1, <2>1, MaxFacts
    <3>2. f[t \ {Max(t)}] \in PollingStates /\ Max(t) \in 1 .. n
      BY <1>4, <3>1 DEF Folding
    <3>3. F[Max(t)][f[t \ {Max(t)}]] = OfferIf(f[t \ {Max(t)}], s[Max(t)], isSlow)
      BY <3>2
    <3> QED BY <1>4, <2>1, <3>3 DEF Folding
  <2>2. \A t \in SUBSET (1 .. n) :
          f[t] = IF t = {} THEN p ELSE OfferIf(f[t \ {Max(t)}], s[Max(t)], isSlow)
    BY <1>4, <2>1 DEF Folding
  <2> QED BY <1>1, <1>4, <2>2 DEF Folding
<1>6. Eq(iter)
  <2> HIDE DEF Eq
  <2> QED BY <1>5
<1>7. OfferAll(p, g, isSlow) = iter[1 .. n]
  BY <1>1 DEF OfferAll, FoldLeft, MapThenFoldSet, s
<1> HIDE DEF iter, F
<1>8. iter[{}] = p
  BY <1>1, <1>6
<1>9. ASSUME NEW i \in 1 .. n PROVE iter[1 .. i] = OfferIf(iter[1 .. i - 1], s[i], isSlow)
  <2>1. i - 1 \in Nat /\ (i - 1) + 1 = i
    OBVIOUS
  <2>2. Max(1 .. i) = i /\ (1 .. i) \ {i} = 1 .. i - 1 /\ 1 .. i # {}
    BY <2>1, MaxOfPrefix
  <2>3. 1 .. i \in SUBSET (DOMAIN s)
    BY <1>1
  <2>4. iter[1 .. i] = OfferIf(iter[(1 .. i) \ {Max(1 .. i)}], s[Max(1 .. i)], isSlow)
    BY <1>6, <2>2, <2>3
  <2> QED BY <2>2, <2>4
<1> HIDE DEF Eq
<1> DEFINE S == {i \in 0 .. n : iter[1 .. i] \in PollingStates /\ iter[1 .. i] \in P[i]}
<1>10. 0 \in S
  BY <1>1, <1>8
<1>11. ASSUME NEW i \in 1 .. n, i - 1 \in S PROVE i \in S
  <2>1. i - 1 \in 0 .. n /\ i \in 0 .. n
    BY <1>1
  <2>2. iter[1 .. i - 1] \in PollingStates /\ iter[1 .. i - 1] \in P[i - 1] /\ s[i] \in Tasks
    BY <1>1, <1>11
  <2>3. iter[1 .. i] \in PollingStates
    BY <1>2, <1>9, <2>2
  <2>4. iter[1 .. i] \in P[i]
    BY <1>9, <2>2 DEF s, n
  <2> QED BY <2>1, <2>3, <2>4
<1>12. n \in S
  <2> HIDE DEF S
  <2>1. 0 .. n \subseteq S
    BY <1>1, <1>10, <1>11, TraceInduction
  <2> QED BY <1>1, <2>1
<1> QED BY <1>7, <1>12 DEF n, s
-----------------------------------------------------------------------------
(***************************************************************************)
(* The parts of the inductive invariant that speak of the polling groups,  *)
(* of a record of their state and of the handlers that run.                *)
(***************************************************************************)
Runs == [Tasks -> Nat]

(* The jobs of a task that the limiters hold, with the handlers that run.  *)
Flights(p, run, task) ==
  Num(p.queue[Home(task)], {task}) + Num(p.mainQueue, {task}) + run[task]

(* A queue holds tasks of its resource, a group waits for its own, and     *)
(* only a group that is polled has a timer.                                *)
Tidy(p) ==
  /\ p \in PollingStates
  /\ \A r \in Resources : \A i \in DOMAIN p.queue[r] : Home(p.queue[r][i]) = r
  /\ \A g \in Groups : p.pending[g] \subseteq ToSet(Entries[g])
  /\ p.scanTimer \subseteq p.attached

(* The loop of a group that was not disturbed: each of its tasks is in     *)
(* flight once at most, its cycle waits for those that are, and the timer  *)
(* is armed between two cycles.                                            *)
LoopOf(p, run, g) ==
  /\ p.orphans[g] = 0
  /\ \A task \in ToSet(Entries[g]) :
       /\ Flights(p, run, task) <= 1
       /\ Flights(p, run, task) > 0 => task \in p.pending[g]
  /\ g \in p.attached => (g \in p.scanTimer <=> p.pending[g] = {})

(* What keeps a group going that the limiter of its resource never drops.  *)
Armed(p, g) == g \in p.scanTimer \/ p.orphans[g] > 0 \/ p.pending[g] # {}
Answered(p, run, g) == \A task \in p.pending[g] : Flights(p, run, task) > 0
Lossless(g) == Strategy[ResourceOf[g]] = "overflow"

Fine(p, run, g) ==
  /\ g \notin p.disturbed => LoopOf(p, run, g)
  /\ g \in p.attached /\ Lossless(g) => Armed(p, g) /\ Answered(p, run, g)

LEMMA StateTypes ==
  ASSUME NEW p \in PollingStates
  PROVE  /\ p.attached \in SUBSET Groups /\ p.scanTimer \in SUBSET Groups
         /\ p.orphans \in [Groups -> Nat] /\ p.pending \in [Groups -> SUBSET Tasks]
         /\ p.slow \in SUBSET Tasks /\ p.queue \in [Resources -> Seq(Tasks)]
         /\ p.disturbed \in SUBSET Groups /\ p.taken \in [Resources -> Int]
         /\ p.looks \in [Resources -> Nat]
         /\ p.mainQueue \in Seq(Tasks) /\ p.mainAwaited \in Seq(BOOLEAN)
BY DEF PollingStates

LEMMA FlightsType ==
  ASSUME NEW p \in PollingStates, NEW run \in Runs, NEW task \in Tasks
  PROVE  Flights(p, run, task) \in Nat
<1>1. p.queue[Home(task)] \in Seq(Tasks) /\ p.mainQueue \in Seq(Tasks)
  BY TaskFacts, StateTypes
<1>2. Num(p.queue[Home(task)], {task}) \in Nat /\ Num(p.mainQueue, {task}) \in Nat
  BY <1>1, NumType
<1> QED BY <1>2 DEF Flights, Runs

LEMMA FlightsInFlight ==
  ASSUME NEW p \in PollingStates, running \in Runs, NEW task \in Tasks
  PROVE  Flights(p, running, task) > 0 <=> InFlight(p, task)
<1> DEFINE a == p.queue[Home(task)]
           b == p.mainQueue
           x == Num(a, {task})
           y == Num(b, {task})
<1>1. a \in Seq(Tasks) /\ b \in Seq(Tasks) /\ running[task] \in Nat
  BY TaskFacts, StateTypes DEF Runs
<1> HIDE DEF a, b, x, y
<1>2. x \in Nat /\ y \in Nat
  BY <1>1, NumType DEF x, y
<1>3. /\ x = 0 <=> \A i \in DOMAIN a : a[i] \notin {task}
      /\ y = 0 <=> \A i \in DOMAIN b : b[i] \notin {task}
  BY <1>1, NumZero DEF x, y
<1>4. (x = 0 <=> task \notin ToSet(a)) /\ (y = 0 <=> task \notin ToSet(b))
  BY <1>3 DEF ToSet
<1>5. Flights(p, running, task) = x + y + running[task]
  BY DEF Flights, a, b, x, y
<1>6. InFlight(p, task) <=> task \in ToSet(a) \/ task \in ToSet(b) \/ running[task] > 0
  BY DEF InFlight, a, b
<1>7. Flights(p, running, task) > 0 <=> x # 0 \/ y # 0 \/ running[task] > 0
  BY <1>1, <1>2, <1>5
<1> QED BY <1>4, <1>6, <1>7

(* A task that is offered adds one flight at most, and one at least if it  *)
(* is queued; only a limiter that drops takes another one down.            *)
FlightsAfter(p, q, run, task) ==
  /\ \A other \in Tasks :
       /\ other # task => Flights(q, run, other) <= Flights(p, run, other)
       /\ Flights(q, run, other) <= Flights(p, run, other) + 1
       /\ Strategy[Home(other)] = "overflow" => Flights(q, run, other) >= Flights(p, run, other)
  /\ Queued(p, q, task) => Flights(q, run, task) > 0

LEMMA OfferFlights ==
  ASSUME NEW p \in PollingStates, NEW run \in Runs, NEW task \in Tasks, NEW q,
         OfferFacts(p, task, q)
  PROVE  FlightsAfter(p, q, run, task)
<1> DEFINE r == Home(task)
           s == p.queue[r]
<1>1. /\ r \in Resources /\ s \in Seq(Tasks) /\ p.queue \in [Resources -> Seq(Tasks)]
      /\ p.mainQueue \in Seq(Tasks) /\ q.mainQueue = p.mainQueue
  BY TaskFacts, StateTypes DEF OfferFacts
<1> HIDE DEF r, s
<1>2. ASSUME NEW other \in Tasks
      PROVE  /\ Num(Append(s, task), {other}) = Num(s, {other}) + (IF task = other THEN 1 ELSE 0)
             /\ Num(s, {other}) \in Nat /\ Num(p.mainQueue, {other}) \in Nat
             /\ run[other] \in Nat
             /\ s # <<>> =>
                  /\ Num(Append(Tail(s), task), {other})
                       <= Num(s, {other}) + (IF task = other THEN 1 ELSE 0)
                  /\ task = other => Num(Append(Tail(s), task), {other}) > 0
                  /\ Num(Append(Tail(s), task), {other}) \in Nat
  <2>1. Num(Append(s, task), {other}) = Num(s, {other}) + (IF task = other THEN 1 ELSE 0)
    <3>1. Num(Append(s, task), {other}) = Num(s, {other}) + (IF task \in {other} THEN 1 ELSE 0)
      BY <1>1, NumAppend
    <3> QED BY <3>1
  <2>2. /\ Num(s, {other}) \in Nat /\ Num(p.mainQueue, {other}) \in Nat
        /\ run[other] \in Nat
    BY <1>1, NumType DEF Runs
  <2>3. ASSUME s # <<>>
        PROVE  /\ Num(Append(Tail(s), task), {other})
                    <= Num(s, {other}) + (IF task = other THEN 1 ELSE 0)
               /\ task = other => Num(Append(Tail(s), task), {other}) > 0
               /\ Num(Append(Tail(s), task), {other}) \in Nat
    <3>1. /\ Tail(s) \in Seq(Tasks)
          /\ Num(s, {other}) = Num(Tail(s), {other}) + (IF Head(s) \in {other} THEN 1 ELSE 0)
      BY <1>1, <2>3, NumTail
    <3>2. Num(Append(Tail(s), task), {other})
            = Num(Tail(s), {other}) + (IF task \in {other} THEN 1 ELSE 0)
      BY <3>1, NumAppend
    <3>3. Num(Tail(s), {other}) \in Nat
      BY <3>1, NumType
    <3> QED BY <3>1, <3>2, <3>3
  <2> QED BY <2>1, <2>2, <2>3
<1>3. ASSUME NEW other \in Tasks
      PROVE  /\ Flights(p, run, other)
                  = Num(p.queue[Home(other)], {other}) + Num(p.mainQueue, {other}) + run[other]
             /\ Flights(q, run, other)
                  = Num(q.queue[Home(other)], {other}) + Num(p.mainQueue, {other}) + run[other]
             /\ Num(p.queue[Home(other)], {other}) \in Nat
             /\ Num(p.mainQueue, {other}) \in Nat /\ run[other] \in Nat
  <2>1. p.queue[Home(other)] \in Seq(Tasks)
    BY <1>1, TaskFacts
  <2> QED BY <1>1, <2>1, NumType DEF Flights, Runs
<1>4. CASE Refused(p, q, task) /\ ~Queued(p, q, task)
  <2>1. q.queue = p.queue
    BY <1>4 DEF Refused
  <2>2. ASSUME NEW other \in Tasks
        PROVE  Flights(q, run, other) = Flights(p, run, other) /\ Flights(p, run, other) \in Nat
    BY <1>3, <2>1, FlightsType
  <2> QED BY <1>4, <2>2 DEF FlightsAfter
<1>5. CASE Queued(p, q, task)
  <2>1. \/ q.queue = [p.queue EXCEPT ![r] = Append(s, task)]
        \/ /\ Strategy[r] = "leak" /\ s # <<>>
           /\ q.queue = [p.queue EXCEPT ![r] = Append(Tail(s), task)]
    BY <1>5 DEF Queued, r, s
  <2>2. ASSUME NEW other \in Tasks, Home(other) # r
        PROVE  Flights(q, run, other) = Flights(p, run, other) /\ other # task
    <3>1. q.queue[Home(other)] = p.queue[Home(other)]
      BY <1>1, <2>1, <2>2, TaskFacts
    <3> QED BY <1>3, <2>2, <3>1 DEF r
  <2>3. ASSUME NEW other \in Tasks, Home(other) = r
        PROVE  /\ other # task => Flights(q, run, other) <= Flights(p, run, other)
               /\ Flights(q, run, other) <= Flights(p, run, other) + 1
               /\ Strategy[r] = "overflow" => Flights(q, run, other) >= Flights(p, run, other)
               /\ other = task => Flights(q, run, other) > 0
    <3> DEFINE x == Num(s, {other})
               y == Num(q.queue[r], {other})
               z == Num(p.mainQueue, {other})
               u == run[other]
               d == IF task = other THEN 1 ELSE 0
    <3>1. x \in Nat /\ z \in Nat /\ u \in Nat /\ d \in Nat /\ d <= 1
      <4>1. d \in Nat /\ d <= 1
        OBVIOUS
      <4> QED BY <1>2, <4>1
    <3>2. Flights(p, run, other) = x + z + u /\ Flights(q, run, other) = y + z + u
      BY <1>2, <1>3, <2>3 DEF s
    <3>3. CASE q.queue = [p.queue EXCEPT ![r] = Append(s, task)]
      <4>1. q.queue[r] = Append(s, task)
        BY <1>1, <3>3
      <4>2. y = x + d
        BY <1>2, <4>1
      <4>3. d = 1 <=> other = task
        OBVIOUS
      <4> HIDE DEF x, y, z, u, d
      <4> QED BY <3>1, <3>2, <4>2, <4>3
    <3>4. CASE /\ Strategy[r] = "leak" /\ s # <<>>
               /\ q.queue = [p.queue EXCEPT ![r] = Append(Tail(s), task)]
      <4>1. q.queue[r] = Append(Tail(s), task)
        BY <1>1, <3>4
      <4>2. y <= x + d /\ (task = other => y > 0) /\ y \in Nat
        BY <1>2, <3>4, <4>1
      <4>3. d = 1 <=> other = task
        OBVIOUS
      <4> HIDE DEF x, y, z, u, d
      <4> QED BY <3>4, <3>1, <3>2, <4>2, <4>3
    <3> QED BY <2>1, <3>3, <3>4
  <2>4. ASSUME NEW other \in Tasks
        PROVE  /\ other # task => Flights(q, run, other) <= Flights(p, run, other)
               /\ Flights(q, run, other) <= Flights(p, run, other) + 1
               /\ Strategy[Home(other)] = "overflow" =>
                    Flights(q, run, other) >= Flights(p, run, other)
    <3>1. Flights(p, run, other) \in Nat
      BY FlightsType
    <3> QED BY <2>2, <2>3, <3>1
  <2>5. Flights(q, run, task) > 0
    BY <2>3 DEF r
  <2> QED BY <2>4, <2>5 DEF FlightsAfter
<1> QED BY <1>4, <1>5 DEF OfferFacts
-----------------------------------------------------------------------------
(***************************************************************************)
(* A scan, and what it leaves alone.                                       *)
(***************************************************************************)
LEMMA OfferTidy ==
  ASSUME NEW p, Tidy(p), NEW task \in Tasks, NEW q, OfferFacts(p, task, q)
  PROVE  Tidy(q)
<1> DEFINE g == GroupOf(task)
           r == Home(task)
           s == p.queue[r]
<1>1. /\ p \in PollingStates /\ q \in PollingStates /\ q.attached = p.attached
      /\ p.scanTimer \subseteq p.attached
      /\ \A h \in Groups : p.pending[h] \subseteq ToSet(Entries[h])
      /\ \A o \in Resources : \A i \in DOMAIN p.queue[o] : Home(p.queue[o][i]) = o
  BY DEF Tidy, OfferFacts
<1>2. /\ p.pending \in [Groups -> SUBSET Tasks] /\ p.queue \in [Resources -> Seq(Tasks)]
      /\ g \in Groups /\ task \in ToSet(Entries[g]) /\ r \in Resources
  BY <1>1, StateTypes, TaskFacts
<1>3. s \in Seq(Tasks) /\ \A i \in 1 .. Len(s) : Home(s[i]) = r
  BY <1>1, <1>2
<1> HIDE DEF s, g, r
<1>4. CASE Refused(p, q, task)
  <2>1. /\ q.queue = p.queue /\ q.pending = [p.pending EXCEPT ![g] = p.pending[g] \ {task}]
        /\ q.scanTimer = p.scanTimer \/ (q.scanTimer = p.scanTimer \union {g} /\ g \in p.attached)
    BY <1>4 DEF Refused, g
  <2>2. q.scanTimer \subseteq q.attached
    BY <1>1, <2>1
  <2>3. \A h \in Groups : q.pending[h] \subseteq ToSet(Entries[h])
    BY <1>1, <1>2, <2>1
  <2> QED BY <1>1, <2>1, <2>2, <2>3 DEF Tidy
<1>5. CASE Queued(p, q, task)
  <2>1. /\ q.pending = [p.pending EXCEPT ![g] = p.pending[g] \union {task}]
        /\ q.scanTimer = p.scanTimer
        /\ \/ q.queue = [p.queue EXCEPT ![r] = Append(s, task)]
           \/ s # <<>> /\ q.queue = [p.queue EXCEPT ![r] = Append(Tail(s), task)]
    BY <1>5 DEF Queued, g, r, s
  <2>2. \A h \in Groups : q.pending[h] \subseteq ToSet(Entries[h])
    BY <1>1, <1>2, <2>1
  <2>3. \A i \in DOMAIN Append(s, task) : Home(Append(s, task)[i]) = r
    BY <1>3 DEF r
  <2>4. s # <<>> => \A i \in DOMAIN Append(Tail(s), task) : Home(Append(Tail(s), task)[i]) = r
    <3> SUFFICES ASSUME s # <<>>, NEW i \in DOMAIN Append(Tail(s), task)
                 PROVE  Home(Append(Tail(s), task)[i]) = r
      OBVIOUS
    <3>1. /\ Len(s) \in Nat /\ Len(s) > 0 /\ Tail(s) \in Seq(Tasks) /\ Len(Tail(s)) = Len(s) - 1
          /\ \A k \in 1 .. Len(s) - 1 : Tail(s)[k] = s[k + 1]
      BY <1>3
    <3>2. i \in 1 .. Len(s)
      BY <3>1
    <3>3. CASE i = Len(s)
      BY <3>1, <3>3 DEF r
    <3>4. CASE i # Len(s)
      <4>1. i \in 1 .. Len(s) - 1 /\ i + 1 \in 1 .. Len(s)
        BY <3>1, <3>2, <3>4
      <4>2. Append(Tail(s), task)[i] = s[i + 1]
        BY <3>1, <4>1
      <4> QED BY <1>3, <4>1, <4>2
    <3> QED BY <3>3, <3>4
  <2>5. ASSUME NEW o \in Resources, NEW i \in DOMAIN q.queue[o] PROVE Home(q.queue[o][i]) = o
    <3>1. CASE o # r
      <4>1. q.queue[o] = p.queue[o]
        BY <1>2, <2>1, <3>1
      <4> QED BY <1>1, <2>5, <4>1
    <3>2. CASE o = r
      <4>1. \/ q.queue[o] = Append(s, task)
            \/ s # <<>> /\ q.queue[o] = Append(Tail(s), task)
        BY <1>2, <2>1, <3>2
      <4> QED BY <2>3, <2>4, <2>5, <3>2, <4>1
    <3> QED BY <3>1, <3>2
  <2> QED BY <1>1, <2>1, <2>2, <2>5 DEF Tidy
<1> QED BY <1>4, <1>5 DEF OfferFacts

(* A scan of group g that began as b and has offered the tasks of O.  As   *)
(* long as nothing disturbs the group each of these is in flight once.     *)
Scanning(b, p, run, g, O) ==
  /\ Tidy(p)
  /\ p.attached = b.attached /\ p.taken = b.taken /\ p.mainQueue = b.mainQueue
  /\ \A h \in Groups \ {g} : Fine(p, run, h)
  /\ O \subseteq ToSet(Entries[g])
  /\ g \notin p.disturbed =>
       /\ p.orphans[g] = 0 /\ g \notin p.scanTimer /\ p.slow = b.slow
       /\ O \subseteq p.pending[g]
       /\ \A e \in ToSet(Entries[g]) :
            Flights(p, run, e) <= 1 /\ (Flights(p, run, e) > 0 => e \in O)
  /\ g \in p.attached /\ Lossless(g) =>
       /\ O # {} => Armed(p, g)
       /\ \A e \in O \intersect p.pending[g] : Flights(p, run, e) > 0

(* The offer of one more task. *)
LEMMA OfferElsewhere ==
  ASSUME NEW p, Tidy(p), NEW run \in Runs, NEW task \in Tasks, NEW q, OfferFacts(p, task, q),
         NEW h \in Groups, h # GroupOf(task), Fine(p, run, h)
  PROVE  Fine(q, run, h)
<1> DEFINE g == GroupOf(task)
<1>1. /\ p \in PollingStates /\ q \in PollingStates /\ q.attached = p.attached
      /\ p.pending \in [Groups -> SUBSET Tasks] /\ g \in Groups /\ g # h
      /\ p.pending[h] \subseteq ToSet(Entries[h])
  BY StateTypes, TaskFacts DEF Tidy, OfferFacts
<1>2. FlightsAfter(p, q, run, task)
  BY <1>1, OfferFlights
<1>3. /\ q.pending[h] = p.pending[h] /\ q.orphans[h] = p.orphans[h]
      /\ h \in q.scanTimer <=> h \in p.scanTimer
      /\ h \in q.disturbed <=> h \in p.disturbed
  <2>1. CASE Queued(p, q, task)
    BY <1>1, <2>1 DEF Queued
  <2>2. CASE Refused(p, q, task)
    BY <1>1, <2>2 DEF Refused
  <2> QED BY <2>1, <2>2 DEF OfferFacts
<1>4. ASSUME NEW e \in ToSet(Entries[h])
      PROVE  /\ Flights(p, run, e) \in Nat /\ Flights(q, run, e) \in Nat
             /\ Flights(q, run, e) <= Flights(p, run, e)
             /\ Lossless(h) => Flights(q, run, e) >= Flights(p, run, e)
  <2>1. e \in Tasks /\ GroupOf(e) = h /\ Home(e) = ResourceOf[h]
    BY EntryFacts
  <2>2. e # task
    BY <1>1, <2>1
  <2> QED BY <1>1, <1>2, <2>1, <2>2, FlightsType DEF FlightsAfter, Lossless
<1>5. h \notin q.disturbed => LoopOf(q, run, h)
  <2> SUFFICES ASSUME h \notin q.disturbed PROVE LoopOf(q, run, h)
    OBVIOUS
  <2>1. LoopOf(p, run, h)
    BY <1>3 DEF Fine
  <2>2. ASSUME NEW e \in ToSet(Entries[h])
        PROVE  Flights(q, run, e) <= 1 /\ (Flights(q, run, e) > 0 => e \in q.pending[h])
    <3>1. Flights(p, run, e) <= 1 /\ (Flights(p, run, e) > 0 => e \in p.pending[h])
      BY <2>1 DEF LoopOf
    <3> QED BY <1>3, <1>4, <3>1
  <2> QED BY <1>1, <1>3, <2>1, <2>2 DEF LoopOf
<1>6. h \in q.attached /\ Lossless(h) => Armed(q, h) /\ Answered(q, run, h)
  <2> SUFFICES ASSUME h \in q.attached, Lossless(h) PROVE Armed(q, h) /\ Answered(q, run, h)
    OBVIOUS
  <2>1. Armed(p, h) /\ Answered(p, run, h)
    BY <1>1 DEF Fine
  <2>2. Armed(q, h)
    BY <1>3, <2>1 DEF Armed
  <2>3. ASSUME NEW e \in q.pending[h] PROVE Flights(q, run, e) > 0
    <3>1. e \in p.pending[h] /\ e \in ToSet(Entries[h])
      BY <1>1, <1>3
    <3>2. Flights(p, run, e) > 0
      BY <2>1, <3>1 DEF Answered
    <3> QED BY <1>4, <3>1, <3>2
  <2> QED BY <2>2, <2>3 DEF Answered
<1> QED BY <1>5, <1>6 DEF Fine

LEMMA OfferScanning ==
  ASSUME NEW b, NEW p, NEW run \in Runs, NEW g \in Groups, NEW O, Scanning(b, p, run, g, O),
         NEW task \in ToSet(Entries[g]), g \notin p.disturbed => task \notin O,
         NEW q, OfferFacts(p, task, q)
  PROVE  /\ Scanning(b, q, run, g, O \union {task})
         /\ p.slow \subseteq q.slow
         /\ g \notin q.disturbed => g \notin p.disturbed
<1>1. /\ task \in Tasks /\ GroupOf(task) = g /\ Home(task) = ResourceOf[g]
      /\ Home(task) \in Resources /\ Strategy[Home(task)] \in {"overflow", "leak"}
  BY EntryFacts, TaskFacts, SchedulerAssumption
<1>2. /\ Tidy(p) /\ p \in PollingStates /\ q \in PollingStates
      /\ q.attached = p.attached /\ q.taken = p.taken /\ q.mainQueue = p.mainQueue
      /\ p.attached = b.attached /\ p.taken = b.taken /\ p.mainQueue = b.mainQueue
      /\ O \subseteq ToSet(Entries[g])
  BY DEF Scanning, Tidy, OfferFacts
<1>3. Tidy(q)
  BY <1>1, <1>2, OfferTidy
<1>4. /\ p.pending \in [Groups -> SUBSET Tasks] /\ p.pending[g] \subseteq ToSet(Entries[g])
      /\ p.disturbed \in SUBSET Groups /\ p.slow \in SUBSET Tasks
  BY <1>2, StateTypes DEF Tidy
<1>5. FlightsAfter(p, q, run, task)
  BY <1>1, <1>2, OfferFlights
<1>6. ASSUME NEW h \in Groups \ {g} PROVE Fine(q, run, h)
  <2>1. h \in Groups /\ h # GroupOf(task) /\ Fine(p, run, h)
    BY <1>1 DEF Scanning
  <2> QED BY <1>1, <1>2, <2>1, OfferElsewhere
<1>7. p.slow \subseteq q.slow /\ (g \notin q.disturbed => g \notin p.disturbed)
  BY <1>1, <1>4 DEF OfferFacts, Queued, Refused
<1>8. ASSUME NEW e \in ToSet(Entries[g])
      PROVE  /\ Flights(p, run, e) \in Nat /\ Flights(q, run, e) \in Nat
             /\ e # task => Flights(q, run, e) <= Flights(p, run, e)
             /\ Flights(q, run, e) <= Flights(p, run, e) + 1
             /\ Lossless(g) => Flights(q, run, e) >= Flights(p, run, e)
  <2>1. e \in Tasks /\ Home(e) = ResourceOf[g]
    BY EntryFacts
  <2> QED BY <1>2, <1>5, <2>1, FlightsType DEF FlightsAfter, Lossless
<1>9. ASSUME g \notin q.disturbed
      PROVE  /\ q.orphans[g] = 0 /\ g \notin q.scanTimer /\ q.slow = b.slow
             /\ O \union {task} \subseteq q.pending[g]
             /\ \A e \in ToSet(Entries[g]) :
                  /\ Flights(q, run, e) <= 1
                  /\ Flights(q, run, e) > 0 => e \in O \union {task}
  <2>1. /\ p.orphans[g] = 0 /\ g \notin p.scanTimer /\ p.slow = b.slow
        /\ O \subseteq p.pending[g] /\ task \notin O
        /\ \A e \in ToSet(Entries[g]) :
             Flights(p, run, e) <= 1 /\ (Flights(p, run, e) > 0 => e \in O)
    BY <1>7, <1>9 DEF Scanning
  <2>2. Queued(p, q, task)
    BY <1>1, <1>9 DEF OfferFacts, Refused
  <2>3. /\ q.orphans = p.orphans /\ q.scanTimer = p.scanTimer /\ q.slow = p.slow
        /\ q.pending[g] = p.pending[g] \union {task}
    BY <1>1, <1>4, <2>2 DEF Queued
  <2>4. ASSUME NEW e \in ToSet(Entries[g])
        PROVE  Flights(q, run, e) <= 1 /\ (Flights(q, run, e) > 0 => e \in O \union {task})
    <3>1. Flights(p, run, e) <= 1 /\ (Flights(p, run, e) > 0 => e \in O)
      BY <2>1
    <3>2. e = task => Flights(p, run, e) = 0
      BY <1>8, <2>1, <3>1
    <3> QED BY <1>8, <3>1, <3>2
  <2> QED BY <2>1, <2>3, <2>4
<1>10. ASSUME g \in q.attached, Lossless(g)
       PROVE  /\ Armed(q, g)
              /\ \A e \in (O \union {task}) \intersect q.pending[g] : Flights(q, run, e) > 0
  <2>1. \A e \in O \intersect p.pending[g] : Flights(p, run, e) > 0
    BY <1>2, <1>10 DEF Scanning
  <2>2. CASE Queued(p, q, task)
    <3>1. q.pending[g] = p.pending[g] \union {task}
      BY <1>1, <1>4, <2>2 DEF Queued
    <3>2. Flights(q, run, task) > 0
      BY <1>5, <2>2 DEF FlightsAfter
    <3>3. ASSUME NEW e \in (O \union {task}) \intersect q.pending[g], e # task
          PROVE  Flights(q, run, e) > 0
      <4>1. Flights(p, run, e) > 0 /\ e \in ToSet(Entries[g])
        BY <1>2, <2>1, <3>1, <3>3
      <4> QED BY <1>8, <1>10, <4>1
    <3> QED BY <3>1, <3>2, <3>3 DEF Armed
  <2>3. CASE Refused(p, q, task)
    <3>1. /\ q.pending[g] = p.pending[g] \ {task}
          /\ p.pending[g] \ {task} = {} => g \in q.scanTimer
      BY <1>1, <1>2, <1>4, <1>10, <2>3 DEF Refused
    <3>2. ASSUME NEW e \in (O \union {task}) \intersect q.pending[g]
          PROVE  Flights(q, run, e) > 0
      <4>1. Flights(p, run, e) > 0 /\ e \in ToSet(Entries[g])
        BY <1>2, <2>1, <3>1
      <4> QED BY <1>8, <1>10, <4>1
    <3> QED BY <3>1, <3>2 DEF Armed
  <2> QED BY <2>2, <2>3 DEF OfferFacts
<1>11. O \union {task} \subseteq ToSet(Entries[g])
  BY <1>2
<1>12. Scanning(b, q, run, g, O \union {task})
  BY <1>2, <1>3, <1>6, <1>9, <1>10, <1>11 DEF Scanning
<1> QED BY <1>7, <1>12

LEMMA EntryNumbers ==
  ASSUME NEW g \in Groups
  PROVE  /\ Entries[g] \in Seq(Tasks) /\ Len(Entries[g]) \in Nat /\ Len(Entries[g]) > 0
         /\ \A i, k \in 1 .. Len(Entries[g]) : Entries[g][i] = Entries[g][k] => i = k
         /\ \A i \in 1 .. Len(Entries[g]) : Entries[g][i] \in ToSet(Entries[g])
         /\ \A e \in ToSet(Entries[g]) : \E i \in 1 .. Len(Entries[g]) : e = Entries[g][i]
<1>1. Entries[g] \in Seq(Tasks) /\ Entries[g] # <<>> /\ IsInjective(Entries[g])
  BY SchedulerAssumption
<1>2. /\ Len(Entries[g]) \in Nat /\ Len(Entries[g]) > 0
      /\ DOMAIN Entries[g] = 1 .. Len(Entries[g])
  BY <1>1
<1> QED BY <1>1, <1>2 DEF IsInjective, ToSet

(* The fast entries. *)
LEMMA FirstPass ==
  ASSUME NEW b \in PollingStates, running \in Runs, NEW g \in Groups, NEW p,
         Scanning(b, p, running, g, {}), p.slow = b.slow
  PROVE  LET q == OfferAll(p, g, FALSE)
         IN  \E O \in SUBSET Tasks :
               /\ Scanning(b, q, running, g, O)
               /\ ToSet(Entries[g]) \subseteq O \union q.slow
               /\ g \notin q.disturbed => O \intersect b.slow = {}
<1> DEFINE s == Entries[g]
           n == Len(s)
           Inv(q, O, i) ==
             /\ Scanning(b, q, running, g, O)
             /\ \A k \in 1 .. i : s[k] \in O \union q.slow
             /\ g \notin q.disturbed => /\ O \intersect b.slow = {}
                                        /\ \A e \in O : \E k \in 1 .. i : e = s[k]
           P == [i \in 0 .. n |-> {q \in PollingStates : \E O \in SUBSET Tasks : Inv(q, O, i)}]
<1>1. /\ n \in Nat /\ \A i, k \in 1 .. n : s[i] = s[k] => i = k
      /\ \A i \in 1 .. n : s[i] \in ToSet(s) /\ s[i] \in Tasks
      /\ \A e \in ToSet(s) : \E i \in 1 .. n : e = s[i]
  BY EntryNumbers, EntryFacts
<1>2. p \in P[0]
  <2>1. Inv(p, {}, 0)
    OBVIOUS
  <2>2. p \in PollingStates /\ {} \in SUBSET Tasks
    BY DEF Scanning, Tidy
  <2> HIDE DEF Inv
  <2> QED BY <1>1, <2>1, <2>2
<1>3. ASSUME NEW i \in 1 .. n, NEW q \in PollingStates, q \in P[i - 1]
      PROVE  OfferIf(q, s[i], FALSE) \in P[i]
  <2>1. i - 1 \in 0 .. n /\ i \in 0 .. n /\ i - 1 \in Nat
    BY <1>1
  <2>2. PICK O \in SUBSET Tasks : Inv(q, O, i - 1)
    <3> HIDE DEF Inv
    <3> QED BY <1>3, <2>1
  <2>3. \A k \in 1 .. i : k \in 1 .. i - 1 \/ k = i
    BY <2>1
  <2>4. CASE s[i] \in q.slow
    <3>1. OfferIf(q, s[i], FALSE) = q
      BY <2>4 DEF OfferIf
    <3>2. Inv(q, O, i)
      BY <2>1, <2>2, <2>3, <2>4
    <3> HIDE DEF Inv
    <3> QED BY <2>1, <3>1, <3>2
  <2>5. CASE s[i] \notin q.slow
    <3> DEFINE u == Offer(q, s[i])
    <3>1. OfferIf(q, s[i], FALSE) = u
      BY <2>5 DEF OfferIf
    <3>2. OfferFacts(q, s[i], u)
      BY <1>1, OfferShape
    <3> HIDE DEF u
    <3>3. g \notin q.disturbed => s[i] \notin O
      <4>1. \A k \in 1 .. i - 1 : k \in 1 .. n /\ k # i
        BY <1>1
      <4>2. \A k \in 1 .. i - 1 : s[k] # s[i]
        BY <1>1, <4>1
      <4>3. g \notin q.disturbed => \A e \in O : \E k \in 1 .. i - 1 : e = s[k]
        BY <2>2
      <4> HIDE DEF s
      <4> QED BY <4>2, <4>3
    <3>4. Scanning(b, q, running, g, O)
      BY <2>2
    <3>5. /\ Scanning(b, u, running, g, O \union {s[i]}) /\ q.slow \subseteq u.slow
          /\ g \notin u.disturbed => g \notin q.disturbed
      <4>1. PICK e \in ToSet(Entries[g]) : e = s[i]
        BY <1>1
      <4> HIDE DEF P, Inv, n
      <4>2. OfferFacts(q, e, u) /\ (g \notin q.disturbed => e \notin O)
        BY <3>2, <3>3, <4>1
      <4>3. /\ Scanning(b, u, running, g, O \union {e}) /\ q.slow \subseteq u.slow
            /\ g \notin u.disturbed => g \notin q.disturbed
        BY <3>4, <4>2, OfferScanning
      <4> QED BY <4>1, <4>3
    <3>6. g \notin u.disturbed => s[i] \notin b.slow
      BY <2>5, <3>4, <3>5 DEF Scanning
    <3>7. O \union {s[i]} \in SUBSET Tasks
      BY <1>1
    <3>8. Inv(u, O \union {s[i]}, i)
      BY <2>1, <2>2, <2>3, <3>5, <3>6
    <3>9. u \in PollingStates
      BY <3>2 DEF OfferFacts
    <3> HIDE DEF Inv
    <3> QED BY <2>1, <3>1, <3>7, <3>8, <3>9
  <2> QED BY <2>4, <2>5
<1> DEFINE q == OfferAll(p, g, FALSE)
<1>4. q \in P[n]
  <2>1. p \in PollingStates
    BY DEF Scanning, Tidy
  <2> HIDE DEF P
  <2> QED BY <1>2, <1>3, <2>1, OfferTrace
<1> HIDE DEF q
<1>5. PICK O \in SUBSET Tasks : Inv(q, O, n)
  <2> HIDE DEF Inv
  <2> QED BY <1>1, <1>4
<1>6. ToSet(s) \subseteq O \union q.slow
  BY <1>1, <1>5
<1> QED BY <1>5, <1>6 DEF q

(* The slow entries. *)
LEMMA SecondPass ==
  ASSUME NEW b \in PollingStates, running \in Runs, NEW g \in Groups, NEW p, NEW A,
         Scanning(b, p, running, g, A), ToSet(Entries[g]) \subseteq A \union p.slow,
         g \notin p.disturbed => A \intersect b.slow = {}
  PROVE  Scanning(b, OfferAll(p, g, TRUE), running, g, ToSet(Entries[g]))
<1> DEFINE s == Entries[g]
           n == Len(s)
           Inv(q, O, i) ==
             /\ Scanning(b, q, running, g, O)
             /\ ToSet(s) \subseteq O \union q.slow
             /\ \A k \in 1 .. i : s[k] \in O
             /\ g \notin q.disturbed =>
                  \A e \in O \intersect b.slow : \E k \in 1 .. i : e = s[k]
           P == [i \in 0 .. n |-> {q \in PollingStates : \E O \in SUBSET Tasks : Inv(q, O, i)}]
<1>1. /\ n \in Nat /\ \A i, k \in 1 .. n : s[i] = s[k] => i = k
      /\ \A i \in 1 .. n : s[i] \in ToSet(s) /\ s[i] \in Tasks
      /\ \A e \in ToSet(s) : \E i \in 1 .. n : e = s[i]
      /\ ToSet(s) \subseteq Tasks
  BY EntryNumbers, EntryFacts
<1>2. p \in P[0]
  <2>1. Inv(p, A, 0)
    OBVIOUS
  <2>2. p \in PollingStates /\ A \in SUBSET Tasks
    BY <1>1 DEF Scanning, Tidy
  <2> HIDE DEF Inv
  <2> QED BY <1>1, <2>1, <2>2
<1>3. ASSUME NEW i \in 1 .. n, NEW q \in PollingStates, q \in P[i - 1]
      PROVE  OfferIf(q, s[i], TRUE) \in P[i]
  <2>1. i - 1 \in 0 .. n /\ i \in 0 .. n /\ i - 1 \in Nat
    BY <1>1
  <2>2. PICK O \in SUBSET Tasks : Inv(q, O, i - 1)
    <3> HIDE DEF Inv
    <3> QED BY <1>3, <2>1
  <2>3. \A k \in 1 .. i : k \in 1 .. i - 1 \/ k = i
    BY <2>1
  <2>4. CASE s[i] \notin q.slow
    <3>1. OfferIf(q, s[i], TRUE) = q
      BY <2>4 DEF OfferIf
    <3>2. s[i] \in O
      BY <1>1, <2>2, <2>4
    <3>3. Inv(q, O, i)
      BY <2>1, <2>2, <2>3, <3>2
    <3> HIDE DEF Inv
    <3> QED BY <2>1, <3>1, <3>3
  <2>5. CASE s[i] \in q.slow
    <3> DEFINE u == Offer(q, s[i])
    <3>1. OfferIf(q, s[i], TRUE) = u
      BY <2>5 DEF OfferIf
    <3>2. OfferFacts(q, s[i], u)
      BY <1>1, OfferShape
    <3> HIDE DEF u
    <3>3. Scanning(b, q, running, g, O)
      BY <2>2
    <3>4. g \notin q.disturbed => s[i] \notin O
      <4>1. \A k \in 1 .. i - 1 : k \in 1 .. n /\ k # i
        BY <1>1
      <4>2. g \notin q.disturbed => s[i] \in b.slow
        BY <2>5, <3>3 DEF Scanning
      <4>3. \A k \in 1 .. i - 1 : s[k] # s[i]
        BY <1>1, <4>1
      <4> HIDE DEF s
      <4> QED BY <2>2, <4>2, <4>3
    <3>5. /\ Scanning(b, u, running, g, O \union {s[i]}) /\ q.slow \subseteq u.slow
          /\ g \notin u.disturbed => g \notin q.disturbed
      <4>1. PICK e \in ToSet(Entries[g]) : e = s[i]
        BY <1>1
      <4> HIDE DEF P, Inv, n
      <4>2. OfferFacts(q, e, u) /\ (g \notin q.disturbed => e \notin O)
        BY <3>2, <3>4, <4>1
      <4>3. /\ Scanning(b, u, running, g, O \union {e}) /\ q.slow \subseteq u.slow
            /\ g \notin u.disturbed => g \notin q.disturbed
        BY <3>3, <4>2, OfferScanning
      <4> QED BY <4>1, <4>3
    <3>6. O \union {s[i]} \in SUBSET Tasks
      BY <1>1
    <3>7. Inv(u, O \union {s[i]}, i)
      BY <2>1, <2>2, <2>3, <3>5
    <3>8. u \in PollingStates
      BY <3>2 DEF OfferFacts
    <3> HIDE DEF Inv
    <3> QED BY <2>1, <3>1, <3>6, <3>7, <3>8
  <2> QED BY <2>4, <2>5
<1> DEFINE q == OfferAll(p, g, TRUE)
<1>4. q \in P[n]
  <2>1. p \in PollingStates
    BY DEF Scanning, Tidy
  <2> HIDE DEF P
  <2> QED BY <1>2, <1>3, <2>1, OfferTrace
<1> HIDE DEF q
<1>5. PICK O \in SUBSET Tasks : Inv(q, O, n)
  <2> HIDE DEF Inv
  <2> QED BY <1>1, <1>4
<1>6. O \subseteq ToSet(s)
  BY <1>5 DEF Scanning
<1>7. O = ToSet(s)
  <2>1. ASSUME NEW e \in ToSet(s) PROVE e \in O
    <3>1. PICK i \in 1 .. n : e = s[i]
      BY <1>1
    <3> QED BY <1>5, <3>1
  <2> QED BY <1>6, <2>1
<1> QED BY <1>5, <1>7 DEF q

(* A scan leaves every group fine, whatever its own was like, if no timer  *)
(* is left to a group that nothing has disturbed.                          *)
ScanFacts(p, g, q) ==
  /\ Tidy(q)
  /\ q.attached = p.attached /\ q.taken = p.taken /\ q.mainQueue = p.mainQueue
  /\ \A h \in Groups : Fine(q, running, h)

LEMMA ScanKeeps ==
  ASSUME NEW p, Tidy(p), running \in Runs, NEW g \in Groups,
         \A h \in Groups \ {g} : Fine(p, running, h),
         g \notin p.disturbed => p.orphans[g] = 0 /\ g \notin p.scanTimer
  PROVE  ScanFacts(p, g, Scan(p, g))
<1> DEFINE busy == \E task \in ToSet(Entries[g]) : InFlight(p, task)
           met == IF busy THEN p.disturbed \union {g} ELSE p.disturbed
           first == [p EXCEPT !.disturbed = met]
           fast == OfferAll(first, g, FALSE)
           q == OfferAll(fast, g, TRUE)
<1>1. p \in PollingStates /\ p.disturbed \in SUBSET Groups
  BY StateTypes DEF Tidy
<1>2. Scan(p, g) = q
  BY DEF Scan
<1>3. /\ first \in PollingStates /\ first.disturbed = met
      /\ first.attached = p.attached /\ first.scanTimer = p.scanTimer
      /\ first.orphans = p.orphans /\ first.pending = p.pending /\ first.slow = p.slow
      /\ first.queue = p.queue /\ first.taken = p.taken /\ first.mainQueue = p.mainQueue
  BY <1>1 DEF PollingStates
<1> HIDE DEF first
<1>4. \A task \in Tasks : Flights(first, running, task) = Flights(p, running, task)
  BY <1>3 DEF Flights
<1>5. Tidy(first)
  BY <1>3 DEF Tidy
<1>6. ASSUME NEW h \in Groups \ {g} PROVE Fine(first, running, h)
  <2>1. Fine(p, running, h) /\ (h \notin met => h \notin p.disturbed)
    OBVIOUS
  <2>2. \A e \in ToSet(Entries[h]) : Flights(first, running, e) = Flights(p, running, e)
    BY <1>4, EntryFacts
  <2>3. p.pending[h] \subseteq Tasks
    BY <1>1, StateTypes
  <2> HIDE DEF met
  <2>4. h \notin first.disturbed => LoopOf(first, running, h)
    BY <1>3, <2>1, <2>2 DEF Fine, LoopOf
  <2>5. h \in first.attached /\ Lossless(h) => Armed(first, h) /\ Answered(first, running, h)
    BY <1>3, <1>4, <2>1, <2>3 DEF Fine, Armed, Answered
  <2> QED BY <2>4, <2>5 DEF Fine
<1>7. Scanning(p, first, running, g, {})
  <2>1. ASSUME g \notin first.disturbed
        PROVE  /\ first.orphans[g] = 0 /\ g \notin first.scanTimer
               /\ \A e \in ToSet(Entries[g]) : ~(Flights(first, running, e) > 0)
                                               /\ Flights(first, running, e) <= 1
    <3>1. g \notin p.disturbed /\ ~busy
      BY <1>3, <2>1
    <3>2. ASSUME NEW e \in ToSet(Entries[g])
          PROVE  ~(Flights(p, running, e) > 0) /\ Flights(p, running, e) \in Nat
      <4>1. e \in Tasks /\ ~InFlight(p, e)
        BY <3>1, EntryFacts
      <4> QED BY <1>1, <4>1, FlightsType, FlightsInFlight
    <3>3. ASSUME NEW e \in ToSet(Entries[g])
          PROVE  Flights(first, running, e) = Flights(p, running, e)
      BY <1>4, EntryFacts
    <3> QED BY <1>3, <3>1, <3>2, <3>3
  <2> QED BY <1>3, <1>5, <1>6, <2>1 DEF Scanning
<1>8. PICK O \in SUBSET Tasks :
        /\ Scanning(p, fast, running, g, O)
        /\ ToSet(Entries[g]) \subseteq O \union fast.slow
        /\ g \notin fast.disturbed => O \intersect p.slow = {}
  BY <1>1, <1>3, <1>7, FirstPass
<1> HIDE DEF fast
<1>9. Scanning(p, q, running, g, ToSet(Entries[g]))
  BY <1>1, <1>8, SecondPass
<1> HIDE DEF q
<1>10. ToSet(Entries[g]) # {}
  BY EntryNumbers
<1>11. Fine(q, running, g)
  <2>1. q.pending[g] \subseteq ToSet(Entries[g])
    BY <1>9 DEF Scanning, Tidy
  <2>2. g \notin q.disturbed => LoopOf(q, running, g)
    BY <1>9, <1>10 DEF Scanning, LoopOf
  <2>3. g \in q.attached /\ Lossless(g) => Armed(q, g) /\ Answered(q, running, g)
    BY <1>9, <1>10, <2>1 DEF Scanning, Answered
  <2> QED BY <2>2, <2>3 DEF Fine
<1>12. \A h \in Groups : Fine(q, running, h)
  BY <1>9, <1>11 DEF Scanning
<1> QED BY <1>2, <1>9, <1>12 DEF ScanFacts, Scanning
-----------------------------------------------------------------------------
(***************************************************************************)
(* Jobs that move from the queue of a resource to the main one.            *)
(***************************************************************************)
TasksOf(r) == {task \in Tasks : Home(task) = r}

LEMMA JobsOfNum ==
  ASSUME NEW jobs \in Seq(Tasks), NEW r
  PROVE  JobsOf(r, jobs) = Num(jobs, TasksOf(r)) /\ JobsOf(r, jobs) \in Nat
<1>1. \A i \in DOMAIN jobs : jobs[i] \in Tasks
  OBVIOUS
<1>2. {i \in DOMAIN jobs : Home(jobs[i]) = r} = Where(jobs, TasksOf(r))
  BY <1>1 DEF Where, TasksOf
<1>3. JobsOf(r, jobs) = Num(jobs, TasksOf(r))
  BY <1>2 DEF JobsOf, Num
<1> QED BY <1>3, NumType

(* A slot is held by a job in the main queue, or by what else is counted.  *)
Slots(p, held) ==
  \A r \in Resources : /\ p.taken[r] = JobsOf(r, p.mainQueue) + held[r]
                       /\ p.taken[r] <= Concurrency[r]

(* The first n jobs of a queue leave it with a slot. *)
Moved(p, r, n, q) ==
  /\ q \in PollingStates
  /\ q.attached = p.attached /\ q.scanTimer = p.scanTimer /\ q.orphans = p.orphans
  /\ q.pending = p.pending /\ q.slow = p.slow /\ q.disturbed = p.disturbed
  /\ q.queue = [p.queue EXCEPT ![r] = SubSeq(p.queue[r], n + 1, Len(p.queue[r]))]
  /\ q.taken = [p.taken EXCEPT ![r] = p.taken[r] + n] /\ q.looks = p.looks
  /\ q.mainQueue = p.mainQueue \o SubSeq(p.queue[r], 1, n)
  /\ q.mainAwaited = p.mainAwaited \o [i \in 1 .. n |-> p.taken[r] + i = Concurrency[r]]

LEMMA MoveKeeps ==
  ASSUME NEW p, Tidy(p), NEW r \in Resources, NEW n \in 0 .. Len(p.queue[r]),
         NEW q, Moved(p, r, n, q)
  PROVE  /\ Tidy(q)
         /\ \A run \in Runs : \A task \in Tasks : Flights(q, run, task) = Flights(p, run, task)
         /\ \A held \in [Resources -> Nat] :
              Slots(p, held) /\ n <= Concurrency[r] - p.taken[r] => Slots(q, held)
<1> DEFINE s == p.queue[r]
           a == SubSeq(s, 1, n)
           z == SubSeq(s, n + 1, Len(s))
           m == p.mainQueue
<1>1. /\ p \in PollingStates /\ q \in PollingStates /\ s \in Seq(Tasks) /\ m \in Seq(Tasks)
      /\ p.queue \in [Resources -> Seq(Tasks)] /\ p.taken \in [Resources -> Int]
      /\ \A o \in Resources : \A i \in DOMAIN p.queue[o] : Home(p.queue[o][i]) = o
  <2>1. q \in PollingStates
    BY DEF Moved
  <2> QED BY <2>1, StateTypes DEF Tidy
<1>2. n \in Nat /\ Len(s) \in Nat /\ n <= Len(s)
  BY <1>1
<1>3. /\ a \in Seq(Tasks) /\ z \in Seq(Tasks) /\ Len(a) = n
      /\ \A i \in DOMAIN a : a[i] = s[i] /\ i \in DOMAIN s
      /\ \A i \in DOMAIN z : z[i] = s[n + i] /\ n + i \in DOMAIN s
  <2>1. a \in Seq(Tasks) /\ Len(a) = n /\ \A i \in DOMAIN a : a[i] = s[i] /\ i \in DOMAIN s
    BY <1>1, <1>2
  <2>2. z \in Seq(Tasks) /\ Len(z) = Len(s) - n /\ \A i \in 1 .. Len(s) - n : z[i] = s[n + i]
    BY <1>1, <1>2
  <2>3. DOMAIN z = 1 .. Len(s) - n /\ \A i \in 1 .. Len(s) - n : n + i \in DOMAIN s
    BY <1>1, <1>2, <2>2
  <2> QED BY <2>1, <2>2, <2>3
<1>4. \A S : Num(s, S) = Num(a, S) + Num(z, S)
  BY <1>1, NumSplit
<1>5. /\ q.queue = [p.queue EXCEPT ![r] = z] /\ q.mainQueue = m \o a
      /\ q.taken = [p.taken EXCEPT ![r] = p.taken[r] + n]
      /\ q.pending = p.pending /\ q.scanTimer = p.scanTimer /\ q.attached = p.attached
  BY DEF Moved
<1>6. \A i \in DOMAIN s : Home(s[i]) = r
  BY <1>1
<1> HIDE DEF s, a, z, m
<1>7. \A S : Num(m \o a, S) = Num(m, S) + Num(a, S)
  BY <1>1, <1>3, NumConcat
<1>8. \A S : Num(a, S) \in Nat /\ Num(z, S) \in Nat /\ Num(m, S) \in Nat
  BY <1>1, <1>3, NumType
<1>9. Tidy(q)
  <2>1. ASSUME NEW o \in Resources, NEW i \in DOMAIN q.queue[o] PROVE Home(q.queue[o][i]) = o
    <3>1. CASE o # r
      <4>1. q.queue[o] = p.queue[o]
        BY <1>1, <1>5, <3>1
      <4> QED BY <1>1, <2>1, <4>1
    <3>2. CASE o = r
      <4>1. q.queue[o] = z
        BY <1>1, <1>5, <3>2
      <4> QED BY <1>3, <1>6, <2>1, <3>2, <4>1
    <3> QED BY <3>1, <3>2
  <2> QED BY <1>1, <1>5, <2>1 DEF Tidy
<1>10. ASSUME NEW run \in Runs, NEW task \in Tasks
       PROVE  Flights(q, run, task) = Flights(p, run, task)
  <2> DEFINE x == Num(a, {task})
             y == Num(z, {task})
             u == Num(m, {task})
             v == run[task]
  <2>1. x \in Nat /\ y \in Nat /\ u \in Nat /\ v \in Nat
    BY <1>8 DEF Runs
  <2>2. Num(q.mainQueue, {task}) = u + x
    BY <1>5, <1>7
  <2>3. CASE Home(task) = r
    <3>1. q.queue[Home(task)] = z /\ p.queue[Home(task)] = s
      BY <1>1, <1>5, <2>3 DEF s
    <3>2. Flights(p, run, task) = x + y + u + v /\ Flights(q, run, task) = y + (u + x) + v
      BY <1>4, <2>2, <3>1 DEF Flights, m
    <3> HIDE DEF x, y, u, v
    <3> QED BY <2>1, <3>2
  <2>4. CASE Home(task) # r
    <3>1. x = 0
      BY <1>3, <1>6, <2>4, NumZero
    <3>2. q.queue[Home(task)] = p.queue[Home(task)]
      BY <1>1, <1>5, <2>4, TaskFacts
    <3> DEFINE w == Num(p.queue[Home(task)], {task})
    <3>3. w \in Nat
      BY <1>1, TaskFacts, NumType
    <3>4. Flights(p, run, task) = w + u + v /\ Flights(q, run, task) = w + (u + x) + v
      BY <2>2, <3>2 DEF Flights, m
    <3> HIDE DEF x, u, v, w
    <3> QED BY <2>1, <3>1, <3>3, <3>4
  <2> QED BY <2>3, <2>4
<1>11. ASSUME NEW held \in [Resources -> Nat], Slots(p, held), n <= Concurrency[r] - p.taken[r]
       PROVE  Slots(q, held)
  <2> SUFFICES ASSUME NEW o \in Resources
               PROVE  /\ q.taken[o] = JobsOf(o, q.mainQueue) + held[o]
                      /\ q.taken[o] <= Concurrency[o]
    BY DEF Slots
  <2> DEFINE x == Num(a, TasksOf(o))
             u == Num(m, TasksOf(o))
  <2>1. x \in Nat /\ u \in Nat /\ held[o] \in Nat /\ Concurrency[o] \in Nat
    BY <1>8, SchedulerAssumption
  <2>2. m \o a \in Seq(Tasks)
    BY <1>1, <1>3
  <2>3. JobsOf(o, p.mainQueue) = u /\ JobsOf(o, q.mainQueue) = u + x
    BY <1>1, <1>5, <1>7, <2>2, JobsOfNum DEF m
  <2>4. p.taken[o] = u + held[o] /\ p.taken[o] <= Concurrency[o]
    BY <1>11, <2>3 DEF Slots
  <2>5. CASE o = r
    <3>1. \A i \in DOMAIN a : a[i] \in TasksOf(o)
      BY <1>3, <1>6, <2>5 DEF TasksOf
    <3>2. x = n
      BY <1>3, <3>1, NumAll
    <3>3. q.taken[o] = p.taken[o] + n
      BY <1>1, <1>5, <2>5
    <3> HIDE DEF x, u
    <3> QED BY <1>2, <1>11, <2>1, <2>3, <2>4, <2>5, <3>2, <3>3
  <2>6. CASE o # r
    <3>1. \A i \in DOMAIN a : a[i] \notin TasksOf(o)
      BY <1>3, <1>6, <2>6 DEF TasksOf
    <3>2. x = 0
      BY <1>3, <3>1, NumZero
    <3>3. q.taken[o] = p.taken[o]
      BY <1>1, <1>5, <2>6
    <3> HIDE DEF x, u
    <3> QED BY <2>1, <2>3, <2>4, <3>2, <3>3
  <2> QED BY <2>5, <2>6
<1> QED BY <1>9, <1>10, <1>11
-----------------------------------------------------------------------------
(***************************************************************************)
(* The chains: which await a job, of those in the main queue and of the    *)
(* handlers aw, as long as no job of the resource is among the lost ones   *)
(* ls.  A limiter without a free slot has a chain that awaits the job that *)
(* took the last one; a queue that is not empty has a chain that will look *)
(* at it, or that awaits a job.                                            *)
(***************************************************************************)
Awaits(p, aw, r) ==
  \/ \E i \in DOMAIN p.mainQueue : Home(p.mainQueue[i]) = r /\ p.mainAwaited[i]
  \/ \E task \in Tasks : Home(task) = r /\ aw[task] > 0

Full(p, aw, ls, r) == ls[r] = 0 /\ p.taken[r] = Concurrency[r] => Awaits(p, aw, r)
Watched(p, aw, ls, r) ==
  ls[r] = 0 /\ p.queue[r] # <<>> => p.looks[r] > 0 \/ Awaits(p, aw, r)

Linked(p, aw, ls) ==
  /\ Len(p.mainAwaited) = Len(p.mainQueue)
  /\ \A r \in Resources : Full(p, aw, ls, r)
Guarded(p, aw, ls) == \A g \in p.attached : Watched(p, aw, ls, ResourceOf[g])

LEMMA SameAwaits ==
  ASSUME NEW p, NEW q, q.mainQueue = p.mainQueue, q.mainAwaited = p.mainAwaited, NEW aw, NEW r
  PROVE  Awaits(q, aw, r) <=> Awaits(p, aw, r)
BY DEF Awaits

LEMMA OfferChained ==
  ASSUME NEW p \in PollingStates, NEW task \in Tasks, NEW q, OfferFacts(p, task, q),
         NEW aw, NEW ls
  PROVE  /\ Linked(p, aw, ls) => Linked(q, aw, ls)
         /\ Guarded(p, aw, ls) => Guarded(q, aw, ls)
<1>1. /\ q.attached = p.attached /\ q.taken = p.taken
      /\ q.mainQueue = p.mainQueue /\ q.mainAwaited = p.mainAwaited
      /\ \A r \in Resources : q.looks[r] >= p.looks[r]
  BY DEF OfferFacts
<1>2. \A r : Awaits(q, aw, r) <=> Awaits(p, aw, r)
  BY <1>1, SameAwaits
<1>3. Linked(p, aw, ls) => Linked(q, aw, ls)
  BY <1>1, <1>2 DEF Linked, Full
<1>4. ASSUME NEW r \in Resources, Watched(p, aw, ls, r) PROVE Watched(q, aw, ls, r)
  <2>1. /\ p.looks \in [Resources -> Nat] /\ p.queue \in [Resources -> Seq(Tasks)]
        /\ q.looks \in [Resources -> Nat]
    BY StateTypes DEF OfferFacts
  <2>2. p.looks[r] > 0 => q.looks[r] > 0
    BY <1>1, <2>1
  <2>3. CASE q.queue[r] = p.queue[r]
    BY <1>2, <1>4, <2>2, <2>3 DEF Watched
  <2>4. CASE q.queue[r] # p.queue[r]
    <3>1. Queued(p, q, task) /\ r = Home(task)
      <4>1. CASE Refused(p, q, task)
        BY <2>4, <4>1 DEF Refused
      <4>2. CASE Queued(p, q, task)
        BY <2>1, <2>4, <4>2, TaskFacts DEF Queued
      <4> QED BY <4>1, <4>2 DEF OfferFacts
    <3>2. p.queue[r] = <<>> => q.looks[r] > 0
      BY <3>1 DEF Queued
    <3> QED BY <1>2, <1>4, <2>2, <3>2 DEF Watched
  <2> QED BY <2>3, <2>4
<1>5. p.attached \in SUBSET Groups /\ \A g \in Groups : ResourceOf[g] \in Resources
  BY StateTypes DEF Resources
<1>6. Guarded(p, aw, ls) => Guarded(q, aw, ls)
  BY <1>1, <1>4, <1>5 DEF Guarded
<1> QED BY <1>3, <1>6

(* A chain that moves all the jobs there are, or takes the last slot.      *)
LEMMA MoveChained ==
  ASSUME NEW p, Tidy(p), NEW r \in Resources, NEW n \in 0 .. Len(p.queue[r]),
         NEW q, Moved(p, r, n, q),
         n = Len(p.queue[r]) \/ n = Concurrency[r] - p.taken[r],
         NEW aw, NEW ls, Linked(p, aw, ls)
  PROVE  /\ Linked(q, aw, ls) /\ Watched(q, aw, ls, r)
         /\ \A o \in Resources : o # r /\ Watched(p, aw, ls, o) => Watched(q, aw, ls, o)
<1> DEFINE s == p.queue[r]
           a == SubSeq(s, 1, n)
           m == p.mainQueue
           c == p.mainAwaited
           marks == [i \in 1 .. n |-> p.taken[r] + i = Concurrency[r]]
<1>1. /\ p \in PollingStates /\ s \in Seq(Tasks) /\ m \in Seq(Tasks) /\ c \in Seq(BOOLEAN)
      /\ p.queue \in [Resources -> Seq(Tasks)] /\ p.taken \in [Resources -> Int]
      /\ \A i \in DOMAIN s : Home(s[i]) = r
      /\ Concurrency[r] \in Nat /\ p.taken[r] \in Int
  BY StateTypes, SchedulerAssumption DEF Tidy
<1>2. /\ n \in Nat /\ Len(s) \in Nat /\ n <= Len(s) /\ Len(m) \in Nat /\ Len(c) = Len(m)
      /\ DOMAIN s = 1 .. Len(s)
  BY <1>1 DEF Linked
<1>3. /\ q.queue = [p.queue EXCEPT ![r] = SubSeq(s, n + 1, Len(s))] /\ q.looks = p.looks
      /\ q.taken = [p.taken EXCEPT ![r] = p.taken[r] + n]
      /\ q.mainQueue = m \o a /\ q.mainAwaited = c \o marks
  BY DEF Moved
<1>4. /\ a \in Seq(Tasks) /\ Len(a) = n /\ \A i \in 1 .. n : a[i] = s[i]
      /\ n = Len(s) => SubSeq(s, n + 1, Len(s)) = <<>>
  <2> HIDE DEF s
  <2>1. a \in Seq(Tasks) /\ Len(a) = n /\ \A i \in 1 .. n : a[i] = s[i]
    BY <1>1, <1>2
  <2>2. ASSUME n = Len(s) PROVE SubSeq(s, n + 1, Len(s)) = <<>>
    <3>1. /\ SubSeq(s, n + 1, Len(s)) \in Seq(Tasks)
          /\ Len(SubSeq(s, n + 1, Len(s))) = 0
      BY <1>1, <1>2, <2>2
    <3> QED BY <3>1
  <2> QED BY <2>1, <2>2
<1>5. marks \in Seq(BOOLEAN) /\ Len(marks) = n
  <2>1. marks \in Seq(BOOLEAN) /\ DOMAIN marks = 1 .. n
    BY <1>2
  <2> HIDE DEF marks
  <2>2. Len(marks) \in Nat /\ 1 .. Len(marks) = 1 .. n
    BY <2>1
  <2>3. Len(marks) = n
    BY <1>2, <2>2
  <2> QED BY <2>1, <2>3
<1>6. ASSUME n > 0, p.taken[r] + n = Concurrency[r] PROVE marks[n]
  <2>1. n \in 1 .. n
    BY <1>2, <1>6
  <2>2. marks[n] = (p.taken[r] + n = Concurrency[r])
    BY <2>1, Zenon
  <2> HIDE DEF marks
  <2> QED BY <1>6, <2>2, Zenon
<1> HIDE DEF s, a, m, c, marks
<1>7. /\ Len(m \o a) = Len(m) + n /\ DOMAIN (m \o a) = 1 .. Len(m) + n
      /\ DOMAIN m = 1 .. Len(m)
      /\ \A i \in 1 .. Len(m) : (m \o a)[i] = m[i]
      /\ n > 0 => (m \o a)[Len(m) + n] = a[n]
  <2>1. m \in Seq(Tasks) /\ a \in Seq(Tasks) /\ Len(m) \in Nat /\ n \in Nat /\ Len(a) = n
    BY <1>1, <1>2, <1>4
  <2> QED BY ONLY <2>1
<1>8. /\ Len(c \o marks) = Len(m) + n
      /\ \A i \in 1 .. Len(m) : (c \o marks)[i] = c[i]
      /\ n > 0 => (c \o marks)[Len(m) + n] = marks[n]
  <2>1. /\ Len(c \o marks) = Len(c) + Len(marks)
        /\ \A i \in 1 .. Len(c) + Len(marks) :
             (c \o marks)[i] = IF i <= Len(c) THEN c[i] ELSE marks[i - Len(c)]
    BY <1>1, <1>5, ConcatProperties
  <2>2. ASSUME NEW i \in 1 .. Len(m) PROVE (c \o marks)[i] = c[i]
    <3>1. i \in 1 .. Len(c) + Len(marks) /\ i <= Len(c)
      BY <1>2, <1>5
    <3> QED BY <2>1, <3>1
  <2>3. ASSUME n > 0 PROVE (c \o marks)[Len(m) + n] = marks[n]
    <3>1. /\ Len(m) + n \in 1 .. Len(c) + Len(marks) /\ ~(Len(m) + n <= Len(c))
          /\ (Len(m) + n) - Len(c) = n
      BY <1>2, <1>5, <2>3
    <3> QED BY <2>1, <3>1
  <2> QED BY <1>2, <1>5, <2>1, <2>2, <2>3
<1>9. ASSUME NEW o, Awaits(p, aw, o) PROVE Awaits(q, aw, o)
  <2>1. CASE \E task \in Tasks : Home(task) = o /\ aw[task] > 0
    BY <2>1 DEF Awaits
  <2>2. CASE \E i \in DOMAIN m : Home(m[i]) = o /\ c[i]
    <3>1. PICK i \in 1 .. Len(m) : Home(m[i]) = o /\ c[i]
      BY <1>7, <2>2
    <3>2. i \in DOMAIN (m \o a)
      BY <1>2, <1>7, <3>1
    <3>3. Home((m \o a)[i]) = o /\ (c \o marks)[i]
      BY <1>7, <1>8, <3>1
    <3> QED BY <1>3, <3>2, <3>3 DEF Awaits
  <2> QED BY <1>9, <2>1, <2>2 DEF Awaits, m, c
<1>10. ASSUME n > 0, p.taken[r] + n = Concurrency[r] PROVE Awaits(q, aw, r)
  <2> DEFINE k == Len(m) + n
  <2>1. k \in DOMAIN (m \o a) /\ n \in 1 .. n /\ n \in DOMAIN s
    BY <1>2, <1>7, <1>10
  <2>2. Home((m \o a)[k]) = r
    BY <1>1, <1>4, <1>7, <1>10, <2>1
  <2>3. (c \o marks)[k]
    BY <1>6, <1>8, <1>10
  <2> HIDE DEF k
  <2> QED BY <1>3, <2>1, <2>2, <2>3 DEF Awaits
<1>11. ASSUME NEW o \in Resources PROVE Full(q, aw, ls, o)
  <2>1. Full(p, aw, ls, o)
    BY DEF Linked
  <2>2. CASE o # r \/ n = 0
    <3>1. q.taken[o] = p.taken[o]
      BY <1>1, <1>3, <2>2
    <3> QED BY <1>9, <2>1, <3>1 DEF Full
  <2>3. CASE o = r /\ n # 0
    <3>1. q.taken[o] = p.taken[r] + n /\ n > 0
      BY <1>1, <1>2, <1>3, <2>3
    <3> QED BY <1>10, <2>3, <3>1 DEF Full
  <2> QED BY <2>2, <2>3
<1>12. Linked(q, aw, ls)
  BY <1>3, <1>7, <1>8, <1>11 DEF Linked
<1>13. Watched(q, aw, ls, r)
  <2>1. CASE n = Len(s)
    <3>1. q.queue[r] = <<>>
      BY <1>1, <1>3, <1>4, <2>1
    <3> QED BY <3>1 DEF Watched
  <2>2. CASE n = Concurrency[r] - p.taken[r]
    <3>1. q.taken[r] = Concurrency[r]
      BY <1>1, <1>2, <1>3, <2>2
    <3> QED BY <1>11, <3>1 DEF Full, Watched
  <2> QED BY <2>1, <2>2 DEF s
<1>14. ASSUME NEW o \in Resources, o # r, Watched(p, aw, ls, o) PROVE Watched(q, aw, ls, o)
  <2>1. q.queue[o] = p.queue[o] /\ q.looks[o] = p.looks[o]
    BY <1>1, <1>3, <1>14
  <2> QED BY <1>9, <1>14, <2>1 DEF Watched
<1> QED BY <1>12, <1>13, <1>14
-----------------------------------------------------------------------------
(***************************************************************************)
(* A start, group by group.                                                *)
(***************************************************************************)
LEMMA LaunchKeeps ==
  ASSUME NEW p, Tidy(p), NEW r \in Resources, NEW held \in [Resources -> Nat], Slots(p, held)
  PROVE  \E n \in 0 .. Len(p.queue[r]) :
           /\ n <= Concurrency[r] - p.taken[r] /\ Moved(p, r, n, Launch(p, r))
           /\ n = Len(p.queue[r]) \/ n = Concurrency[r] - p.taken[r]
<1> DEFINE free == Concurrency[r] - p.taken[r]
           n == IF free < Len(p.queue[r]) THEN free ELSE Len(p.queue[r])
<1>1. /\ p \in PollingStates /\ p.queue \in [Resources -> Seq(Tasks)]
      /\ p.queue[r] \in Seq(Tasks) /\ p.taken \in [Resources -> Int]
      /\ p.mainQueue \in Seq(Tasks) /\ p.mainAwaited \in Seq(BOOLEAN)
  BY StateTypes DEF Tidy
<1>2. Concurrency[r] \in Nat /\ p.taken[r] <= Concurrency[r] /\ p.taken[r] \in Int
  BY <1>1, SchedulerAssumption DEF Slots
<1>3. /\ n \in 0 .. Len(p.queue[r]) /\ n <= Concurrency[r] - p.taken[r] /\ n \in Nat
      /\ n = Len(p.queue[r]) \/ n = Concurrency[r] - p.taken[r]
  BY <1>1, <1>2
<1> DEFINE marks == [i \in 1 .. n |-> p.taken[r] + i = Concurrency[r]]
<1>4. Launch(p, r) =
        [p EXCEPT !.queue = [p.queue EXCEPT ![r] = SubSeq(p.queue[r], n + 1, Len(p.queue[r]))],
                  !.taken = [p.taken EXCEPT ![r] = p.taken[r] + n],
                  !.mainQueue = p.mainQueue \o SubSeq(p.queue[r], 1, n),
                  !.mainAwaited = p.mainAwaited \o marks]
  BY DEF Launch
<1> HIDE DEF n
<1>5. /\ SubSeq(p.queue[r], n + 1, Len(p.queue[r])) \in Seq(Tasks)
      /\ SubSeq(p.queue[r], 1, n) \in Seq(Tasks)
  BY <1>1, <1>3, NumSplit
<1>6. /\ [p.queue EXCEPT ![r] = SubSeq(p.queue[r], n + 1, Len(p.queue[r]))]
           \in [Resources -> Seq(Tasks)]
      /\ p.mainQueue \o SubSeq(p.queue[r], 1, n) \in Seq(Tasks)
      /\ [p.taken EXCEPT ![r] = p.taken[r] + n] \in [Resources -> Int]
  BY <1>1, <1>2, <1>3, <1>5
<1>7. p.mainAwaited \o marks \in Seq(BOOLEAN)
  <2>1. marks \in Seq(BOOLEAN)
    BY <1>3
  <2> HIDE DEF marks
  <2> QED BY <1>1, <2>1
<1>8. Moved(p, r, n, Launch(p, r))
  <2> DEFINE longer == p.mainAwaited \o marks
             rest == [p.queue EXCEPT ![r] = SubSeq(p.queue[r], n + 1, Len(p.queue[r]))]
             main == p.mainQueue \o SubSeq(p.queue[r], 1, n)
             more == [p.taken EXCEPT ![r] = p.taken[r] + n]
             q == Launch(p, r)
  <2>1. longer \in Seq(BOOLEAN) /\ rest \in [Resources -> Seq(Tasks)]
        /\ main \in Seq(Tasks) /\ more \in [Resources -> Int]
    BY <1>6, <1>7
  <2>2. q = [p EXCEPT !.queue = rest, !.taken = more, !.mainQueue = main, !.mainAwaited = longer]
    BY <1>4
  <2> HIDE DEF longer, rest, main, more, q
  <2>3. /\ q \in PollingStates
        /\ q.attached = p.attached /\ q.scanTimer = p.scanTimer /\ q.orphans = p.orphans
        /\ q.pending = p.pending /\ q.slow = p.slow /\ q.disturbed = p.disturbed
        /\ q.queue = rest /\ q.taken = more /\ q.looks = p.looks
        /\ q.mainQueue = main /\ q.mainAwaited = longer
    BY <1>1, <2>1, <2>2 DEF PollingStates
  <2> QED BY <2>3 DEF Moved, longer, rest, main, more, q, marks
<1> QED BY <1>3, <1>8

(* Of any state, whether or not its groups are fine. *)
LEMMA ScanTidy ==
  ASSUME NEW p, Tidy(p), NEW g \in Groups, NEW aw, NEW ls
  PROVE  LET q == Scan(p, g)
         IN  /\ Tidy(q) /\ q.attached = p.attached
             /\ q.taken = p.taken /\ q.mainQueue = p.mainQueue
             /\ Linked(p, aw, ls) /\ Guarded(p, aw, ls) => Linked(q, aw, ls) /\ Guarded(q, aw, ls)
<1> DEFINE met == IF \E task \in ToSet(Entries[g]) : InFlight(p, task)
                  THEN p.disturbed \union {g} ELSE p.disturbed
           first == [p EXCEPT !.disturbed = met]
           Chained(q) == Linked(q, aw, ls) /\ Guarded(q, aw, ls)
           Same(q) == /\ Tidy(q) /\ q.attached = p.attached
                      /\ q.taken = p.taken /\ q.mainQueue = p.mainQueue
                      /\ Chained(p) => Chained(q)
           P == [i \in 0 .. Len(Entries[g]) |-> {q \in PollingStates : Same(q)}]
<1>1. Scan(p, g) = OfferAll(OfferAll(first, g, FALSE), g, TRUE)
  BY DEF Scan
<1>2. p \in PollingStates /\ p.disturbed \in SUBSET Groups
  BY StateTypes DEF Tidy
<1>3. Same(first)
  <2>1. met \in SUBSET Groups
    BY <1>2
  <2> HIDE DEF met
  <2>2. /\ first \in PollingStates
        /\ first.attached = p.attached /\ first.scanTimer = p.scanTimer
        /\ first.pending = p.pending /\ first.queue = p.queue /\ first.taken = p.taken
        /\ first.looks = p.looks
        /\ first.mainQueue = p.mainQueue /\ first.mainAwaited = p.mainAwaited
    BY <1>2, <2>1 DEF PollingStates
  <2> HIDE DEF first
  <2>3. \A r : Awaits(first, aw, r) <=> Awaits(p, aw, r)
    BY <2>2, SameAwaits
  <2>4. Chained(p) => Chained(first)
    BY <2>2, <2>3 DEF Linked, Guarded, Full, Watched
  <2>5. Tidy(first)
    BY <2>2 DEF Tidy
  <2> QED BY <2>2, <2>4, <2>5
<1>4. ASSUME NEW q \in PollingStates, Same(q), NEW task \in Tasks, NEW isSlow \in BOOLEAN
      PROVE  Same(OfferIf(q, task, isSlow)) /\ OfferIf(q, task, isSlow) \in PollingStates
  <2>1. OfferFacts(q, task, Offer(q, task))
    BY OfferShape
  <2>2. Tidy(Offer(q, task))
    BY <1>4, <2>1, OfferTidy
  <2>3. Chained(q) => Chained(Offer(q, task))
    BY <2>1, OfferChained
  <2> HIDE DEF Chained
  <2> QED BY <1>4, <2>1, <2>2, <2>3 DEF OfferIf, OfferFacts
<1> HIDE DEF Same, first, Chained
<1>5. ASSUME NEW q, Same(q), NEW isSlow \in BOOLEAN
      PROVE  Same(OfferAll(q, g, isSlow))
  <2>1. q \in PollingStates
    BY <1>5 DEF Same, Tidy
  <2>2. Len(Entries[g]) \in Nat /\ \A i \in 1 .. Len(Entries[g]) : Entries[g][i] \in Tasks
    BY EntryNumbers, EntryFacts
  <2>3. q \in P[0]
    BY <1>5, <2>1, <2>2
  <2>4. ASSUME NEW i \in 1 .. Len(Entries[g]), NEW u \in PollingStates, u \in P[i - 1]
        PROVE  OfferIf(u, Entries[g][i], isSlow) \in P[i]
    <3>1. i - 1 \in 0 .. Len(Entries[g]) /\ i \in 0 .. Len(Entries[g])
      BY <2>2
    <3>2. Same(u)
      BY <2>4, <3>1
    <3> QED BY <1>4, <2>2, <3>1, <3>2
  <2> DEFINE v == OfferAll(q, g, isSlow)
  <2>5. v \in P[Len(Entries[g])]
    <3> HIDE DEF P
    <3> QED BY <2>1, <2>3, <2>4, OfferTrace
  <2> QED BY <2>2, <2>5
<1> DEFINE half == OfferAll(first, g, FALSE)
<1>6. Same(half)
  BY <1>3, <1>5
<1> HIDE DEF half
<1>7. Same(OfferAll(half, g, TRUE))
  BY <1>5, <1>6
<1> QED BY <1>1, <1>7 DEF Same, half, Chained

Started(held, aw, ls) ==
  {p \in PollingStates : Tidy(p) /\ Slots(p, held) /\ Linked(p, aw, ls) /\ Guarded(p, aw, ls)}

LEMMA StartGroupKeeps ==
  ASSUME NEW held \in [Resources -> Nat], running \in Runs, NEW aw, NEW ls,
         NEW p \in Started(held, aw, ls), NEW g \in Groups
  PROVE  LET q == StartGroup(p, g)
         IN  /\ q \in Started(held, aw, ls) /\ q.attached = p.attached \union {g}
             /\ g \notin p.attached /\ (\A h \in Groups : Fine(p, running, h)) =>
                  \A h \in Groups : Fine(q, running, h)
<1> DEFINE r == ResourceOf[g]
           w == [p EXCEPT !.attached = p.attached \union {g}]
           u == Launch(w, r)
           q == Scan(u, g)
<1>1. q = StartGroup(p, g)
  BY DEF StartGroup
<1>2. /\ p \in PollingStates /\ Tidy(p) /\ Slots(p, held) /\ p.attached \in SUBSET Groups
      /\ Linked(p, aw, ls) /\ Guarded(p, aw, ls)
  BY StateTypes DEF Started
<1>3. r \in Resources
  BY DEF Resources
<1>4. /\ w \in PollingStates /\ w.attached = p.attached \union {g}
      /\ w.scanTimer = p.scanTimer /\ w.orphans = p.orphans /\ w.pending = p.pending
      /\ w.slow = p.slow /\ w.disturbed = p.disturbed
      /\ w.queue = p.queue /\ w.taken = p.taken /\ w.mainQueue = p.mainQueue
      /\ w.looks = p.looks /\ w.mainAwaited = p.mainAwaited
  BY <1>2 DEF PollingStates
<1> HIDE DEF w
<1>5. Tidy(w) /\ Slots(w, held)
  BY <1>2, <1>4 DEF Tidy, Slots
<1>6. PICK n \in 0 .. Len(w.queue[r]) :
        /\ n <= Concurrency[r] - w.taken[r] /\ Moved(w, r, n, u)
        /\ n = Len(w.queue[r]) \/ n = Concurrency[r] - w.taken[r]
  BY <1>3, <1>5, LaunchKeeps
<1> HIDE DEF u
<1>7. /\ Tidy(u) /\ Slots(u, held)
      /\ \A task \in Tasks : Flights(u, running, task) = Flights(w, running, task)
  BY <1>3, <1>5, <1>6, MoveKeeps
<1>8. /\ u.attached = p.attached \union {g} /\ u.scanTimer = p.scanTimer
      /\ u.orphans = p.orphans /\ u.pending = p.pending /\ u.disturbed = p.disturbed
  BY <1>4, <1>6 DEF Moved
<1>9. \A task \in Tasks : Flights(u, running, task) = Flights(p, running, task)
  BY <1>4, <1>7 DEF Flights
<1>10. q \in Started(held, aw, ls) /\ q.attached = p.attached \union {g}
  <2>1. \A o : Awaits(w, aw, o) <=> Awaits(p, aw, o)
    BY <1>4, SameAwaits
  <2>2. Linked(w, aw, ls)
    BY <1>2, <1>4, <2>1 DEF Linked, Full
  <2>3. /\ Linked(u, aw, ls) /\ Watched(u, aw, ls, r)
        /\ \A o \in Resources : o # r /\ Watched(w, aw, ls, o) => Watched(u, aw, ls, o)
    BY <1>3, <1>5, <1>6, <2>2, MoveChained
  <2>4. ASSUME NEW h \in u.attached PROVE Watched(u, aw, ls, ResourceOf[h])
    <3>1. ResourceOf[h] \in Resources /\ h \in p.attached \union {g}
      BY <1>2, <1>8 DEF Resources
    <3>2. CASE ResourceOf[h] = r
      BY <2>3, <3>2
    <3>3. CASE ResourceOf[h] # r
      <4>1. Watched(p, aw, ls, ResourceOf[h])
        BY <1>2, <3>1, <3>3 DEF Guarded
      <4>2. Watched(w, aw, ls, ResourceOf[h])
        BY <1>4, <2>1, <4>1 DEF Watched
      <4> QED BY <2>3, <3>1, <3>3, <4>2
    <3> QED BY <3>2, <3>3
  <2>5. Guarded(u, aw, ls)
    BY <2>4 DEF Guarded
  <2>6. /\ Tidy(q) /\ q.attached = u.attached /\ q.taken = u.taken /\ q.mainQueue = u.mainQueue
        /\ Linked(q, aw, ls) /\ Guarded(q, aw, ls)
    BY <1>7, <2>3, <2>5, ScanTidy
  <2> HIDE DEF q
  <2> QED BY <1>7, <1>8, <2>6 DEF Started, Slots, Tidy
<1>11. ASSUME g \notin p.attached, \A h \in Groups : Fine(p, running, h)
       PROVE  \A h \in Groups : Fine(q, running, h)
  <2>1. ASSUME NEW h \in Groups \ {g} PROVE Fine(u, running, h)
    <3>1. Fine(p, running, h)
      BY <1>11
    <3>2. \A e \in ToSet(Entries[h]) : Flights(u, running, e) = Flights(p, running, e)
      BY <1>9, EntryFacts
    <3>3. p.pending[h] \subseteq Tasks
      BY <1>2, StateTypes
    <3>4. h \notin u.disturbed => LoopOf(u, running, h)
      BY <1>8, <3>1, <3>2 DEF Fine, LoopOf
    <3>5. h \in u.attached /\ Lossless(h) => Armed(u, h) /\ Answered(u, running, h)
      BY <1>8, <1>9, <3>1, <3>3 DEF Fine, Armed, Answered
    <3> QED BY <3>4, <3>5 DEF Fine
  <2>2. g \notin u.disturbed => u.orphans[g] = 0 /\ g \notin u.scanTimer
    BY <1>2, <1>8, <1>11 DEF Fine, LoopOf, Tidy
  <2>3. ScanFacts(u, g, q)
    BY <1>7, <2>1, <2>2, ScanKeeps
  <2> QED BY <2>3 DEF ScanFacts
<1> QED BY <1>1, <1>10, <1>11

LEMMA StartsKeep ==
  ASSUME NEW held \in [Resources -> Nat], running \in Runs, NEW aw, NEW ls,
         NEW p \in Started(held, aw, ls),
         p.attached = {}, \A h \in Groups : Fine(p, running, h)
  PROVE  LET q == StartGroups(p)
         IN  q \in Started(held, aw, ls) /\ \A h \in Groups : Fine(q, running, h)
<1> DEFINE s == GroupSeq
           n == Len(s)
           X == Started(held, aw, ls)
           F == [i \in 1 .. n |-> [q \in X |-> StartGroup(q, s[i])]]
           Eq(h) == h = [t \in SUBSET (DOMAIN s) |->
                           IF t = {} THEN p ELSE StartGroup(h[t \ {Max(t)}], s[Max(t)])]
           iter == CHOOSE h : Eq(h)
<1>1. /\ s \in Seq(Groups) /\ n \in Nat /\ DOMAIN s = 1 .. n /\ \A i \in 1 .. n : s[i] \in Groups
      /\ \A i, k \in 1 .. n : s[i] = s[k] => i = k
  <2>1. s \in Seq(Groups) /\ IsInjective(s)
    BY SchedulerAssumption
  <2> QED BY <2>1 DEF IsInjective
<1> HIDE DEF s, n
<1>2. \A q \in X : \A g \in Groups : StartGroup(q, g) \in X
  BY StartGroupKeeps
<1> HIDE DEF X
<1>3. F \in [1 .. n -> [X -> X]]
  BY <1>1, <1>2
<1>4. PICK f : Folding(n, X, p, F, f)
  <2>1. p \in X
    BY DEF X
  <2> HIDE DEF F
  <2> QED BY <1>1, <1>3, <2>1, FoldExists
<1>5. Eq(f)
  <2>1. ASSUME NEW t \in SUBSET (1 .. n), t # {}
        PROVE  f[t] = StartGroup(f[t \ {Max(t)}], s[Max(t)])
    <3>1. Max(t) \in t
      BY <1>1, <2>1, MaxFacts
    <3>2. f[t \ {Max(t)}] \in X /\ Max(t) \in 1 .. n
      BY <1>4, <3>1 DEF Folding
    <3>3. F[Max(t)][f[t \ {Max(t)}]] = StartGroup(f[t \ {Max(t)}], s[Max(t)])
      BY <3>2
    <3> QED BY <1>4, <2>1, <3>3 DEF Folding
  <2>2. \A t \in SUBSET (1 .. n) :
          f[t] = IF t = {} THEN p ELSE StartGroup(f[t \ {Max(t)}], s[Max(t)])
    BY <1>4, <2>1 DEF Folding
  <2> QED BY <1>1, <1>4, <2>2 DEF Folding
<1>6. Eq(iter)
  <2> HIDE DEF Eq
  <2> QED BY <1>5
<1>7. StartGroups(p) = iter[1 .. n]
  BY <1>1 DEF StartGroups, FoldLeft, MapThenFoldSet, s
<1> HIDE DEF iter, F
<1>8. iter[{}] = p
  BY <1>1, <1>6
<1>9. ASSUME NEW i \in 1 .. n PROVE iter[1 .. i] = StartGroup(iter[1 .. i - 1], s[i])
  <2>1. i - 1 \in Nat /\ (i - 1) + 1 = i
    OBVIOUS
  <2>2. Max(1 .. i) = i /\ (1 .. i) \ {i} = 1 .. i - 1 /\ 1 .. i # {}
    BY <2>1, MaxOfPrefix
  <2>3. 1 .. i \in SUBSET (DOMAIN s)
    BY <1>1
  <2>4. iter[1 .. i] = StartGroup(iter[(1 .. i) \ {Max(1 .. i)}], s[Max(1 .. i)])
    BY <1>6, <2>2, <2>3
  <2> QED BY <2>2, <2>4
<1> HIDE DEF Eq
<1> DEFINE Good(q, i) == /\ q \in X /\ \A g \in q.attached : \E k \in 1 .. i : g = s[k]
                         /\ \A h \in Groups : Fine(q, running, h)
           S == {i \in 0 .. n : Good(iter[1 .. i], i)}
<1>10. 0 \in S
  BY <1>1, <1>8 DEF X
<1>11. ASSUME NEW i \in 1 .. n, i - 1 \in S PROVE i \in S
  <2> DEFINE u == iter[1 .. i - 1]
             q == iter[1 .. i]
  <2>1. i - 1 \in 0 .. n /\ i \in 0 .. n /\ i \in Nat
    BY <1>1
  <2>2. Good(u, i - 1) /\ s[i] \in Groups /\ q = StartGroup(u, s[i])
    BY <1>1, <1>9, <1>11
  <2> HIDE DEF u, q
  <2>3. \A k \in 1 .. i - 1 : k \in 1 .. n /\ k # i /\ k \in 1 .. i
    BY <1>1
  <2>4. s[i] \notin u.attached
    BY <1>1, <2>2, <2>3
  <2>5. /\ q \in X /\ q.attached = u.attached \union {s[i]}
        /\ \A h \in Groups : Fine(q, running, h)
    BY <2>2, <2>4, StartGroupKeeps DEF X
  <2>6. i \in 1 .. i
    OBVIOUS
  <2>7. Good(q, i)
    BY <2>2, <2>3, <2>5, <2>6
  <2> HIDE DEF Good
  <2> QED BY <2>1, <2>7 DEF q
<1>12. n \in S
  <2> HIDE DEF S
  <2>1. 0 .. n \subseteq S
    BY <1>1, <1>10, <1>11, TraceInduction
  <2> QED BY <1>1, <2>1
<1> QED BY <1>7, <1>12 DEF X
-----------------------------------------------------------------------------
(***************************************************************************)
(* The inductive invariant.                                                *)
(***************************************************************************)

(* The slots that a resource owes to jobs that have left the main queue.   *)
Held == [r \in Resources |-> JobsRunning(r) + lost[r]]

PollingInv ==
  /\ Tidy(Polling)
  /\ \A g \in Groups \ disturbed : LoopOf(Polling, running, g)
  /\ \A g \in attached : Lossless(g) =>
       Armed(Polling, g) /\ (stopAt = 0 => Answered(Polling, running, g))

(* Only the groups that a stop() has not reached are polled, and every     *)
(* limiter is started unless a stop() has begun.                           *)
ControlInv ==
  /\ stopAt \in Nat
  /\ isRunning => attached \subseteq {GroupSeq[i] : i \in stopAt + 1 .. Len(GroupSeq)}
  /\ isRunning /\ stopAt = 0 => limiterOn = Resources
  /\ ~isRunning => stopAt = 0 /\ attached = {}

HandlersInv ==
  /\ running \in Runs
  /\ IsFiniteSet(Handlers)
  /\ mainTaken = Cardinality(Handlers)
  /\ mainTaken <= MainConcurrency

SlotInv == lost \in [Resources -> Nat] /\ Slots(Polling, Held)

(* No chain is lost but with a job that stop() cleared. *)
ChainInv ==
  /\ awaited \in Runs /\ \A task \in Tasks : awaited[task] <= running[task]
  /\ Linked(Polling, awaited, lost)
  /\ stopAt = 0 => Guarded(Polling, awaited, lost)

IInv == PollingInv /\ ControlInv /\ HandlersInv /\ SlotInv /\ ChainInv

LEMMA HeldType ==
  ASSUME HandlersInv, lost \in [Resources -> Nat]
  PROVE  /\ Held \in [Resources -> Nat]
         /\ \A r \in Resources : /\ IsFiniteSet({h \in Handlers : Home(h[1]) = r})
                                 /\ JobsRunning(r) \in Nat
<1>1. ASSUME NEW r \in Resources
      PROVE  IsFiniteSet({h \in Handlers : Home(h[1]) = r}) /\ JobsRunning(r) \in Nat
  <2>1. IsFiniteSet({h \in Handlers : Home(h[1]) = r})
    <3>1. {h \in Handlers : Home(h[1]) = r} \subseteq Handlers /\ IsFiniteSet(Handlers)
      BY DEF HandlersInv
    <3> QED BY <3>1, FS_Subset
  <2> QED BY <2>1, FS_CardinalityType DEF JobsRunning
<1>2. ASSUME NEW r \in Resources PROVE JobsRunning(r) + lost[r] \in Nat
  <2>1. lost[r] \in Nat
    OBVIOUS
  <2>2. JobsRunning(r) \in Nat
    BY <1>1
  <2> QED BY <2>1, <2>2
<1> QED BY <1>1, <1>2 DEF Held

(* Of a step that starts no handler and ends none. *)
LEMMA QuietStep ==
  ASSUME HandlersInv, lost \in [Resources -> Nat], UNCHANGED <<running, mainTaken, lost>>
  PROVE  HandlersInv' /\ lost' \in [Resources -> Nat] /\ Held' = Held
<1>1. Handlers' = Handlers
  BY DEF Handlers
<1>2. \A r \in Resources : JobsRunning(r)' = JobsRunning(r)
  BY <1>1 DEF JobsRunning
<1> QED BY <1>1, <1>2 DEF HandlersInv, Held

(* The polling groups after a step, as a record. *)
LEMMA PollingNext ==
  ASSUME NEW q, q = Polling', NEW run, run = running', Tidy(q),
         \A g \in Groups \ q.disturbed : LoopOf(q, run, g),
         \A g \in q.attached : Lossless(g) =>
           Armed(q, g) /\ (stopAt' = 0 => Answered(q, run, g))
  PROVE  PollingInv'
<1>1. attached' = q.attached /\ disturbed' = q.disturbed
  BY DEF Polling
<1>2. Tidy(Polling)'
  BY DEF Tidy
<1>3. ASSUME NEW g \in Groups \ disturbed' PROVE LoopOf(Polling, running, g)'
  <2>1. LoopOf(q, run, g)
    BY <1>1
  <2> QED BY <2>1 DEF LoopOf, Flights
<1>4. ASSUME NEW g \in attached', Lossless(g)
      PROVE  Armed(Polling, g)' /\ (stopAt' = 0 => Answered(Polling, running, g)')
  <2>1. Armed(q, g) /\ (stopAt' = 0 => Answered(q, run, g))
    BY <1>1, <1>4
  <2>2. Armed(Polling, g)'
    BY <2>1 DEF Armed
  <2>3. stopAt' = 0 => Answered(Polling, running, g)'
    BY <2>1 DEF Answered, Flights
  <2> QED BY <2>2, <2>3
<1> QED BY <1>2, <1>3, <1>4 DEF PollingInv, Lossless

(* The chains after a step, likewise. *)
LEMMA ChainNext ==
  ASSUME NEW q, q = Polling', NEW aw, aw = awaited', NEW ls, ls = lost',
         aw \in Runs, \A task \in Tasks : aw[task] <= running'[task],
         Linked(q, aw, ls), stopAt' = 0 => Guarded(q, aw, ls)
  PROVE  ChainInv'
<1>1. q.attached = attached'
  BY DEF Polling
<1>2. Linked(Polling, awaited, lost)'
  BY DEF Linked, Full, Awaits
<1>3. stopAt' = 0 => Guarded(Polling, awaited, lost)'
  BY DEF Guarded, Watched, Awaits
<1> QED BY <1>2, <1>3 DEF ChainInv, Runs

(* A scan, or several. *)
LEMMA FineStep ==
  ASSUME IInv, NEW q, PollingBecomes(q), Tidy(q), Slots(q, Held),
         \A h \in Groups : Fine(q, running, h),
         Linked(q, awaited, lost), Guarded(q, awaited, lost),
         UNCHANGED <<running, mainTaken, lost, awaited>>, ControlInv'
  PROVE  IInv'
<1>1. Polling' = q
  BY DEF PollingBecomes, Polling, Tidy, PollingStates
<1>2. HandlersInv' /\ lost' \in [Resources -> Nat] /\ Held' = Held
  BY QuietStep DEF IInv, SlotInv
<1>3. Slots(Polling, Held)'
  BY <1>1, <1>2 DEF Slots
<1>4. q.attached \subseteq Groups
  BY DEF Tidy, PollingStates
<1>5. PollingInv'
  BY <1>1, <1>4, PollingNext DEF Fine
<1>6. ChainInv'
  <2>1. awaited = awaited' /\ lost = lost' /\ running' = running
    OBVIOUS
  <2>2. awaited \in Runs /\ \A task \in Tasks : awaited[task] <= running'[task]
    BY <2>1 DEF IInv, ChainInv
  <2> QED BY <1>1, <2>1, <2>2, ChainNext
<1> QED BY <1>2, <1>3, <1>5, <1>6 DEF IInv, SlotInv

LEMMA PollingFields ==
  /\ Polling.attached = attached /\ Polling.scanTimer = scanTimer /\ Polling.orphans = orphans
  /\ Polling.pending = pending /\ Polling.slow = slow /\ Polling.queue = queue
  /\ Polling.disturbed = disturbed /\ Polling.taken = taken /\ Polling.mainQueue = mainQueue
  /\ Polling.looks = looks /\ Polling.mainAwaited = mainAwaited
BY DEF Polling

LEMMA GroupNumbers ==
  /\ Len(GroupSeq) \in Nat /\ \A i \in 1 .. Len(GroupSeq) : GroupSeq[i] \in Groups
  /\ \A g \in Groups : \E i \in 1 .. Len(GroupSeq) : g = GroupSeq[i]
<1>1. GroupSeq \in Seq(Groups)
  BY SchedulerAssumption
<1>2. Len(GroupSeq) \in Nat /\ \A i \in 1 .. Len(GroupSeq) : GroupSeq[i] \in Groups
  BY <1>1
<1>3. DOMAIN GroupSeq = 1 .. Len(GroupSeq)
  BY <1>1
<1>4. \A g \in Groups : \E i \in 1 .. Len(GroupSeq) : g = GroupSeq[i]
  BY <1>3 DEF Groups, ToSet
<1> QED BY <1>2, <1>4

LEMMA InitInv == Init => IInv
<1> SUFFICES ASSUME Init PROVE IInv
  OBVIOUS
<1> USE DEF Init
<1>1. Polling \in PollingStates
  <2>1. /\ attached \in SUBSET Groups /\ scanTimer \in SUBSET Groups
        /\ orphans \in [Groups -> Nat] /\ pending \in [Groups -> SUBSET Tasks]
        /\ slow \in SUBSET Tasks /\ disturbed \in SUBSET Groups
    OBVIOUS
  <2>2. <<>> \in Seq(Tasks)
    OBVIOUS
  <2>3. /\ queue \in [Resources -> Seq(Tasks)] /\ taken \in [Resources -> Int]
        /\ looks \in [Resources -> Nat] /\ mainQueue \in Seq(Tasks)
    BY <2>2
  <2>4. mainAwaited \in Seq(BOOLEAN)
    OBVIOUS
  <2> HIDE DEF Init
  <2> QED BY <2>1, <2>3, <2>4 DEF Polling, PollingStates
<1>2. Tidy(Polling)
  <2>1. \A r \in Resources : queue[r] = <<>>
    OBVIOUS
  <2>2. \A r \in Resources : \A i \in DOMAIN queue[r] : Home(queue[r][i]) = r
    BY <2>1
  <2> QED BY <1>1, <2>2, PollingFields DEF Tidy
<1>3. ASSUME NEW task \in Tasks PROVE Flights(Polling, running, task) = 0
  <2>1. queue[Home(task)] = <<>> /\ mainQueue = <<>> /\ running[task] = 0
    BY TaskFacts
  <2>2. Num(<<>>, {task}) = 0
    BY NumEmpty
  <2> HIDE DEF Init
  <2> QED BY <2>1, <2>2, PollingFields DEF Flights
<1>4. ASSUME NEW g \in Groups PROVE LoopOf(Polling, running, g)
  <2>1. \A e \in ToSet(Entries[g]) : Flights(Polling, running, e) = 0
    BY <1>3, EntryFacts
  <2> QED BY <2>1, PollingFields DEF LoopOf
<1>5. PollingInv
  BY <1>2, <1>4 DEF PollingInv
<1>6. Handlers = {}
  <2>1. \A task \in Tasks : {task} \X (1 .. running[task]) = {}
    OBVIOUS
  <2> QED BY <2>1 DEF Handlers
<1>7. HandlersInv
  BY <1>6, FS_EmptySet, SchedulerAssumption DEF HandlersInv, Runs
<1>8. ControlInv
  BY DEF ControlInv
<1>9. SlotInv
  <2>1. lost \in [Resources -> Nat] /\ Held \in [Resources -> Nat]
    BY <1>7, HeldType
  <2>2. ASSUME NEW r \in Resources
        PROVE  Polling.taken[r] = JobsOf(r, Polling.mainQueue) + Held[r]
               /\ Polling.taken[r] <= Concurrency[r]
    <3>1. {h \in Handlers : Home(h[1]) = r} = {}
      BY <1>6
    <3>2. JobsRunning(r) = 0
      BY <3>1, FS_EmptySet DEF JobsRunning
    <3>3. Held[r] = 0
      BY <3>2 DEF Held
    <3>4. JobsOf(r, <<>>) = 0
      <4>1. <<>> \in Seq(Tasks)
        OBVIOUS
      <4> QED BY <4>1, JobsOfNum, NumEmpty
    <3>5. Concurrency[r] \in Nat /\ taken[r] = 0 /\ mainQueue = <<>>
      BY SchedulerAssumption
    <3> HIDE DEF Init
    <3> QED BY <3>3, <3>4, <3>5, PollingFields
  <2> QED BY <2>1, <2>2 DEF SlotInv, Slots
<1>10. ChainInv
  <2>1. awaited \in Runs /\ \A task \in Tasks : awaited[task] <= running[task]
    BY DEF Runs
  <2>2. \A r \in Resources : taken[r] = 0 /\ Concurrency[r] \in Nat \ {0}
    BY SchedulerAssumption
  <2>3. mainAwaited = <<>> /\ mainQueue = <<>> /\ attached = {}
    OBVIOUS
  <2> HIDE DEF Init
  <2>4. Linked(Polling, awaited, lost)
    BY <2>2, <2>3, PollingFields DEF Linked, Full
  <2>5. Guarded(Polling, awaited, lost)
    BY <2>3, PollingFields DEF Guarded
  <2> QED BY <2>1, <2>4, <2>5 DEF ChainInv
<1> QED BY <1>5, <1>7, <1>8, <1>9, <1>10 DEF IInv

LEMMA StartStep == IInv /\ Start => IInv'
<1> SUFFICES ASSUME IInv, Start PROVE IInv'
  OBVIOUS
<1> DEFINE q == StartGroups(Polling)
<1>1. attached = {} /\ stopAt = 0 /\ running \in Runs
  BY DEF IInv, ControlInv, HandlersInv, Start
<1>2. Held \in [Resources -> Nat]
  BY HeldType DEF IInv, SlotInv
<1>3. Polling \in Started(Held, awaited, lost)
  BY <1>1 DEF IInv, PollingInv, SlotInv, ChainInv, Started, Tidy
<1>4. \A g \in Groups : Fine(Polling, running, g)
  BY <1>1, PollingFields DEF IInv, PollingInv, Fine
<1>5. q \in Started(Held, awaited, lost) /\ \A g \in Groups : Fine(q, running, g)
  <2>1. Polling.attached = {}
    BY <1>1, PollingFields
  <2> QED BY <1>1, <1>2, <1>3, <1>4, <2>1, StartsKeep
<1>6. /\ PollingBecomes(q) /\ UNCHANGED <<running, mainTaken, lost, awaited, stopAt>>
      /\ isRunning' = TRUE /\ limiterOn' = Resources
  BY DEF Start
<1> HIDE DEF q
<1>7. Tidy(q) /\ Slots(q, Held) /\ Linked(q, awaited, lost) /\ Guarded(q, awaited, lost)
  BY <1>5 DEF Started
<1>8. ControlInv'
  <2>1. attached' \subseteq Groups
    BY <1>6, <1>7 DEF PollingBecomes, Tidy, PollingStates
  <2>2. \A g \in Groups : g \in {GroupSeq[i] : i \in 1 .. Len(GroupSeq)}
    BY GroupNumbers
  <2>3. stopAt' = 0 /\ 0 + 1 = 1
    BY <1>1, <1>6
  <2> QED BY <1>6, <2>1, <2>2, <2>3 DEF ControlInv
<1> QED BY <1>5, <1>6, <1>7, <1>8, FineStep

LEMMA ScanTimerStep == \A g \in Groups : IInv /\ ScanTimer(g) => IInv'
<1> SUFFICES ASSUME NEW g \in Groups, IInv, ScanTimer(g) PROVE IInv'
  OBVIOUS
<1> DEFINE p == [Polling EXCEPT !.scanTimer = scanTimer \ {g}]
           q == Scan(p, g)
<1>1. /\ Tidy(Polling) /\ running \in Runs /\ stopAt = 0
      /\ g \in scanTimer /\ g \in attached
  BY PollingFields DEF IInv, PollingInv, HandlersInv, ScanTimer, Tidy
<1>2. /\ p \in PollingStates /\ p.scanTimer = scanTimer \ {g}
      /\ p.attached = attached /\ p.orphans = orphans /\ p.pending = pending /\ p.slow = slow
      /\ p.disturbed = disturbed
      /\ p.queue = queue /\ p.taken = taken /\ p.mainQueue = mainQueue
      /\ p.looks = looks /\ p.mainAwaited = mainAwaited
  BY <1>1 DEF Polling, Tidy, PollingStates
<1>3. PollingBecomes(q)
  BY PollingFields DEF ScanTimer
<1> HIDE DEF p
<1>4. \A task \in Tasks : Flights(p, running, task) = Flights(Polling, running, task)
  BY <1>2, PollingFields DEF Flights
<1>5. Tidy(p)
  BY <1>1, <1>2, PollingFields DEF Tidy
<1>6. ASSUME NEW h \in Groups \ {g} PROVE Fine(p, running, h)
  <2>1. \A e \in ToSet(Entries[h]) : Flights(p, running, e) = Flights(Polling, running, e)
    BY <1>4, EntryFacts
  <2>2. pending[h] \subseteq Tasks
    BY <1>2, StateTypes
  <2>3. h \notin p.disturbed => LoopOf(p, running, h)
    BY <1>2, <2>1, PollingFields DEF IInv, PollingInv, LoopOf
  <2>4. h \in p.attached /\ Lossless(h) => Armed(p, h) /\ Answered(p, running, h)
    BY <1>1, <1>2, <1>4, <2>2, PollingFields DEF IInv, PollingInv, Armed, Answered
  <2> QED BY <2>3, <2>4 DEF Fine
<1>7. g \notin p.disturbed => p.orphans[g] = 0 /\ g \notin p.scanTimer
  BY <1>2, PollingFields DEF IInv, PollingInv, LoopOf
<1>8. ScanFacts(p, g, q)
  BY <1>1, <1>5, <1>6, <1>7, ScanKeeps
<1> HIDE DEF q
<1>9. Slots(q, Held)
  BY <1>2, <1>8, PollingFields DEF IInv, SlotInv, Slots, ScanFacts
<1>10. UNCHANGED <<running, mainTaken, lost, awaited, isRunning, stopAt, limiterOn, attached>>
  BY <1>2, <1>3, <1>8 DEF ScanTimer, PollingBecomes, ScanFacts
<1>11. ControlInv'
  BY <1>10 DEF IInv, ControlInv
<1>12. Linked(p, awaited, lost) /\ Guarded(p, awaited, lost)
  BY <1>1, <1>2, PollingFields DEF IInv, ChainInv, Linked, Guarded, Full, Watched, Awaits
<1>13. Linked(q, awaited, lost) /\ Guarded(q, awaited, lost)
  BY <1>5, <1>12, ScanTidy DEF q
<1> QED BY <1>3, <1>8, <1>9, <1>10, <1>11, <1>13, FineStep DEF ScanFacts

LEMMA OrphanTimerStep == \A g \in Groups : IInv /\ OrphanTimer(g) => IInv'
<1> SUFFICES ASSUME NEW g \in Groups, IInv, OrphanTimer(g) PROVE IInv'
  OBVIOUS
<1> DEFINE p == [Polling EXCEPT !.orphans = [orphans EXCEPT ![g] = orphans[g] - 1]]
           q == Scan(p, g)
<1>1. /\ Tidy(Polling) /\ running \in Runs /\ stopAt = 0
      /\ orphans \in [Groups -> Nat] /\ orphans[g] > 0
  BY PollingFields, StateTypes DEF IInv, PollingInv, HandlersInv, OrphanTimer, Tidy
<1>2. [orphans EXCEPT ![g] = orphans[g] - 1] \in [Groups -> Nat]
  BY <1>1
<1>3. /\ p \in PollingStates /\ p.orphans = [orphans EXCEPT ![g] = orphans[g] - 1]
      /\ p.attached = attached /\ p.scanTimer = scanTimer /\ p.pending = pending
      /\ p.slow = slow /\ p.disturbed = disturbed
      /\ p.queue = queue /\ p.taken = taken /\ p.mainQueue = mainQueue
      /\ p.looks = looks /\ p.mainAwaited = mainAwaited
  BY <1>1, <1>2 DEF Polling, Tidy, PollingStates
<1>4. PollingBecomes(q)
  BY PollingFields DEF OrphanTimer
<1> HIDE DEF p
<1>5. \A task \in Tasks : Flights(p, running, task) = Flights(Polling, running, task)
  BY <1>3, PollingFields DEF Flights
<1>6. Tidy(p)
  BY <1>1, <1>3, PollingFields DEF Tidy
<1>7. ASSUME NEW h \in Groups \ {g} PROVE Fine(p, running, h)
  <2>1. \A e \in ToSet(Entries[h]) : Flights(p, running, e) = Flights(Polling, running, e)
    BY <1>5, EntryFacts
  <2>2. pending[h] \subseteq Tasks /\ p.orphans[h] = orphans[h]
    BY <1>1, <1>3, StateTypes
  <2>3. h \notin p.disturbed => LoopOf(p, running, h)
    BY <1>3, <2>1, <2>2, PollingFields DEF IInv, PollingInv, LoopOf
  <2>4. h \in p.attached /\ Lossless(h) => Armed(p, h) /\ Answered(p, running, h)
    BY <1>1, <1>3, <1>5, <2>2, PollingFields DEF IInv, PollingInv, Armed, Answered
  <2> QED BY <2>3, <2>4 DEF Fine
<1>8. g \in p.disturbed
  <2>1. g \notin disturbed => orphans[g] = 0
    BY PollingFields DEF IInv, PollingInv, LoopOf
  <2> QED BY <1>1, <1>3, <2>1
<1>9. ScanFacts(p, g, q)
  BY <1>1, <1>6, <1>7, <1>8, ScanKeeps
<1> HIDE DEF q
<1>10. Slots(q, Held)
  BY <1>3, <1>9, PollingFields DEF IInv, SlotInv, Slots, ScanFacts
<1>11. UNCHANGED <<running, mainTaken, lost, awaited, isRunning, stopAt, limiterOn, attached>>
  BY <1>3, <1>4, <1>9 DEF OrphanTimer, PollingBecomes, ScanFacts
<1>12. ControlInv'
  BY <1>11 DEF IInv, ControlInv
<1>13. Linked(p, awaited, lost) /\ Guarded(p, awaited, lost)
  BY <1>1, <1>3, PollingFields DEF IInv, ChainInv, Linked, Guarded, Full, Watched, Awaits
<1>14. Linked(q, awaited, lost) /\ Guarded(q, awaited, lost)
  BY <1>6, <1>13, ScanTidy DEF q
<1> QED BY <1>4, <1>9, <1>10, <1>11, <1>12, <1>14, FineStep DEF ScanFacts

(* A handler that starts, or ends, is the last one of its task. *)
LEMMA HandlerStarts ==
  ASSUME HandlersInv, NEW t \in Tasks, running' = [running EXCEPT ![t] = @ + 1]
  PROVE  /\ running' \in Runs /\ IsFiniteSet(Handlers')
         /\ Cardinality(Handlers') = Cardinality(Handlers) + 1
         /\ \A r \in Resources :
              JobsRunning(r)' = JobsRunning(r) + (IF Home(t) = r THEN 1 ELSE 0)
<1> DEFINE new == <<t, running[t] + 1>>
<1>1. running \in [Tasks -> Nat] /\ IsFiniteSet(Handlers)
  BY DEF HandlersInv, Runs
<1>2. \A h : h \in Handlers <=> \E task \in Tasks : \E k \in 1 .. running[task] : h = <<task, k>>
  BY DEF Handlers
<1>3. \A h : h \in Handlers' <=> \E task \in Tasks : \E k \in 1 .. running'[task] : h = <<task, k>>
  BY DEF Handlers
<1>4. running'[t] = running[t] + 1 /\ \A task \in Tasks : task # t => running'[task] = running[task]
  BY <1>1
<1>5. new \notin Handlers
  BY <1>1, <1>2
<1>6. Handlers' = Handlers \union {new}
  <2>1. ASSUME NEW h \in Handlers' PROVE h \in Handlers \union {new}
    <3> PICK task \in Tasks : \E k \in 1 .. running'[task] : h = <<task, k>>
      BY <1>3
    <3>1. PICK k \in 1 .. running'[task] : h = <<task, k>>
      OBVIOUS
    <3>2. CASE task # t
      BY <1>2, <1>4, <3>1, <3>2
    <3>3. CASE task = t
      <4>1. running[t] \in Nat
        BY <1>1
      <4>2. k \in 1 .. running[t] \/ k = running[t] + 1
        BY <1>4, <3>1, <3>3, <4>1
      <4> QED BY <1>2, <3>1, <3>3, <4>2
    <3> QED BY <3>2, <3>3
  <2>2. ASSUME NEW h \in Handlers PROVE h \in Handlers'
    <3> PICK task \in Tasks : \E k \in 1 .. running[task] : h = <<task, k>>
      BY <1>2
    <3>1. PICK k \in 1 .. running[task] : h = <<task, k>>
      OBVIOUS
    <3>2. k \in 1 .. running'[task]
      <4>1. running[task] \in Nat
        BY <1>1
      <4> QED BY <1>4, <4>1
    <3> QED BY <1>3, <3>1, <3>2
  <2>3. new \in Handlers'
    <3>1. running[t] \in Nat
      BY <1>1
    <3>2. running[t] + 1 \in 1 .. running'[t]
      BY <1>4, <3>1
    <3> QED BY <1>3, <3>2
  <2> QED BY <2>1, <2>2, <2>3
<1>7. new[1] = t
  OBVIOUS
<1> HIDE DEF new
<1>8. IsFiniteSet(Handlers') /\ Cardinality(Handlers') = Cardinality(Handlers) + 1
  BY <1>1, <1>5, <1>6, FS_AddElement
<1>9. ASSUME NEW r \in Resources
      PROVE  JobsRunning(r)' = JobsRunning(r) + (IF Home(t) = r THEN 1 ELSE 0)
  <2> DEFINE old == {h \in Handlers : Home(h[1]) = r}
             now == {h \in Handlers' : Home(h[1]) = r}
  <2>1. IsFiniteSet(old)
    <3>1. old \subseteq Handlers
      OBVIOUS
    <3> QED BY <1>1, <3>1, FS_Subset
  <2>2. JobsRunning(r) = Cardinality(old) /\ JobsRunning(r)' = Cardinality(now)
    BY DEF JobsRunning
  <2>3. Cardinality(old) \in Nat
    BY <2>1, FS_CardinalityType
  <2>4. CASE Home(t) = r
    <3>1. now = old \union {new} /\ new \notin old
      BY <1>5, <1>6, <1>7, <2>4
    <3> HIDE DEF old, now
    <3>2. Cardinality(now) = Cardinality(old) + 1
      BY <2>1, <3>1, FS_AddElement
    <3> QED BY <2>2, <2>4, <3>2
  <2>5. CASE Home(t) # r
    <3>1. now = old
      BY <1>6, <1>7, <2>5
    <3> HIDE DEF old, now
    <3> QED BY <2>2, <2>3, <2>5, <3>1
  <2> QED BY <2>4, <2>5
<1>10. running' \in Runs
  BY <1>1 DEF Runs
<1> QED BY <1>8, <1>9, <1>10

LEMMA HandlerEnds ==
  ASSUME HandlersInv, NEW t \in Tasks, running[t] > 0, running' = [running EXCEPT ![t] = @ - 1]
  PROVE  /\ running' \in Runs /\ IsFiniteSet(Handlers')
         /\ Cardinality(Handlers') = Cardinality(Handlers) - 1
         /\ \A r \in Resources :
              JobsRunning(r)' = JobsRunning(r) - (IF Home(t) = r THEN 1 ELSE 0)
<1> DEFINE last == <<t, running[t]>>
<1>1. running \in [Tasks -> Nat] /\ IsFiniteSet(Handlers)
  BY DEF HandlersInv, Runs
<1>2. \A h : h \in Handlers <=> \E task \in Tasks : \E k \in 1 .. running[task] : h = <<task, k>>
  BY DEF Handlers
<1>3. \A h : h \in Handlers' <=> \E task \in Tasks : \E k \in 1 .. running'[task] : h = <<task, k>>
  BY DEF Handlers
<1>4. running'[t] = running[t] - 1 /\ \A task \in Tasks : task # t => running'[task] = running[task]
  BY <1>1
<1>5. running[t] \in Nat /\ last \in Handlers
  <2>1. running[t] \in Nat
    BY <1>1
  <2>2. running[t] \in 1 .. running[t]
    BY <2>1
  <2> QED BY <1>2, <2>1, <2>2
<1>6. Handlers' = Handlers \ {last}
  <2>1. ASSUME NEW h \in Handlers' PROVE h \in Handlers \ {last}
    <3> PICK task \in Tasks : \E k \in 1 .. running'[task] : h = <<task, k>>
      BY <1>3
    <3>1. PICK k \in 1 .. running'[task] : h = <<task, k>>
      OBVIOUS
    <3>2. CASE task # t
      BY <1>2, <1>4, <3>1, <3>2
    <3>3. CASE task = t
      <4>1. k \in 1 .. running[t] /\ k # running[t]
        BY <1>4, <1>5, <3>1, <3>3
      <4> QED BY <1>2, <3>1, <3>3, <4>1
    <3> QED BY <3>2, <3>3
  <2>2. ASSUME NEW h \in Handlers, h # last PROVE h \in Handlers'
    <3> PICK task \in Tasks : \E k \in 1 .. running[task] : h = <<task, k>>
      BY <1>2
    <3>1. PICK k \in 1 .. running[task] : h = <<task, k>>
      OBVIOUS
    <3>2. k \in 1 .. running'[task]
      <4>1. CASE task = t
        BY <1>4, <1>5, <2>2, <3>1, <4>1
      <4>2. CASE task # t
        BY <1>4, <3>1, <4>2
      <4> QED BY <4>1, <4>2
    <3> QED BY <1>3, <3>1, <3>2
  <2> QED BY <2>1, <2>2
<1>7. last[1] = t
  OBVIOUS
<1> HIDE DEF last
<1>8. IsFiniteSet(Handlers') /\ Cardinality(Handlers') = Cardinality(Handlers) - 1
  BY <1>1, <1>5, <1>6, FS_RemoveElement
<1>9. ASSUME NEW r \in Resources
      PROVE  JobsRunning(r)' = JobsRunning(r) - (IF Home(t) = r THEN 1 ELSE 0)
  <2> DEFINE old == {h \in Handlers : Home(h[1]) = r}
             now == {h \in Handlers' : Home(h[1]) = r}
  <2>1. IsFiniteSet(old)
    <3>1. old \subseteq Handlers
      OBVIOUS
    <3> QED BY <1>1, <3>1, FS_Subset
  <2>2. JobsRunning(r) = Cardinality(old) /\ JobsRunning(r)' = Cardinality(now)
    BY DEF JobsRunning
  <2>3. Cardinality(old) \in Nat
    BY <2>1, FS_CardinalityType
  <2>4. CASE Home(t) = r
    <3>1. now = old \ {last} /\ last \in old
      BY <1>5, <1>6, <1>7, <2>4
    <3> HIDE DEF old, now
    <3>2. Cardinality(now) = Cardinality(old) - 1
      BY <2>1, <3>1, FS_RemoveElement
    <3> QED BY <2>2, <2>4, <3>2
  <2>5. CASE Home(t) # r
    <3>1. now = old
      BY <1>6, <1>7, <2>5
    <3> HIDE DEF old, now
    <3> QED BY <2>2, <2>3, <2>5, <3>1
  <2> QED BY <2>4, <2>5
<1>10. running' \in Runs
  <2>1. running[t] - 1 \in Nat
    BY <1>5
  <2> QED BY <1>1, <2>1 DEF Runs
<1> QED BY <1>8, <1>9, <1>10

LEMMA StopStep == IInv /\ Stop => IInv'
<1> SUFFICES ASSUME IInv, Stop PROVE IInv'
  OBVIOUS
<1> DEFINE g == GroupSeq[stopAt + 1]
           r == ResourceOf[g]
           empty == [queue EXCEPT ![r] = <<>>]
<1>1. PICK q : q = Polling'
  OBVIOUS
<1>2. /\ stopAt \in Nat /\ stopAt + 1 \in 1 .. Len(GroupSeq) /\ stopAt' = stopAt + 1
      /\ isRunning /\ isRunning' = isRunning
      /\ attached \subseteq {GroupSeq[i] : i \in stopAt + 1 .. Len(GroupSeq)}
  BY GroupNumbers DEF IInv, ControlInv, Stop
<1>3. g \in Groups /\ r \in Resources
  BY <1>2, GroupNumbers DEF Resources
<1>4. /\ Tidy(Polling) /\ Polling \in PollingStates
      /\ queue \in [Resources -> Seq(Tasks)] /\ mainQueue \in Seq(Tasks) /\ running \in Runs
      /\ attached \in SUBSET Groups /\ scanTimer \in SUBSET Groups
  BY PollingFields, StateTypes DEF IInv, PollingInv, HandlersInv, Tidy
<1>5. /\ q.attached = attached \ {g} /\ q.scanTimer = scanTimer \ {g} /\ q.queue = empty
      /\ q.orphans = orphans /\ q.pending = pending /\ q.slow = slow
      /\ q.disturbed = disturbed /\ q.taken = taken /\ q.looks = looks
      /\ q.mainQueue = mainQueue /\ q.mainAwaited = mainAwaited
      /\ UNCHANGED <<running, mainTaken, lost, awaited>>
  BY <1>1 DEF Polling, Stop, StopGroup
<1>6. empty \in [Resources -> Seq(Tasks)] /\ empty[r] = <<>>
  <2>1. <<>> \in Seq(Tasks)
    OBVIOUS
  <2> QED BY <1>3, <1>4, <2>1
<1>7. q \in PollingStates
  <2>1. q = [attached |-> attached \ {g}, scanTimer |-> scanTimer \ {g},
             orphans |-> orphans, pending |-> pending, slow |-> slow, queue |-> empty,
             looks |-> looks, disturbed |-> disturbed, taken |-> taken,
             mainQueue |-> mainQueue, mainAwaited |-> mainAwaited]
    <3>1. /\ attached' = attached \ {g} /\ scanTimer' = scanTimer \ {g} /\ queue' = empty
          /\ UNCHANGED <<orphans, pending, slow, looks, disturbed, taken, mainQueue, mainAwaited>>
      BY DEF Stop, StopGroup
    <3> HIDE DEF empty, g
    <3> QED BY <1>1, <3>1 DEF Polling
  <2> HIDE DEF empty, g
  <2> QED BY <1>4, <1>6, <2>1, StateTypes, PollingFields DEF PollingStates
<1>8. Tidy(q)
  <2>1. ASSUME NEW o \in Resources, NEW i \in DOMAIN empty[o] PROVE Home(empty[o][i]) = o
    <3>1. CASE o = r
      BY <1>6, <2>1, <3>1
    <3>2. CASE o # r
      <4>1. empty[o] = queue[o]
        BY <1>4, <3>2
      <4> QED BY <1>4, <2>1, <4>1, PollingFields DEF Tidy
    <3> QED BY <3>1, <3>2
  <2> HIDE DEF empty
  <2> QED BY <1>4, <1>5, <1>7, <2>1, PollingFields DEF Tidy
<1>9. ASSUME NEW task \in Tasks
      PROVE  /\ Flights(q, running, task) <= Flights(Polling, running, task)
             /\ Flights(q, running, task) \in Nat /\ Flights(Polling, running, task) \in Nat
  <2> DEFINE x == Num(empty[Home(task)], {task})
             y == Num(queue[Home(task)], {task})
             z == Num(mainQueue, {task})
  <2>1. x \in Nat /\ y \in Nat /\ z \in Nat /\ running[task] \in Nat
    BY <1>4, <1>6, TaskFacts, NumType DEF Runs
  <2>2. x <= y
    <3>1. CASE Home(task) = r
      <4>1. x = 0
        BY <1>6, <3>1, NumEmpty
      <4> QED BY <2>1, <4>1
    <3>2. CASE Home(task) # r
      <4>1. empty[Home(task)] = queue[Home(task)]
        BY <1>4, <3>2, TaskFacts
      <4> QED BY <2>1, <4>1
    <3> QED BY <3>1, <3>2
  <2>3. /\ Flights(q, running, task) = x + z + running[task]
        /\ Flights(Polling, running, task) = y + z + running[task]
    BY <1>5, PollingFields DEF Flights
  <2> HIDE DEF x, y, z
  <2> QED BY <2>1, <2>2, <2>3
<1>10. ASSUME NEW h \in Groups \ q.disturbed PROVE LoopOf(q, running, h)
  <2>1. LoopOf(Polling, running, h)
    BY <1>5 DEF IInv, PollingInv
  <2>2. ASSUME NEW e \in ToSet(Entries[h])
        PROVE  Flights(q, running, e) <= 1 /\ (Flights(q, running, e) > 0 => e \in q.pending[h])
    <3>1. e \in Tasks
      BY EntryFacts
    <3>2. /\ Flights(Polling, running, e) <= 1
          /\ Flights(Polling, running, e) > 0 => e \in pending[h]
      BY <2>1, PollingFields DEF LoopOf
    <3> QED BY <1>5, <1>9, <3>1, <3>2
  <2> QED BY <1>5, <2>1, <2>2, PollingFields DEF LoopOf
<1>11. ASSUME NEW h \in q.attached, Lossless(h) PROVE Armed(q, h)
  <2>1. Armed(Polling, h)
    BY <1>5, <1>11 DEF IInv, PollingInv
  <2> QED BY <1>5, <2>1, PollingFields DEF Armed
<1>12. PollingInv'
  <2>1. running = running' /\ stopAt' # 0
    BY <1>2, <1>5
  <2> QED BY <1>1, <1>8, <1>10, <1>11, <2>1, PollingNext
<1>13. ControlInv'
  <2>1. ASSUME NEW h \in attached \ {g}
        PROVE  h \in {GroupSeq[i] : i \in stopAt + 1 + 1 .. Len(GroupSeq)}
    <3>1. PICK i \in stopAt + 1 .. Len(GroupSeq) : h = GroupSeq[i]
      BY <1>2
    <3>2. i \in stopAt + 1 + 1 .. Len(GroupSeq)
      BY <1>2, <3>1, GroupNumbers
    <3> QED BY <3>1, <3>2
  <2>2. attached' = attached \ {g} /\ stopAt' \in Nat
    BY <1>2 DEF Stop, StopGroup
  <2> HIDE DEF g
  <2> QED BY <1>2, <2>1, <2>2 DEF ControlInv
<1>14. HandlersInv' /\ SlotInv'
  <2>1. HandlersInv' /\ lost' \in [Resources -> Nat] /\ Held' = Held
    BY <1>5, QuietStep DEF IInv, SlotInv
  <2>2. Polling.taken = taken /\ Polling.mainQueue = mainQueue
    BY PollingFields
  <2>3. Polling'.taken = taken /\ Polling'.mainQueue = mainQueue
    BY <1>1, <1>5
  <2>4. Slots(Polling, Held)'
    BY <2>1, <2>2, <2>3 DEF Slots, IInv, SlotInv
  <2> QED BY <2>1, <2>4 DEF SlotInv
<1>15. ChainInv'
  <2>1. awaited = awaited' /\ lost = lost' /\ running' = running /\ stopAt' # 0
    BY <1>2, <1>5
  <2>2. awaited \in Runs /\ \A task \in Tasks : awaited[task] <= running'[task]
    BY <2>1 DEF IInv, ChainInv
  <2>3. Linked(q, awaited, lost)
    BY <1>5, PollingFields DEF IInv, ChainInv, Linked, Full, Awaits
  <2> QED BY <1>1, <2>1, <2>2, <2>3, ChainNext
<1> QED BY <1>12, <1>13, <1>14, <1>15 DEF IInv

LEMMA StopEndStep == IInv /\ StopEnd => IInv'
<1> SUFFICES ASSUME IInv, StopEnd PROVE IInv'
  OBVIOUS
<1>1. PICK q : q = Polling'
  OBVIOUS
<1>2. attached = {}
  <2>1. attached \subseteq {GroupSeq[i] : i \in Len(GroupSeq) + 1 .. Len(GroupSeq)}
    BY DEF IInv, ControlInv, StopEnd
  <2>2. \A i : i \notin Len(GroupSeq) + 1 .. Len(GroupSeq)
    BY GroupNumbers
  <2> QED BY <2>1, <2>2
<1>3. /\ Tidy(Polling) /\ Polling \in PollingStates
      /\ queue \in [Resources -> Seq(Tasks)] /\ mainQueue \in Seq(Tasks) /\ running \in Runs
  BY PollingFields, StateTypes DEF IInv, PollingInv, HandlersInv, Tidy
<1>4. /\ q.attached = attached /\ q.scanTimer = scanTimer /\ q.queue = queue
      /\ q.orphans = orphans /\ q.pending = pending /\ q.slow = slow
      /\ q.disturbed = disturbed /\ q.taken = taken /\ q.mainQueue = <<>>
      /\ q.mainAwaited = <<>>
      /\ UNCHANGED <<running, mainTaken, awaited>>
  <2>1. /\ UNCHANGED <<attached, scanTimer, orphans, pending, slow, queue, looks, disturbed,
                       taken, running, mainTaken, awaited>>
        /\ mainQueue' = <<>> /\ mainAwaited' = <<>>
    BY DEF StopEnd, pollingVars
  <2>2. q = [attached |-> attached, scanTimer |-> scanTimer,
             orphans |-> orphans, pending |-> pending, slow |-> slow, queue |-> queue,
             looks |-> looks, disturbed |-> disturbed, taken |-> taken,
             mainQueue |-> <<>>, mainAwaited |-> <<>>]
    BY <1>1, <2>1 DEF Polling
  <2> QED BY <2>1, <2>2
<1>5. <<>> \in Seq(Tasks) /\ <<>> \in Seq(BOOLEAN)
  OBVIOUS
<1>6. q \in PollingStates
  <2>1. q = [attached |-> attached, scanTimer |-> scanTimer,
             orphans |-> orphans, pending |-> pending, slow |-> slow, queue |-> queue,
             looks |-> looks, disturbed |-> disturbed, taken |-> taken,
             mainQueue |-> <<>>, mainAwaited |-> <<>>]
    BY <1>1 DEF Polling, StopEnd, pollingVars
  <2> QED BY <1>3, <1>5, <2>1, StateTypes, PollingFields DEF PollingStates
<1>7. Tidy(q)
  BY <1>3, <1>4, <1>6, PollingFields DEF Tidy
<1>8. ASSUME NEW task \in Tasks
      PROVE  /\ Flights(q, running, task) <= Flights(Polling, running, task)
             /\ Flights(q, running, task) \in Nat /\ Flights(Polling, running, task) \in Nat
  <2> DEFINE y == Num(queue[Home(task)], {task})
             z == Num(mainQueue, {task})
  <2>1. y \in Nat /\ z \in Nat /\ running[task] \in Nat
    BY <1>3, TaskFacts, NumType DEF Runs
  <2>2. /\ Flights(q, running, task) = y + 0 + running[task]
        /\ Flights(Polling, running, task) = y + z + running[task]
    BY <1>4, NumEmpty, PollingFields DEF Flights
  <2> HIDE DEF y, z
  <2> QED BY <2>1, <2>2
<1>9. ASSUME NEW h \in Groups \ q.disturbed PROVE LoopOf(q, running, h)
  <2>1. LoopOf(Polling, running, h)
    BY <1>4 DEF IInv, PollingInv
  <2>2. ASSUME NEW e \in ToSet(Entries[h])
        PROVE  Flights(q, running, e) <= 1 /\ (Flights(q, running, e) > 0 => e \in q.pending[h])
    <3>1. e \in Tasks
      BY EntryFacts
    <3>2. /\ Flights(Polling, running, e) <= 1
          /\ Flights(Polling, running, e) > 0 => e \in pending[h]
      BY <2>1, PollingFields DEF LoopOf
    <3> QED BY <1>4, <1>8, <3>1, <3>2
  <2> QED BY <1>2, <1>4, <2>1, <2>2, PollingFields DEF LoopOf
<1>10. PollingInv'
  BY <1>1, <1>2, <1>4, <1>7, <1>9, PollingNext
<1>11. ControlInv'
  BY <1>2 DEF StopEnd, pollingVars, ControlInv
<1>12. HandlersInv' /\ \A r \in Resources : JobsRunning(r)' = JobsRunning(r)
  <2>1. Handlers' = Handlers
    BY <1>4 DEF Handlers
  <2> QED BY <1>4, <2>1 DEF IInv, HandlersInv, JobsRunning
<1>13. SlotInv'
  <2>1. /\ lost \in [Resources -> Nat] /\ Slots(Polling, Held) /\ HandlersInv
        /\ lost' = [r \in Resources |-> lost[r] + JobsOf(r, mainQueue)]
    BY DEF IInv, SlotInv, StopEnd
  <2>2. ASSUME NEW r \in Resources
        PROVE  /\ lost'[r] \in Nat /\ JobsRunning(r) \in Nat
               /\ taken[r] = JobsOf(r, <<>>) + (JobsRunning(r) + lost'[r])
               /\ taken[r] <= Concurrency[r]
    <3> DEFINE x == JobsOf(r, mainQueue)
               y == JobsRunning(r)
               z == lost[r]
    <3>1. x \in Nat /\ y \in Nat /\ z \in Nat /\ JobsOf(r, <<>>) = 0
      BY <1>3, <1>5, <2>1, JobsOfNum, NumEmpty, HeldType
    <3>2. taken[r] = x + (y + z) /\ taken[r] <= Concurrency[r]
      BY <2>1, PollingFields DEF Slots, Held
    <3>3. lost'[r] = z + x
      BY <2>1
    <3> HIDE DEF x, y, z
    <3>4. lost'[r] \in Nat /\ taken[r] = 0 + (y + lost'[r])
      BY <3>1, <3>2, <3>3
    <3> QED BY <3>1, <3>2, <3>4 DEF y
  <2>3. lost' \in [Resources -> Nat]
    BY <2>1, <2>2
  <2>4. Polling'.taken = taken /\ Polling'.mainQueue = <<>>
    BY <1>1, <1>4
  <2>5. Held' = [r \in Resources |-> JobsRunning(r) + lost'[r]]
    BY <1>12 DEF Held
  <2>6. Slots(Polling, Held)'
    BY <2>2, <2>4, <2>5 DEF Slots
  <2> QED BY <2>3, <2>6 DEF SlotInv
<1>14. ChainInv'
  <2>1. awaited = awaited' /\ running' = running
    BY <1>4
  <2>2. /\ awaited \in Runs /\ \A task \in Tasks : awaited[task] <= running'[task]
        /\ Len(mainAwaited) = Len(mainQueue)
        /\ \A r \in Resources : Full(Polling, awaited, lost, r)
    BY <2>1, PollingFields DEF IInv, ChainInv, Linked
  <2>3. PICK ls : ls = lost'
    OBVIOUS
  <2>4. ASSUME NEW r \in Resources PROVE Full(q, awaited, ls, r)
    <3>1. SUFFICES ASSUME ls[r] = 0, q.taken[r] = Concurrency[r] PROVE Awaits(q, awaited, r)
      BY DEF Full
    <3>2. ls[r] = lost[r] + JobsOf(r, mainQueue) /\ lost[r] \in Nat /\ JobsOf(r, mainQueue) \in Nat
      BY <1>3, <2>3, JobsOfNum DEF StopEnd, IInv, SlotInv
    <3>3. lost[r] = 0 /\ JobsOf(r, mainQueue) = 0
      BY <3>1, <3>2
    <3>4. Awaits(Polling, awaited, r)
      BY <1>4, <2>2, <3>1, <3>3, PollingFields DEF Full
    <3>5. \A i \in DOMAIN mainQueue : Home(mainQueue[i]) # r
      <4>1. Num(mainQueue, TasksOf(r)) = 0
        BY <1>3, <3>3, JobsOfNum
      <4>2. \A i \in DOMAIN mainQueue : mainQueue[i] \notin TasksOf(r) /\ mainQueue[i] \in Tasks
        BY <1>3, <4>1, NumZero
      <4> QED BY <4>2 DEF TasksOf
    <3> QED BY <3>4, <3>5, PollingFields DEF Awaits
  <2>5. Linked(q, awaited, ls)
    BY <1>4, <2>4 DEF Linked
  <2>6. Guarded(q, awaited, ls)
    BY <1>2, <1>4 DEF Guarded
  <2> QED BY <1>1, <2>1, <2>2, <2>3, <2>5, <2>6, ChainNext
<1> QED BY <1>10, <1>11, <1>12, <1>13, <1>14 DEF IInv

LEMMA LookStep == \A r \in Resources : IInv /\ Look(r) => IInv'
<1> SUFFICES ASSUME NEW r \in Resources, IInv, Look(r) PROVE IInv'
  OBVIOUS
<1> DEFINE fewer == [looks EXCEPT ![r] = looks[r] - 1]
           p == [Polling EXCEPT !.looks = fewer]
           q == IF r \in limiterOn THEN Launch(p, r) ELSE p
<1>1. /\ Tidy(Polling) /\ Polling \in PollingStates /\ running \in Runs
      /\ looks \in [Resources -> Nat] /\ pending \in [Groups -> SUBSET Tasks]
      /\ attached \subseteq Groups /\ looks[r] > 0
      /\ Slots(Polling, Held) /\ Held \in [Resources -> Nat]
  BY PollingFields, StateTypes, HeldType
     DEF IInv, PollingInv, HandlersInv, SlotInv, Tidy, Look
<1>2. fewer \in [Resources -> Nat] /\ \A o \in Resources : o # r => fewer[o] = looks[o]
  BY <1>1
<1>3. /\ PollingBecomes(q)
      /\ UNCHANGED <<isRunning, stopAt, limiterOn, mainTaken, running, awaited, lost>>
  BY PollingFields DEF Look
<1> HIDE DEF fewer
<1>4. /\ p \in PollingStates /\ p.looks = fewer
      /\ p.attached = attached /\ p.scanTimer = scanTimer /\ p.orphans = orphans
      /\ p.pending = pending /\ p.slow = slow /\ p.disturbed = disturbed
      /\ p.queue = queue /\ p.taken = taken
      /\ p.mainQueue = mainQueue /\ p.mainAwaited = mainAwaited
  BY <1>1, <1>2, PollingFields DEF PollingStates
<1> HIDE DEF p
<1>5. Tidy(p) /\ Slots(p, Held)
  BY <1>1, <1>4, PollingFields DEF Tidy, Slots
<1>6. \A task \in Tasks : Flights(p, running, task) = Flights(Polling, running, task)
  BY <1>4, PollingFields DEF Flights
<1>7. Linked(p, awaited, lost)
  BY <1>4, PollingFields DEF IInv, ChainInv, Linked, Full, Awaits
<1>8. ASSUME stopAt = 0, NEW g \in attached, ResourceOf[g] # r
      PROVE  Watched(p, awaited, lost, ResourceOf[g])
  <2>1. Watched(Polling, awaited, lost, ResourceOf[g]) /\ ResourceOf[g] \in Resources
    BY <1>1, <1>8, PollingFields DEF IInv, ChainInv, Guarded, Resources
  <2> QED BY <1>2, <1>4, <1>8, <2>1, PollingFields DEF Watched, Awaits
<1>9. /\ Tidy(q) /\ Slots(q, Held)
      /\ \A task \in Tasks : Flights(q, running, task) = Flights(Polling, running, task)
      /\ q.attached = attached /\ q.scanTimer = scanTimer /\ q.orphans = orphans
      /\ q.pending = pending /\ q.disturbed = disturbed
      /\ Linked(q, awaited, lost) /\ (stopAt = 0 => Guarded(q, awaited, lost))
  <2>1. CASE r \in limiterOn
    <3>1. q = Launch(p, r)
      BY <2>1
    <3> HIDE DEF q
    <3>2. PICK n \in 0 .. Len(p.queue[r]) :
            /\ n <= Concurrency[r] - p.taken[r] /\ Moved(p, r, n, q)
            /\ n = Len(p.queue[r]) \/ n = Concurrency[r] - p.taken[r]
      BY <1>1, <1>5, <3>1, LaunchKeeps
    <3>3. /\ Tidy(q) /\ Slots(q, Held)
          /\ \A task \in Tasks : Flights(q, running, task) = Flights(p, running, task)
      BY <1>1, <1>5, <3>2, MoveKeeps
    <3>4. /\ q.attached = attached /\ q.scanTimer = scanTimer /\ q.orphans = orphans
          /\ q.pending = pending /\ q.disturbed = disturbed
      BY <1>4, <3>2 DEF Moved
    <3>5. /\ Linked(q, awaited, lost) /\ Watched(q, awaited, lost, r)
          /\ \A o \in Resources : o # r /\ Watched(p, awaited, lost, o)
                                  => Watched(q, awaited, lost, o)
      BY <1>5, <1>7, <3>2, MoveChained
    <3>6. stopAt = 0 => Guarded(q, awaited, lost)
      <4>1. \A g \in attached : ResourceOf[g] \in Resources
        BY <1>1 DEF Resources
      <4> QED BY <1>8, <3>4, <3>5, <4>1 DEF Guarded
    <3> QED BY <1>6, <3>3, <3>4, <3>5, <3>6
  <2>2. CASE r \notin limiterOn
    <3>1. q = p
      BY <2>2
    <3>2. stopAt = 0 => attached = {}
      BY <2>2 DEF IInv, ControlInv
    <3>3. stopAt = 0 => Guarded(p, awaited, lost)
      BY <1>4, <3>2 DEF Guarded
    <3> HIDE DEF q
    <3> QED BY <1>4, <1>5, <1>6, <1>7, <3>1, <3>3
  <2> QED BY <2>1, <2>2
<1> HIDE DEF q
<1>10. Polling' = q
  BY <1>3, <1>9 DEF PollingBecomes, Polling, Tidy, PollingStates
<1>11. PollingInv'
  <2>1. ASSUME NEW h \in Groups \ q.disturbed PROVE LoopOf(q, running, h)
    <3>1. LoopOf(Polling, running, h)
      BY <1>9 DEF IInv, PollingInv
    <3>2. \A e \in ToSet(Entries[h]) : Flights(q, running, e) = Flights(Polling, running, e)
      BY <1>9, EntryFacts
    <3> QED BY <1>9, <3>1, <3>2, PollingFields DEF LoopOf
  <2>2. ASSUME NEW h \in q.attached, Lossless(h)
        PROVE  Armed(q, h) /\ (stopAt' = 0 => Answered(q, running, h))
    <3>1. Armed(Polling, h) /\ (stopAt = 0 => Answered(Polling, running, h))
      BY <1>9, <2>2 DEF IInv, PollingInv
    <3>2. pending[h] \subseteq Tasks
      BY <1>1, <1>9, <2>2
    <3>3. Armed(q, h)
      BY <1>9, <3>1, PollingFields DEF Armed
    <3>4. stopAt = 0 => Answered(q, running, h)
      BY <1>9, <3>1, <3>2, PollingFields DEF Answered
    <3> QED BY <1>3, <3>3, <3>4
  <2>3. running = running'
    BY <1>3
  <2> QED BY <1>9, <1>10, <2>1, <2>2, <2>3, PollingNext
<1>12. HandlersInv' /\ SlotInv'
  <2>1. HandlersInv' /\ lost' \in [Resources -> Nat] /\ Held' = Held
    BY <1>3, QuietStep DEF IInv, SlotInv
  <2>2. Slots(Polling, Held)'
    BY <1>9, <1>10, <2>1 DEF Slots
  <2> QED BY <2>1, <2>2 DEF SlotInv
<1>13. ChainInv'
  <2>1. awaited = awaited' /\ lost = lost' /\ running' = running /\ stopAt' = stopAt
    BY <1>3
  <2>2. awaited \in Runs /\ \A task \in Tasks : awaited[task] <= running'[task]
    BY <2>1 DEF IInv, ChainInv
  <2> QED BY <1>9, <1>10, <2>1, <2>2, ChainNext
<1>14. ControlInv'
  <2>1. attached' = attached
    BY <1>3, <1>9 DEF PollingBecomes
  <2> QED BY <1>3, <2>1 DEF IInv, ControlInv
<1> QED BY <1>11, <1>12, <1>13, <1>14 DEF IInv

LEMMA MainStartStep == IInv /\ MainStart => IInv'
<1> SUFFICES ASSUME IInv, MainStart PROVE IInv'
  OBVIOUS
<1> DEFINE t == Head(mainQueue)
           rest == Tail(mainQueue)
           marks == Tail(mainAwaited)
<1>1. PICK q : q = Polling'
  OBVIOUS
<1>2. PICK run : run = running'
  OBVIOUS
<1>3. /\ Tidy(Polling) /\ queue \in [Resources -> Seq(Tasks)] /\ mainQueue \in Seq(Tasks)
      /\ running \in Runs /\ Polling \in PollingStates
      /\ mainAwaited \in Seq(BOOLEAN) /\ Len(mainAwaited) = Len(mainQueue)
  BY PollingFields, StateTypes DEF IInv, PollingInv, HandlersInv, ChainInv, Linked, Tidy
<1>4. /\ mainQueue # <<>> /\ mainTaken < MainConcurrency /\ mainTaken' = mainTaken + 1
      /\ mainQueue' = rest /\ running' = [running EXCEPT ![t] = running[t] + 1]
      /\ mainAwaited' = marks
      /\ UNCHANGED <<isRunning, stopAt, limiterOn, attached, scanTimer, orphans, pending, slow,
                     queue, looks, taken, lost, disturbed>>
  BY DEF MainStart, pollingVars
<1>5. /\ t \in Tasks /\ rest \in Seq(Tasks)
      /\ \A S : Num(mainQueue, S) = Num(rest, S) + (IF t \in S THEN 1 ELSE 0)
  BY <1>3, <1>4, NumTail
<1>6. /\ mainAwaited # <<>> /\ marks \in Seq(BOOLEAN) /\ Len(marks) = Len(rest)
      /\ \A i \in DOMAIN mainQueue : i # 1 => /\ i - 1 \in DOMAIN rest
                                             /\ rest[i - 1] = mainQueue[i]
                                             /\ marks[i - 1] = mainAwaited[i]
      /\ mainQueue[1] = t /\ mainAwaited[1] = Head(mainAwaited)
  <2>1. /\ Len(mainQueue) \in Nat /\ Len(mainQueue) > 0 /\ mainAwaited # <<>>
        /\ DOMAIN mainQueue = 1 .. Len(mainQueue)
    <3>1. mainQueue # <<>>
      BY <1>4
    <3>2. /\ Len(mainQueue) \in Nat /\ Len(mainQueue) > 0
          /\ DOMAIN mainQueue = 1 .. Len(mainQueue)
      BY <1>3, <3>1
    <3>3. mainAwaited # <<>>
      BY <1>3, <3>2
    <3> QED BY <3>2, <3>3
  <2>2. /\ Len(rest) = Len(mainQueue) - 1 /\ DOMAIN rest = 1 .. Len(mainQueue) - 1
        /\ \A k \in 1 .. Len(mainQueue) - 1 : rest[k] = mainQueue[k + 1]
        /\ mainQueue[1] = t
    <3>1. mainQueue # <<>>
      BY <1>4
    <3> QED BY <1>3, <2>1, <3>1
  <2>3. /\ Len(marks) = Len(mainQueue) - 1 /\ marks \in Seq(BOOLEAN)
        /\ \A k \in 1 .. Len(mainQueue) - 1 : marks[k] = mainAwaited[k + 1]
        /\ mainAwaited[1] = Head(mainAwaited)
    BY <1>3, <2>1
  <2> HIDE DEF t, rest, marks
  <2>4. ASSUME NEW i \in 1 .. Len(mainQueue), i # 1
        PROVE  i - 1 \in 1 .. Len(mainQueue) - 1 /\ (i - 1) + 1 = i
    BY <2>1, <2>4
  <2> QED BY <2>1, <2>2, <2>3, <2>4
<1> HIDE DEF t, rest, marks
<1>7. /\ q.attached = attached /\ q.scanTimer = scanTimer /\ q.queue = queue
      /\ q.orphans = orphans /\ q.pending = pending /\ q.slow = slow
      /\ q.disturbed = disturbed /\ q.taken = taken /\ q.mainQueue = rest
      /\ q.looks = looks /\ q.mainAwaited = marks
      /\ q = [attached |-> attached, scanTimer |-> scanTimer,
               orphans |-> orphans, pending |-> pending, slow |-> slow, queue |-> queue,
               looks |-> looks, disturbed |-> disturbed, taken |-> taken,
               mainQueue |-> rest, mainAwaited |-> marks]
  <2>1. q = [attached |-> attached, scanTimer |-> scanTimer,
             orphans |-> orphans, pending |-> pending, slow |-> slow, queue |-> queue,
             looks |-> looks, disturbed |-> disturbed, taken |-> taken,
             mainQueue |-> rest, mainAwaited |-> marks]
    BY <1>1, <1>4 DEF Polling
  <2> QED BY <2>1
<1>8. q \in PollingStates
  BY <1>3, <1>5, <1>7, <1>6, StateTypes, PollingFields DEF PollingStates
<1>9. Tidy(q)
  BY <1>3, <1>7, <1>8, PollingFields DEF Tidy
<1>10. /\ running' \in Runs /\ IsFiniteSet(Handlers')
       /\ Cardinality(Handlers') = Cardinality(Handlers) + 1
       /\ \A r \in Resources :
            JobsRunning(r)' = JobsRunning(r) + (IF Home(t) = r THEN 1 ELSE 0)
  BY <1>4, <1>5, HandlerStarts DEF IInv
<1>11. ASSUME NEW task \in Tasks
       PROVE  Flights(q, run, task) = Flights(Polling, running, task)
  <2> DEFINE x == Num(queue[Home(task)], {task})
             y == Num(rest, {task})
             z == running[task]
             d == IF t = task THEN 1 ELSE 0
  <2>1. x \in Nat /\ y \in Nat /\ z \in Nat /\ d \in Nat
    BY <1>3, <1>5, TaskFacts, NumType DEF Runs
  <2>2. Num(mainQueue, {task}) = y + d
    BY <1>5
  <2>3. run[task] = z + d
    BY <1>2, <1>3, <1>4, <2>1 DEF Runs
  <2>4. /\ Flights(q, run, task) = x + y + run[task]
        /\ Flights(Polling, running, task) = x + Num(mainQueue, {task}) + z
    BY <1>7, PollingFields DEF Flights
  <2> HIDE DEF x, y, z, d
  <2> QED BY <2>1, <2>2, <2>3, <2>4
<1>12. PollingInv'
  <2>1. ASSUME NEW h \in Groups \ q.disturbed PROVE LoopOf(q, run, h)
    <3>1. LoopOf(Polling, running, h)
      BY <1>7 DEF IInv, PollingInv
    <3>2. \A e \in ToSet(Entries[h]) : Flights(q, run, e) = Flights(Polling, running, e)
      BY <1>11, EntryFacts
    <3> QED BY <1>7, <3>1, <3>2, PollingFields DEF LoopOf
  <2>2. ASSUME NEW h \in q.attached, Lossless(h)
        PROVE  Armed(q, h) /\ (stopAt' = 0 => Answered(q, run, h))
    <3>1. Armed(Polling, h) /\ (stopAt = 0 => Answered(Polling, running, h))
      BY <1>7, <2>2 DEF IInv, PollingInv
    <3>2. pending[h] \subseteq Tasks
      BY <1>3, <1>7, StateTypes, PollingFields
    <3>3. Armed(q, h)
      BY <1>7, <3>1, PollingFields DEF Armed
    <3>4. stopAt = 0 => Answered(q, run, h)
      BY <1>7, <1>11, <3>1, <3>2, PollingFields DEF Answered
    <3> QED BY <1>4, <3>3, <3>4
  <2> QED BY <1>1, <1>2, <1>9, <2>1, <2>2, PollingNext
<1>13. HandlersInv'
  <2>1. mainTaken = Cardinality(Handlers) /\ MainConcurrency \in Nat /\ Cardinality(Handlers) \in Nat
    BY SchedulerAssumption, FS_CardinalityType DEF IInv, HandlersInv
  <2>2. mainTaken' = Cardinality(Handlers') /\ mainTaken' <= MainConcurrency
    BY <1>4, <1>10, <2>1
  <2> QED BY <1>10, <2>2 DEF HandlersInv
<1>14. SlotInv'
  <2>1. Slots(Polling, Held) /\ lost' = lost /\ lost \in [Resources -> Nat]
    BY <1>4 DEF IInv, SlotInv
  <2>2. ASSUME NEW r \in Resources
        PROVE  /\ taken[r] = JobsOf(r, rest) + (JobsRunning(r)' + lost[r])
               /\ taken[r] <= Concurrency[r]
    <3> DEFINE x == JobsOf(r, rest)
               y == JobsRunning(r)
               z == lost[r]
               d == IF Home(t) = r THEN 1 ELSE 0
    <3>1. x \in Nat /\ y \in Nat /\ z \in Nat /\ d \in Nat
      BY <1>5, <2>1, JobsOfNum, HeldType DEF IInv
    <3>2. JobsOf(r, mainQueue) = x + d
      <4>1. t \in TasksOf(r) <=> Home(t) = r
        BY <1>5 DEF TasksOf
      <4>2. Num(mainQueue, TasksOf(r)) = Num(rest, TasksOf(r)) + d
        BY <1>5, <4>1
      <4>3. /\ JobsOf(r, mainQueue) = Num(mainQueue, TasksOf(r))
            /\ JobsOf(r, rest) = Num(rest, TasksOf(r))
        BY <1>3, <1>5, JobsOfNum
      <4> HIDE DEF d
      <4> QED BY <4>2, <4>3
    <3>3. taken[r] = JobsOf(r, mainQueue) + (y + z) /\ taken[r] <= Concurrency[r]
      BY <2>1, PollingFields DEF Slots, Held
    <3>4. JobsRunning(r)' = y + d
      BY <1>10
    <3> HIDE DEF x, y, z, d
    <3> QED BY <3>1, <3>2, <3>3, <3>4 DEF x, z
  <2>3. Polling'.taken = taken /\ Polling'.mainQueue = rest
    BY <1>1, <1>7
  <2>4. Held' = [r \in Resources |-> JobsRunning(r)' + lost[r]]
    BY <2>1 DEF Held
  <2>5. Slots(Polling, Held)'
    BY <2>2, <2>3, <2>4 DEF Slots
  <2> QED BY <2>1, <2>5 DEF SlotInv
<1>15. ControlInv'
  BY <1>4 DEF IInv, ControlInv
<1>16. PICK aw : aw = awaited'
  OBVIOUS
<1>17. /\ aw \in Runs /\ \A task \in Tasks : aw[task] <= running'[task]
       /\ \A task \in Tasks : aw[task] >= awaited[task]
  <2>1. /\ awaited \in [Tasks -> Nat] /\ running \in [Tasks -> Nat]
        /\ \A task \in Tasks : awaited[task] <= running[task]
    BY <1>3 DEF IInv, ChainInv, Runs
  <2>2. CASE Head(mainAwaited)
    <3>1. aw = [awaited EXCEPT ![t] = awaited[t] + 1]
      BY <1>16, <2>2 DEF MainStart, t
    <3>2. aw \in [Tasks -> Nat]
      BY <1>5, <2>1, <3>1
    <3>3. \A task \in Tasks : aw[task] <= running'[task]
      BY <1>4, <1>5, <2>1, <3>1
    <3>4. \A task \in Tasks : aw[task] >= awaited[task]
      BY <1>5, <2>1, <3>1
    <3> QED BY <3>2, <3>3, <3>4 DEF Runs
  <2>3. CASE ~Head(mainAwaited)
    <3>1. aw = awaited
      BY <1>16, <2>3 DEF MainStart
    <3>2. \A task \in Tasks : aw[task] <= running'[task]
      BY <1>4, <1>5, <2>1, <3>1
    <3>3. \A task \in Tasks : aw[task] >= awaited[task]
      BY <2>1, <3>1
    <3> QED BY <2>1, <3>1, <3>2, <3>3 DEF Runs
  <2> QED BY <2>2, <2>3
<1>18. ASSUME Head(mainAwaited) PROVE aw[t] > 0
  <2>1. aw = [awaited EXCEPT ![t] = awaited[t] + 1]
    BY <1>16, <1>18 DEF MainStart, t
  <2>2. awaited \in [Tasks -> Nat]
    BY DEF IInv, ChainInv, Runs
  <2> QED BY <1>5, <2>1, <2>2
<1>19. ASSUME NEW r, Awaits(Polling, awaited, r) PROVE Awaits(q, aw, r)
  <2>1. CASE \E task \in Tasks : Home(task) = r /\ awaited[task] > 0
    <3>1. PICK task \in Tasks : Home(task) = r /\ awaited[task] > 0
      BY <2>1
    <3>2. awaited[task] \in Nat /\ aw[task] \in Nat /\ aw[task] >= awaited[task]
      BY <1>17 DEF IInv, ChainInv, Runs
    <3>3. aw[task] > 0
      BY <3>1, <3>2
    <3> QED BY <3>1, <3>3 DEF Awaits
  <2>2. CASE \E i \in DOMAIN mainQueue : Home(mainQueue[i]) = r /\ mainAwaited[i]
    <3>1. PICK i \in DOMAIN mainQueue : Home(mainQueue[i]) = r /\ mainAwaited[i]
      BY <2>2
    <3>2. CASE i = 1
      <4>1. Home(t) = r /\ Head(mainAwaited)
        BY <1>6, <3>1, <3>2
      <4> QED BY <1>5, <1>18, <4>1 DEF Awaits
    <3>3. CASE i # 1
      <4>1. i - 1 \in DOMAIN rest /\ Home(rest[i - 1]) = r /\ marks[i - 1]
        BY <1>6, <3>1, <3>3
      <4> QED BY <1>7, <4>1 DEF Awaits
    <3> QED BY <3>2, <3>3
  <2> QED BY <1>19, <2>1, <2>2, PollingFields DEF Awaits
<1>20. ChainInv'
  <2>1. lost = lost' /\ stopAt' = stopAt
    BY <1>4
  <2>2. Linked(q, aw, lost)
    BY <1>7, <1>6, <1>19, PollingFields DEF IInv, ChainInv, Linked, Full
  <2>3. stopAt' = 0 => Guarded(q, aw, lost)
    BY <1>7, <1>19, <2>1, PollingFields DEF IInv, ChainInv, Guarded, Watched
  <2> QED BY <1>1, <1>16, <1>17, <2>1, <2>2, <2>3, ChainNext
<1> QED BY <1>12, <1>13, <1>14, <1>15, <1>20 DEF IInv

LEMMA SettleStep ==
  \A task \in Tasks, failed, isLast \in BOOLEAN : IInv /\ Settle(task, failed, isLast) => IInv'
<1> SUFFICES ASSUME NEW task \in Tasks, NEW failed \in BOOLEAN, NEW isLast \in BOOLEAN,
                    IInv, Settle(task, failed, isLast)
             PROVE  IInv'
  OBVIOUS
<1> DEFINE g == GroupOf(task)
           o == Home(task)
           less == [taken EXCEPT ![o] = taken[o] - 1]
           free == [Polling EXCEPT !.taken = less]
           p == IF isLast THEN WillLook(free, o) ELSE free
           q == TaskDone(p, task, failed)
           left == pending[g] \ {task}
<1>1. PICK run : run = running'
  OBVIOUS
<1>2. /\ Tidy(Polling) /\ queue \in [Resources -> Seq(Tasks)] /\ mainQueue \in Seq(Tasks)
      /\ taken \in [Resources -> Int] /\ pending \in [Groups -> SUBSET Tasks]
      /\ running \in Runs /\ Polling \in PollingStates
      /\ scanTimer \subseteq attached /\ attached \subseteq Groups
  BY PollingFields, StateTypes DEF IInv, PollingInv, HandlersInv, Tidy
<1>3. /\ g \in Groups /\ o \in Resources /\ task \in ToSet(Entries[g])
  BY TaskFacts
<1>4. /\ running[task] > 0 /\ running' = [running EXCEPT ![task] = @ - 1]
      /\ mainTaken' = mainTaken - 1 /\ PollingBecomes(q)
      /\ UNCHANGED <<isRunning, stopAt, limiterOn, lost>>
  <2>1. /\ awaited[task] \in Nat /\ running[task] \in Nat /\ awaited[task] <= running[task]
    BY DEF IInv, ChainInv, HandlersInv, Runs
  <2>2. IF isLast THEN awaited[task] > 0 ELSE running[task] > awaited[task]
    BY DEF Settle, Settles
  <2>3. running[task] > 0
    BY <2>1, <2>2
  <2> HIDE DEF p, q
  <2>4. PollingBecomes(TaskDone(p, task, failed))
    BY PollingFields DEF Settle, p
  <2> QED BY <2>3, <2>4 DEF Settle, Settles, q
<1>5. less \in [Resources -> Int]
  BY <1>2, <1>3
<1> HIDE DEF less
<1>6. /\ free \in PollingStates /\ free.taken = less
      /\ free.attached = attached /\ free.scanTimer = scanTimer /\ free.orphans = orphans
      /\ free.pending = pending /\ free.slow = slow /\ free.disturbed = disturbed
      /\ free.queue = queue /\ free.looks = looks
      /\ free.mainQueue = mainQueue /\ free.mainAwaited = mainAwaited
  BY <1>2, <1>5, PollingFields DEF PollingStates
<1> HIDE DEF free
<1>7. Looking(free, p) /\ (isLast => p.looks[o] > 0)
  <2>1. CASE isLast
    <3>1. p = WillLook(free, o)
      BY <2>1
    <3> QED BY <1>3, <1>6, <3>1, WillLookShape
  <2>2. CASE ~isLast
    <3>1. p = free /\ \A r \in Resources : free.looks[r] >= free.looks[r]
      BY <1>6, <2>2, StateTypes
    <3> QED BY <1>6, <2>2, <3>1 DEF Looking
  <2> QED BY <2>1, <2>2
<1> HIDE DEF p
<1>8. /\ p \in PollingStates /\ p.taken = less
      /\ p.attached = attached /\ p.scanTimer = scanTimer /\ p.orphans = orphans
      /\ p.pending = pending /\ p.slow = slow /\ p.disturbed = disturbed
      /\ p.queue = queue /\ p.mainQueue = mainQueue /\ p.mainAwaited = mainAwaited
      /\ \A r \in Resources : p.looks[r] >= looks[r]
  BY <1>6, <1>7 DEF Looking
<1>9. TaskDoneFacts(p, task, failed, q)
  BY <1>8, TaskDoneShape
<1> HIDE DEF q
<1>10. /\ q \in PollingStates /\ q.attached = attached /\ q.disturbed = disturbed
       /\ q.queue = queue /\ q.taken = less /\ q.mainQueue = mainQueue
       /\ q.mainAwaited = mainAwaited /\ q.looks = p.looks
       /\ q.pending = [pending EXCEPT ![g] = left]
       /\ q.scanTimer = IF g \in attached /\ left = {} THEN scanTimer \union {g} ELSE scanTimer
       /\ \A h \in Groups : h # g \/ h \notin scanTimer => q.orphans[h] = orphans[h]
       /\ \A h \in Groups : q.orphans[h] >= orphans[h]
  BY <1>8, <1>9 DEF TaskDoneFacts, SameQueues
<1>11. q = Polling'
  BY <1>4, <1>10 DEF PollingBecomes, Polling, PollingStates
<1>12. q.pending[g] = left /\ \A h \in Groups : h # g => q.pending[h] = pending[h]
  BY <1>2, <1>3, <1>10
<1>13. Tidy(q)
  <2>1. \A h \in Groups : q.pending[h] \subseteq ToSet(Entries[h])
    BY <1>2, <1>12, PollingFields DEF Tidy
  <2>2. q.scanTimer \subseteq q.attached
    BY <1>2, <1>10
  <2> QED BY <1>2, <1>10, <2>1, <2>2, PollingFields DEF Tidy
<1>14. ASSUME NEW e \in Tasks
       PROVE  /\ Flights(Polling, running, e) \in Nat
              /\ e # task => Flights(q, run, e) = Flights(Polling, running, e)
              /\ Flights(q, run, task) = Flights(Polling, running, task) - 1
              /\ Flights(Polling, running, task) > 0
  <2> DEFINE x(f) == Num(queue[Home(f)], {f})
             y(f) == Num(mainQueue, {f})
  <2>1. ASSUME NEW f \in Tasks
        PROVE  /\ x(f) \in Nat /\ y(f) \in Nat /\ running[f] \in Nat
               /\ Flights(q, run, f) = x(f) + y(f) + run[f]
               /\ Flights(Polling, running, f) = x(f) + y(f) + running[f]
    <3>1. x(f) \in Nat /\ y(f) \in Nat /\ running[f] \in Nat
      BY <1>2, TaskFacts, NumType DEF Runs
    <3> QED BY <1>10, <3>1, PollingFields DEF Flights
  <2>2. run[task] = running[task] - 1 /\ (e # task => run[e] = running[e])
    BY <1>1, <1>2, <1>4 DEF Runs
  <2> HIDE DEF x, y
  <2>3. Flights(Polling, running, e) \in Nat
    BY <1>2, FlightsType
  <2>4. e # task => Flights(q, run, e) = Flights(Polling, running, e)
    BY <2>1, <2>2
  <2>5. /\ Flights(q, run, task) = Flights(Polling, running, task) - 1
        /\ Flights(Polling, running, task) > 0
    BY <1>4, <2>1, <2>2
  <2> QED BY <2>3, <2>4, <2>5
<1>15. ASSUME NEW h \in Groups, NEW e \in ToSet(Entries[h])
       PROVE  e \in Tasks /\ (h # g => e # task)
  BY EntryFacts
<1>16. ASSUME NEW h \in Groups \ q.disturbed PROVE LoopOf(q, run, h)
  <2>1. /\ orphans[h] = 0
        /\ \A e \in ToSet(Entries[h]) :
             /\ Flights(Polling, running, e) <= 1
             /\ Flights(Polling, running, e) > 0 => e \in pending[h]
        /\ h \in attached => (h \in scanTimer <=> pending[h] = {})
    BY <1>10, PollingFields DEF IInv, PollingInv, LoopOf
  <2>2. CASE h # g
    <3>1. \A e \in ToSet(Entries[h]) : Flights(q, run, e) = Flights(Polling, running, e)
      BY <1>14, <1>15, <2>2
    <3>2. /\ q.orphans[h] = 0 /\ q.pending[h] = pending[h]
          /\ h \in q.scanTimer <=> h \in scanTimer
      BY <1>10, <1>12, <2>1, <2>2
    <3> QED BY <1>10, <2>1, <3>1, <3>2 DEF LoopOf
  <2>3. CASE h = g
    <3>1. task \in pending[g] /\ g \notin scanTimer
      BY <1>2, <1>3, <1>14, <2>1, <2>3
    <3>2. q.orphans[g] = 0
      BY <1>10, <2>1, <2>3, <3>1
    <3>3. g \in q.attached => (g \in q.scanTimer <=> q.pending[g] = {})
      BY <1>10, <1>12, <3>1
    <3>4. ASSUME NEW e \in ToSet(Entries[g])
          PROVE  Flights(q, run, e) <= 1 /\ (Flights(q, run, e) > 0 => e \in q.pending[g])
      <4>1. /\ e \in Tasks /\ Flights(Polling, running, e) <= 1
            /\ Flights(Polling, running, e) > 0 => e \in pending[g]
        BY <1>15, <2>1, <2>3
      <4>2. CASE e # task
        BY <1>12, <1>14, <4>1, <4>2
      <4>3. CASE e = task
        BY <1>14, <4>1, <4>3
      <4> QED BY <4>2, <4>3
    <3> QED BY <2>3, <3>2, <3>3, <3>4 DEF LoopOf
  <2> QED BY <2>2, <2>3
<1>17. ASSUME NEW h \in q.attached, Lossless(h)
       PROVE  Armed(q, h) /\ (stopAt' = 0 => Answered(q, run, h))
  <2>1. /\ h \in Groups /\ orphans \in [Groups -> Nat] /\ q.orphans \in [Groups -> Nat]
        /\ h \in scanTimer \/ orphans[h] > 0 \/ pending[h] # {}
        /\ stopAt = 0 => \A e \in pending[h] : Flights(Polling, running, e) > 0
        /\ pending[h] \subseteq ToSet(Entries[h])
    BY <1>2, <1>10, <1>17, StateTypes, PollingFields
       DEF IInv, PollingInv, Armed, Answered, Tidy
  <2>2. Armed(q, h)
    <3>1. CASE h = g
      BY <1>10, <1>12, <1>17, <3>1 DEF Armed
    <3>2. CASE h # g
      BY <1>10, <1>12, <2>1, <3>2 DEF Armed
    <3> QED BY <3>1, <3>2
  <2>3. ASSUME stopAt = 0, NEW e \in q.pending[h] PROVE Flights(q, run, e) > 0
    <3>1. e \in pending[h] /\ e # task
      <4>1. CASE h = g
        BY <1>12, <2>3, <4>1
      <4>2. CASE h # g
        BY <1>12, <1>15, <2>1, <2>3, <4>2
      <4> QED BY <4>1, <4>2
    <3>2. e \in Tasks /\ Flights(Polling, running, e) > 0
      BY <1>15, <2>1, <2>3, <3>1
    <3> QED BY <1>14, <3>1, <3>2
  <2> QED BY <1>4, <2>2, <2>3 DEF Answered
<1>18. PollingInv'
  BY <1>1, <1>11, <1>13, <1>16, <1>17, PollingNext
<1>19. /\ running' \in Runs /\ IsFiniteSet(Handlers')
       /\ Cardinality(Handlers') = Cardinality(Handlers) - 1
       /\ \A r \in Resources :
            JobsRunning(r)' = JobsRunning(r) - (IF Home(task) = r THEN 1 ELSE 0)
  BY <1>4, HandlerEnds DEF IInv
<1>20. HandlersInv'
  <2>1. mainTaken = Cardinality(Handlers) /\ MainConcurrency \in Nat
        /\ Cardinality(Handlers) \in Nat /\ mainTaken <= MainConcurrency
    BY SchedulerAssumption, FS_CardinalityType DEF IInv, HandlersInv
  <2>2. mainTaken' = Cardinality(Handlers') /\ mainTaken' <= MainConcurrency
    BY <1>4, <1>19, <2>1
  <2> QED BY <1>19, <2>2 DEF HandlersInv
<1>21. SlotInv'
  <2>1. Slots(Polling, Held) /\ lost' = lost /\ lost \in [Resources -> Nat]
    BY <1>4 DEF IInv, SlotInv
  <2>2. ASSUME NEW r \in Resources
        PROVE  /\ less[r] = JobsOf(r, mainQueue) + (JobsRunning(r)' + lost[r])
               /\ less[r] <= Concurrency[r]
    <3> DEFINE x == JobsOf(r, mainQueue)
               y == JobsRunning(r)
               z == lost[r]
               d == IF o = r THEN 1 ELSE 0
    <3>1. x \in Nat /\ y \in Nat /\ z \in Nat /\ d \in Nat /\ Concurrency[r] \in Nat
      BY <1>2, <2>1, JobsOfNum, HeldType, SchedulerAssumption DEF IInv
    <3>2. taken[r] = x + (y + z) /\ taken[r] <= Concurrency[r]
      BY <2>1, PollingFields DEF Slots, Held
    <3>3. JobsRunning(r)' = y - d
      BY <1>19
    <3>4. less[r] = taken[r] - d
      BY <1>2, <1>3 DEF less
    <3> HIDE DEF x, y, z, d
    <3>5. less[r] = x + (JobsRunning(r)' + z) /\ less[r] <= Concurrency[r]
      BY <3>1, <3>2, <3>3, <3>4
    <3> QED BY <3>5 DEF x, z
  <2>3. Polling'.taken = less /\ Polling'.mainQueue = mainQueue
    BY <1>10, <1>11
  <2>4. Held' = [r \in Resources |-> JobsRunning(r)' + lost[r]]
    BY <2>1 DEF Held
  <2>5. Slots(Polling, Held)'
    BY <2>2, <2>3, <2>4 DEF Slots
  <2> QED BY <2>1, <2>5 DEF SlotInv
<1>22. ControlInv'
  <2>1. attached' = attached
    BY <1>4, <1>10 DEF PollingBecomes
  <2> QED BY <1>4, <2>1 DEF IInv, ControlInv
<1>23. PICK aw : aw = awaited'
  OBVIOUS
<1>24. /\ aw \in Runs /\ \A e \in Tasks : aw[e] <= running'[e]
       /\ \A e \in Tasks : ~isLast \/ e # task => aw[e] = awaited[e]
  <2>1. /\ awaited \in [Tasks -> Nat] /\ running \in [Tasks -> Nat]
        /\ \A e \in Tasks : awaited[e] <= running[e]
    BY <1>2 DEF IInv, ChainInv, Runs
  <2>2. CASE isLast
    <3>1. aw = [awaited EXCEPT ![task] = awaited[task] - 1] /\ awaited[task] > 0
      BY <1>23, <2>2 DEF Settle, Settles
    <3>2. awaited[task] - 1 \in Nat
      BY <2>1, <3>1
    <3>3. \A e \in Tasks : aw[e] <= running'[e]
      BY <1>4, <2>1, <3>1
    <3> QED BY <2>1, <2>2, <3>1, <3>2, <3>3 DEF Runs
  <2>3. CASE ~isLast
    <3>1. aw = awaited /\ running[task] > awaited[task]
      BY <1>23, <2>3 DEF Settle, Settles
    <3>2. \A e \in Tasks : aw[e] <= running'[e]
      BY <1>4, <2>1, <3>1
    <3> QED BY <2>1, <3>1, <3>2 DEF Runs
  <2> QED BY <2>2, <2>3
<1>25. ASSUME NEW r \in Resources, ~isLast \/ r # o
       PROVE  Awaits(Polling, awaited, r) => Awaits(q, aw, r)
  <2>1. \A e \in Tasks : Home(e) = r => aw[e] = awaited[e]
    BY <1>24, <1>25
  <2> QED BY <1>10, <2>1, PollingFields DEF Awaits
<1>26. Linked(q, aw, lost)
  <2>1. /\ \A r \in Resources : Full(Polling, awaited, lost, r)
        /\ Len(mainAwaited) = Len(mainQueue)
    BY PollingFields DEF IInv, ChainInv, Linked
  <2>2. ASSUME NEW r \in Resources PROVE Full(q, aw, lost, r)
    <3>1. CASE r = o
      <4>1. taken[o] <= Concurrency[o] /\ taken[o] \in Int /\ Concurrency[o] \in Nat
        BY <1>2, <1>3, PollingFields, SchedulerAssumption DEF IInv, SlotInv, Slots
      <4>2. less[o] = taken[o] - 1
        BY <1>2, <1>3 DEF less
      <4>3. less[o] # Concurrency[o]
        BY <4>1, <4>2
      <4> QED BY <1>10, <3>1, <4>3 DEF Full
    <3>2. CASE r # o
      <4>1. less[r] = taken[r]
        BY <1>2, <3>2 DEF less
      <4> QED BY <1>10, <1>25, <2>1, <3>2, <4>1, PollingFields DEF Full
    <3> QED BY <3>1, <3>2
  <2> QED BY <1>10, <2>1, <2>2 DEF Linked
<1>27. ASSUME stopAt = 0, NEW h \in q.attached PROVE Watched(q, aw, lost, ResourceOf[h])
  <2>1. Watched(Polling, awaited, lost, ResourceOf[h]) /\ ResourceOf[h] \in Resources
    BY <1>2, <1>10, <1>27, PollingFields DEF IInv, ChainInv, Guarded, Resources
  <2>2. CASE isLast /\ ResourceOf[h] = o
    BY <1>10, <1>7, <2>2 DEF Watched
  <2>3. CASE ~isLast \/ ResourceOf[h] # o
    <3>1. looks \in [Resources -> Nat] /\ p.looks \in [Resources -> Nat]
      BY <1>2, <1>8, StateTypes, PollingFields
    <3>2. looks[ResourceOf[h]] > 0 => p.looks[ResourceOf[h]] > 0
      BY <1>8, <2>1, <3>1
    <3> QED BY <1>10, <1>25, <2>1, <2>3, <3>2, PollingFields DEF Watched
  <2> QED BY <2>2, <2>3
<1>28. ChainInv'
  <2>1. lost = lost' /\ stopAt' = stopAt
    BY <1>4
  <2>2. stopAt' = 0 => Guarded(q, aw, lost)
    BY <1>27, <2>1 DEF Guarded
  <2> QED BY <1>11, <1>23, <1>24, <1>26, <2>1, <2>2, ChainNext
<1> QED BY <1>18, <1>20, <1>21, <1>22, <1>28 DEF IInv
-----------------------------------------------------------------------------
LEMMA StepInv == IInv /\ [Next]_vars => IInv'
<1> SUFFICES ASSUME IInv, [Next]_vars PROVE IInv'
  OBVIOUS
<1>1. CASE UNCHANGED vars
  <2>1. UNCHANGED <<running, mainTaken, lost, awaited, isRunning, stopAt, limiterOn, attached,
                    disturbed>>
        /\ Polling' = Polling
    BY <1>1 DEF vars, pollingVars, Polling
  <2>2. HandlersInv' /\ lost' \in [Resources -> Nat] /\ Held' = Held
    BY <2>1, QuietStep DEF IInv, SlotInv
  <2>3. Slots(Polling, Held)'
    BY <2>1, <2>2 DEF IInv, SlotInv, Slots
  <2>4. PollingInv'
    <3>1. PICK q : q = Polling'
      OBVIOUS
    <3> QED BY <2>1, <3>1, PollingNext, PollingFields DEF IInv, PollingInv
  <2>5. ControlInv'
    BY <2>1 DEF IInv, ControlInv
  <2>6. ChainInv'
    <3>1. PICK q : q = Polling'
      OBVIOUS
    <3>2. q = Polling /\ awaited = awaited' /\ lost = lost' /\ running' = running
          /\ stopAt' = stopAt
      BY <2>1, <3>1
    <3>3. /\ awaited \in Runs /\ \A task \in Tasks : awaited[task] <= running'[task]
          /\ Linked(q, awaited, lost) /\ (stopAt' = 0 => Guarded(q, awaited, lost))
      BY <3>2 DEF IInv, ChainInv
    <3> QED BY <3>1, <3>2, <3>3, ChainNext
  <2> QED BY <2>2, <2>3, <2>4, <2>5, <2>6 DEF IInv, SlotInv
<1>2. CASE Next
  BY <1>2, StartStep, StopStep, StopEndStep, MainStartStep, LookStep, SettleStep,
     ScanTimerStep, OrphanTimerStep DEF Next
<1> QED BY <1>1, <1>2

(* What the steps keep. *)
LEMMA Inductive == Spec => []IInv
<1> QED BY InitInv, StepInv, PTL DEF Spec

(* Theorem: each slot of each limiter is accounted for, and none gives out *)
(* more than it has, whatever the stops, restarts, refusals and late       *)
(* 'done's (Limiter.ts runTask and schedule, Scheduler.ts start and stop). *)
THEOREM SlotsAccountedAlways == Spec => []SlotsAccounted
<1>1. IInv => SlotsAccounted
  <2> SUFFICES ASSUME IInv PROVE SlotsAccounted
    OBVIOUS
  <2>1. Slots(Polling, Held) /\ lost \in [Resources -> Nat] /\ HandlersInv
    BY DEF IInv, SlotInv
  <2>2. mainQueue \in Seq(Tasks)
    BY StateTypes, PollingFields DEF IInv, PollingInv, Tidy
  <2>3. ASSUME NEW r \in Resources
        PROVE  /\ taken[r] = JobsOf(r, mainQueue) + JobsRunning(r) + lost[r]
               /\ taken[r] <= Concurrency[r]
    <3> DEFINE x == JobsOf(r, mainQueue)
               y == JobsRunning(r)
               z == lost[r]
    <3>1. x \in Nat /\ y \in Nat /\ z \in Nat
      BY <2>1, <2>2, JobsOfNum, HeldType
    <3>2. taken[r] = x + (y + z) /\ taken[r] <= Concurrency[r]
      BY <2>1, PollingFields DEF Slots, Held
    <3> HIDE DEF x, y, z
    <3>3. taken[r] = x + y + z
      BY <3>1, <3>2
    <3> QED BY <3>2, <3>3 DEF x, y, z
  <2> QED BY <2>1, <2>3 DEF HandlersInv, SlotsAccounted
<1> QED BY <1>1, Inductive, PTL

(* Theorem: a group that is polled has a timer or waits for tasks, all of  *)
(* which are in a queue or run, if the limiter of its resource never drops *)
(* a task (PollingManager.ts onDoneTaskHandler, PollingExecutor.ts         *)
(* onEndCycle).  And a queue that holds jobs has a chain that is about to  *)
(* look at it or awaits a job that is not gone (Limiter.ts                 *)
(* nextJobExecution), while no stop() has cleared a job of the resource.   *)
THEOREM PollingGoesOnAlways == Spec => []PollingGoesOn
<1>1. IInv => PollingGoesOn
  <2> SUFFICES ASSUME IInv, NEW g \in attached
               PROVE  LET r == ResourceOf[g]
                      IN  /\ Strategy[r] = "overflow" =>
                               /\ g \in scanTimer \/ orphans[g] > 0 \/ pending[g] # {}
                               /\ stopAt = 0 => \A task \in pending[g] : InFlight(Polling, task)
                          /\ stopAt = 0 /\ lost[r] = 0 /\ queue[r] # <<>> =>
                               looks[r] > 0 \/ IsAwaited(Polling, r)
    BY DEF PollingGoesOn
  <2> DEFINE r == ResourceOf[g]
  <2>1. Strategy[r] = "overflow" =>
          Armed(Polling, g) /\ (stopAt = 0 => Answered(Polling, running, g))
    BY DEF IInv, PollingInv, Lossless
  <2>2. Polling \in PollingStates /\ running \in Runs /\ pending[g] \subseteq Tasks
    BY StateTypes, PollingFields DEF IInv, PollingInv, Tidy, HandlersInv
  <2>3. \A task \in Tasks : Flights(Polling, running, task) > 0 <=> InFlight(Polling, task)
    BY <2>2, FlightsInFlight
  <2>4. Strategy[r] = "overflow" =>
          /\ g \in scanTimer \/ orphans[g] > 0 \/ pending[g] # {}
          /\ stopAt = 0 => \A task \in pending[g] : InFlight(Polling, task)
    BY <2>1, <2>2, <2>3, PollingFields DEF Armed, Answered
  <2>5. Awaits(Polling, awaited, r) <=> IsAwaited(Polling, r)
    BY DEF Awaits, IsAwaited
  <2>6. stopAt = 0 /\ lost[r] = 0 /\ queue[r] # <<>> => looks[r] > 0 \/ IsAwaited(Polling, r)
    BY <2>5, PollingFields DEF IInv, ChainInv, Guarded, Watched
  <2> QED BY <2>4, <2>6
<1> QED BY <1>1, Inductive, PTL

(* Theorem: a group that nothing has disturbed has one loop, and no timer  *)
(* survives a stop() (PollingExecutor.ts start, stop and onEndCycle).      *)
THEOREM OneLoopAlways == Spec => []OneLoop
<1>1. IInv => OneLoop
  <2> SUFFICES ASSUME IInv PROVE OneLoop
    OBVIOUS
  <2>1. /\ attached \subseteq Groups /\ scanTimer \subseteq attached
        /\ \A g \in Groups \ disturbed :
             /\ orphans[g] = 0
             /\ g \in attached => (g \in scanTimer <=> pending[g] = {})
    BY StateTypes, PollingFields DEF IInv, PollingInv, Tidy, LoopOf
  <2>2. ~isRunning => attached = {}
    BY DEF IInv, ControlInv
  <2> QED BY <2>1, <2>2 DEF OneLoop
<1> QED BY <1>1, Inductive, PTL
=============================================================================
