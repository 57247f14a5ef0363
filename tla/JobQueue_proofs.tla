--------------------------- MODULE JobQueue_proofs --------------------------
(***************************************************************************)
(* The job queue, for queues of any length, any jobs and any options:      *)
(* what every operation preserves, which are lemmas for the modules that   *)
(* use a queue, what holds of a queue and its client, and that the binary  *)
(* search of enqueue (module LowerBound) is right.                         *)
(***************************************************************************)
EXTENDS QueueClient, LowerBound, TLAPS

(* What splice does to an array, element by element. *)
LEMMA InsertAtFacts ==
  ASSUME NEW S, NEW s \in Seq(S), NEW n \in 1..(Len(s) + 1), NEW e \in S
  PROVE  /\ InsertAt(s, n, e) \in Seq(S)
         /\ Len(InsertAt(s, n, e)) = Len(s) + 1
         /\ \A i \in 1..(Len(s) + 1) :
              InsertAt(s, n, e)[i] =
                IF i < n THEN s[i] ELSE IF i = n THEN e ELSE s[i - 1]
<1> DEFINE left == SubSeq(s, 1, n - 1)
           right == SubSeq(s, n, Len(s))
<1>1. left \in Seq(S) /\ Len(left) = n - 1 /\ \A i \in 1..(n - 1) : left[i] = s[i]
  OBVIOUS
<1>2. /\ right \in Seq(S) /\ Len(right) = Len(s) - n + 1
      /\ \A i \in 1..(Len(s) - n + 1) : right[i] = s[n + i - 1]
  OBVIOUS
<1> HIDE DEF left, right
<1>3. /\ left \o <<e>> \in Seq(S) /\ Len(left \o <<e>>) = n
      /\ \A i \in 1..n : (left \o <<e>>)[i] = IF i < n THEN s[i] ELSE e
  BY <1>1
<1>4. InsertAt(s, n, e) = (left \o <<e>>) \o right
  BY DEF InsertAt, left, right
<1> HIDE DEF left, right
<1> DEFINE start == left \o <<e>>
<1> HIDE DEF start
<1>5. /\ InsertAt(s, n, e) \in Seq(S)
      /\ Len(InsertAt(s, n, e)) = Len(s) + 1
  <2>1. /\ start \in Seq(S) /\ Len(start) = n /\ InsertAt(s, n, e) = start \o right
    BY <1>3, <1>4 DEF start
  <2> QED BY <1>2, <2>1
<1>6. ASSUME NEW i \in 1..n
      PROVE  InsertAt(s, n, e)[i] = IF i < n THEN s[i] ELSE e
  <2>1. start \in Seq(S) /\ Len(start) = n /\ start[i] = IF i < n THEN s[i] ELSE e
    BY <1>3 DEF start
  <2>2. (start \o right)[i] = start[i]
    BY <1>2, <2>1
  <2> QED BY <1>4, <2>1, <2>2 DEF start
<1>7. ASSUME NEW i \in (n + 1)..(Len(s) + 1)
      PROVE  InsertAt(s, n, e)[i] = s[i - 1]
  <2>1. i - n \in 1..(Len(s) - n + 1) /\ right[i - n] = s[n + (i - n) - 1]
    BY <1>2
  <2>2. start \in Seq(S) /\ Len(start) = n /\ InsertAt(s, n, e) = start \o right
    BY <1>3, <1>4 DEF start
  <2>3. (start \o right)[i] = right[i - n]
    BY <1>2, <2>1, <2>2
  <2>4. n + (i - n) - 1 = i - 1
    OBVIOUS
  <2> QED BY <2>1, <2>2, <2>3, <2>4
<1> QED BY <1>5, <1>6, <1>7

LEMMA RemoveAtFacts ==
  ASSUME NEW S, NEW s \in Seq(S), NEW n \in 1..Len(s)
  PROVE  /\ RemoveAt(s, n) \in Seq(S)
         /\ Len(RemoveAt(s, n)) = Len(s) - 1
         /\ \A i \in 1..(Len(s) - 1) :
              RemoveAt(s, n)[i] = IF i < n THEN s[i] ELSE s[i + 1]
<1> DEFINE left == SubSeq(s, 1, n - 1)
           right == SubSeq(s, n + 1, Len(s))
<1>1. left \in Seq(S) /\ Len(left) = n - 1 /\ \A i \in 1..(n - 1) : left[i] = s[i]
  OBVIOUS
<1>2. /\ right \in Seq(S) /\ Len(right) = Len(s) - n
      /\ \A i \in 1..(Len(s) - n) : right[i] = s[n + i]
  OBVIOUS
<1> HIDE DEF left, right
<1>3. RemoveAt(s, n) = left \o right
  BY DEF RemoveAt, left, right
<1>4. /\ RemoveAt(s, n) \in Seq(S)
      /\ Len(RemoveAt(s, n)) = Len(s) - 1
  BY <1>1, <1>2, <1>3
<1>5. ASSUME NEW i \in 1..(n - 1) PROVE RemoveAt(s, n)[i] = s[i]
  BY <1>1, <1>2, <1>3
<1>6. ASSUME NEW i \in n..(Len(s) - 1) PROVE RemoveAt(s, n)[i] = s[i + 1]
  <2>1. i - n + 1 \in 1..(Len(s) - n) /\ right[i - n + 1] = s[n + (i - n + 1)]
    BY <1>2
  <2>2. (left \o right)[i] = right[i - n + 1]
    BY <1>1, <1>2, <2>1
  <2> QED BY <1>3, <2>1, <2>2
<1> QED BY <1>4, <1>5, <1>6
-----------------------------------------------------------------------------
(* What r and s have in common when r holds jobs of s in the order of s. *)
Drawn(r, s) ==
  /\ \A i \in 1..Len(r) : \E a \in 1..Len(s) : r[i] = s[a]
  /\ \A i, k \in 1..Len(r) : i < k =>
       \E a, b \in 1..Len(s) : a < b /\ r[i] = s[a] /\ r[k] = s[b]

Injective(s) == \A i, k \in 1..Len(s) : s[i] = s[k] => i = k

LEMMA DrawnFacts ==
  ASSUME NEW r \in Seq(Jobs), NEW s \in Seq(Jobs), Drawn(r, s), Sorted(s), Injective(s)
  PROVE  Sorted(r) /\ Injective(r)
<1>1. Sorted(r)
  <2> SUFFICES ASSUME NEW i \in 1..Len(r), NEW k \in 1..Len(r), i < k
               PROVE  Priority[r[i]] >= Priority[r[k]]
    BY DEF Sorted
  <2>1. PICK a \in 1..Len(s), b \in 1..Len(s) : a < b /\ r[i] = s[a] /\ r[k] = s[b]
    BY DEF Drawn
  <2>2. Priority[s[a]] >= Priority[s[b]]
    BY <2>1 DEF Sorted
  <2> QED BY <2>1, <2>2
<1>2. Injective(r)
  <2> SUFFICES ASSUME NEW i \in 1..Len(r), NEW k \in 1..Len(r), r[i] = r[k], i < k PROVE FALSE
    <3>1. \A i, k \in 1..Len(r) : ~(i < k) /\ ~(k < i) => i = k
      OBVIOUS
    <3> QED BY <3>1 DEF Injective
  <2>1. PICK a \in 1..Len(s), b \in 1..Len(s) : a < b /\ r[i] = s[a] /\ r[k] = s[b]
    BY DEF Drawn
  <2>2. s[a] = s[b]
    BY <2>1
  <2>3. a = b
    BY <2>2 DEF Injective
  <2> QED BY <2>1, <2>3
<1> QED BY <1>1, <1>2

LEMMA RemoveDrawn ==
  ASSUME NEW s \in Seq(Jobs), NEW n \in 1..Len(s) PROVE Drawn(RemoveAt(s, n), s)
<1> DEFINE r == RemoveAt(s, n)
<1>1. /\ r \in Seq(Jobs) /\ Len(r) = Len(s) - 1
      /\ \A i \in 1..Len(r) : r[i] = IF i < n THEN s[i] ELSE s[i + 1]
  BY RemoveAtFacts
<1> HIDE DEF r
<1>2. ASSUME NEW i \in 1..Len(r) PROVE \E a \in 1..Len(s) : r[i] = s[a]
  BY <1>1
<1>3. ASSUME NEW i \in 1..Len(r), NEW k \in 1..Len(r), i < k
      PROVE  \E a, b \in 1..Len(s) : a < b /\ r[i] = s[a] /\ r[k] = s[b]
  <2>1. CASE k < n
    <3>1. i \in 1..Len(s) /\ k \in 1..Len(s) /\ r[i] = s[i] /\ r[k] = s[k]
      BY <1>1, <1>3, <2>1
    <3> QED BY <1>3, <3>1
  <2>2. CASE i < n /\ ~(k < n)
    <3>1. i \in 1..Len(s) /\ k + 1 \in 1..Len(s) /\ i < k + 1 /\ r[i] = s[i] /\ r[k] = s[k + 1]
      BY <1>1, <1>3, <2>2
    <3> QED BY <3>1
  <2>3. CASE ~(i < n)
    <3>1. /\ i + 1 \in 1..Len(s) /\ k + 1 \in 1..Len(s) /\ i + 1 < k + 1
          /\ r[i] = s[i + 1] /\ r[k] = s[k + 1]
      BY <1>1, <1>3, <2>3
    <3> QED BY <3>1
  <2> QED BY <2>1, <2>2, <2>3
<1> QED BY <1>2, <1>3 DEF Drawn, r

LEMMA TailDrawn ==
  ASSUME NEW s \in Seq(Jobs), s # <<>>
  PROVE  /\ Drawn(Tail(s), s)
         /\ Injective(s) => \A i \in 1..Len(Tail(s)) : Tail(s)[i] # Head(s)
         /\ \A i \in 1..Len(s) : s[i] = Head(s) \/ \E k \in 1..Len(Tail(s)) : Tail(s)[k] = s[i]
<1> DEFINE r == Tail(s)
<1>1. /\ Len(r) = Len(s) - 1 /\ Head(s) = s[1] /\ Len(s) \in Nat /\ 1 \in 1..Len(s)
      /\ \A i \in 1..Len(r) : i + 1 \in 1..Len(s) /\ r[i] = s[i + 1]
  OBVIOUS
<1> HIDE DEF r
<1>2. ASSUME NEW i \in 1..Len(r), NEW k \in 1..Len(r), i < k
      PROVE  \E a, b \in 1..Len(s) : a < b /\ r[i] = s[a] /\ r[k] = s[b]
  <2>1. /\ i + 1 \in 1..Len(s) /\ k + 1 \in 1..Len(s) /\ i + 1 < k + 1
        /\ r[i] = s[i + 1] /\ r[k] = s[k + 1]
    BY <1>1, <1>2
  <2> QED BY <2>1
<1>3. Injective(s) => \A i \in 1..Len(r) : r[i] # Head(s)
  <2> SUFFICES ASSUME Injective(s), NEW i \in 1..Len(r) PROVE r[i] # Head(s)
    OBVIOUS
  <2>1. i + 1 \in 1..Len(s) /\ i + 1 # 1 /\ r[i] = s[i + 1]
    BY <1>1
  <2> QED BY <1>1, <2>1 DEF Injective
<1>4. ASSUME NEW i \in 1..Len(s) PROVE s[i] = Head(s) \/ \E k \in 1..Len(r) : r[k] = s[i]
  <2>1. CASE i = 1
    BY <1>1, <2>1
  <2>2. CASE i # 1
    <3>1. i - 1 \in 1..Len(r) /\ r[i - 1] = s[i]
      BY <1>1, <2>2
    <3> QED BY <3>1
  <2> QED BY <2>1, <2>2
<1> QED BY <1>1, <1>2, <1>3, <1>4 DEF Drawn, r

(* A job that enters at its insertion point keeps the queue sorted. *)
LEMMA InsertContents ==
  ASSUME NEW q \in Seq(Jobs), NEW job \in Jobs, Sorted(q), Injective(q),
         \A i \in 1..Len(q) : q[i] # job, Insert(q, job)
  PROVE  /\ queue' \in Seq(Jobs) /\ Sorted(queue') /\ Injective(queue')
         /\ \A i \in 1..Len(queue') : queue'[i] = job \/ \E a \in 1..Len(q) : queue'[i] = q[a]
<1>1. PICK n \in 1..(Len(q) + 1) : InsertionPoint(q, job, n) /\ queue' = InsertAt(q, n, job)
  BY DEF Insert
<1> DEFINE r == InsertAt(q, n, job)
<1>2. r \in Seq(Jobs) /\ Len(r) = Len(q) + 1
  BY InsertAtFacts
<1>3. \A i \in 1..(Len(q) + 1) : r[i] = IF i < n THEN q[i] ELSE IF i = n THEN job ELSE q[i - 1]
  BY InsertAtFacts
<1>4. queue' = r
  BY <1>1
<1> HIDE DEF r
<1>5. ASSUME NEW i \in 1..Len(r)
      PROVE  \/ i = n /\ r[i] = job
             \/ i < n /\ i \in 1..Len(q) /\ r[i] = q[i]
             \/ n < i /\ i - 1 \in 1..Len(q) /\ r[i] = q[i - 1]
  <2>1. i \in 1..(Len(q) + 1) /\ Len(q) \in Nat
    BY <1>2
  <2>2. CASE i = n
    BY <1>3, <2>1, <2>2
  <2>3. CASE i < n
    BY <1>3, <2>1, <2>3
  <2>4. CASE n < i
    <3>1. r[i] = q[i - 1] /\ i - 1 \in 1..Len(q)
      BY <1>3, <2>1, <2>4
    <3> QED BY <2>4, <3>1
  <2> QED BY <2>1, <2>2, <2>3, <2>4
<1>6. ASSUME NEW i \in 1..Len(r) PROVE r[i] = job \/ \E a \in 1..Len(q) : r[i] = q[a]
  BY <1>5
<1>7. Priority[job] \in Int /\ \A a \in 1..Len(q) : Priority[q[a]] \in Int
  BY PriorityAssumption
<1>8. ASSUME NEW i \in 1..Len(r), NEW k \in 1..Len(r), i < k
      PROVE  r[i] # r[k] /\ Priority[r[i]] >= Priority[r[k]]
  <2>1. CASE i = n
    <3>1. r[i] = job /\ k - 1 \in 1..Len(q) /\ k - 1 \in n..Len(q) /\ r[k] = q[k - 1]
      BY <1>2, <1>3, <1>8, <2>1
    <3>2. Priority[q[k - 1]] < Priority[job]
      BY <1>1, <3>1 DEF InsertionPoint
    <3> QED BY <1>7, <3>1, <3>2
  <2>2. CASE k = n
    <3>1. r[k] = job /\ i \in 1..Len(q) /\ i \in 1..(n - 1) /\ r[i] = q[i]
      BY <1>2, <1>3, <1>8, <2>2
    <3>2. Priority[q[i]] >= Priority[job]
      BY <1>1, <3>1 DEF InsertionPoint
    <3> QED BY <1>7, <3>1, <3>2
  <2>3. CASE i # n /\ k # n
    <3>1. PICK a \in 1..Len(q), b \in 1..Len(q) : a < b /\ r[i] = q[a] /\ r[k] = q[b]
      <4>1. CASE k < n
        BY <1>5, <1>8, <4>1
      <4>2. CASE i < n /\ n < k
        <5>1. i \in 1..Len(q) /\ k - 1 \in 1..Len(q) /\ i < k - 1 /\ r[i] = q[i] /\ r[k] = q[k - 1]
          BY <1>2, <1>3, <4>2
        <5> QED BY <5>1
      <4>3. CASE n < i
        <5>1. /\ i - 1 \in 1..Len(q) /\ k - 1 \in 1..Len(q) /\ i - 1 < k - 1
              /\ r[i] = q[i - 1] /\ r[k] = q[k - 1]
          BY <1>2, <1>3, <1>8, <4>3
        <5> QED BY <5>1
      <4>4. k < n \/ (i < n /\ n < k) \/ n < i
        BY <1>2, <2>3
      <4> QED BY <4>1, <4>2, <4>3, <4>4
    <3>2. q[a] # q[b] /\ Priority[q[a]] >= Priority[q[b]]
      BY <3>1 DEF Sorted, Injective
    <3> QED BY <3>1, <3>2
  <2> QED BY <2>1, <2>2, <2>3
<1>9. Sorted(r)
  BY <1>8 DEF Sorted
<1>10. Injective(r)
  <2>1. \A i, k \in 1..Len(r) : r[i] = r[k] => ~(i < k) /\ ~(k < i)
    BY <1>8
  <2> QED BY <1>2, <2>1 DEF Injective
<1> QED BY <1>2, <1>4, <1>6, <1>9, <1>10

-----------------------------------------------------------------------------
(* The invariant of the queue. *)
QueueInv == QueueTypeOK /\ WithinHighWater /\ BlockedIsEmpty

LEMMA InitQueueInv == QueueInit => QueueInv
<1> SUFFICES ASSUME QueueInit PROVE QueueInv
  OBVIOUS
<1>1. /\ queue \in Seq(Jobs) /\ Len(queue) = 0
      /\ actualBucketSize \in 0..BucketSize /\ strategy \in Strategies
  BY QueueAssumption DEF QueueInit
<1>2. refillTimer = (BucketSize > 0) /\ blocked = FALSE
  BY DEF QueueInit
<1>3. refillTimer \in BOOLEAN
  <2>1. CASE BucketSize > 0
    BY <1>2, <2>1
  <2>2. CASE ~(BucketSize > 0)
    BY <1>2, <2>2
  <2> QED BY <2>1, <2>2
<1>4. Len(queue) <= HighWater
  BY <1>1, QueueAssumption
<1> QED BY <1>1, <1>2, <1>3, <1>4 DEF QueueInv, QueueTypeOK, WithinHighWater, BlockedIsEmpty

LEMMA StutterQueueInv == QueueInv /\ UNCHANGED queueVars => QueueInv'
BY DEF QueueInv, QueueTypeOK, WithinHighWater, BlockedIsEmpty, queueVars

(* enqueue grows the queue by one, or drops one job for the new one. *)
LEMMA AcceptQueueInv ==
  ASSUME QueueInv, NEW job \in Jobs, Accept(job) PROVE QueueInv'
<1>1. queue \in Seq(Jobs) /\ Len(queue) \in Nat /\ Len(queue) <= HighWater /\ HighWater \in Nat
  BY QueueAssumption DEF QueueInv, QueueTypeOK, WithinHighWater
<1>2. ASSUME NEW q \in Seq(Jobs), Insert(q, job)
      PROVE  queue' \in Seq(Jobs) /\ Len(queue') = Len(q) + 1
  <2>1. PICK n \in 1..(Len(q) + 1) : queue' = InsertAt(q, n, job)
    BY <1>2 DEF Insert
  <2> QED BY <2>1, InsertAtFacts
<1>3. queue' \in Seq(Jobs) /\ Len(queue') <= HighWater
  <2>1. CASE ~Full /\ Insert(queue, job)
    BY <1>1, <1>2, <2>1 DEF Full
  <2>2. CASE Full /\ \E n \in 1..Len(queue) : Insert(RemoveAt(queue, n), job)
    <3>1. PICK n \in 1..Len(queue) : Insert(RemoveAt(queue, n), job)
      BY <2>2
    <3>2. RemoveAt(queue, n) \in Seq(Jobs) /\ Len(RemoveAt(queue, n)) = Len(queue) - 1
      BY <1>1, RemoveAtFacts
    <3> QED BY <1>1, <1>2, <3>1, <3>2
  <2> QED BY <2>1, <2>2 DEF Accept
<1> QED BY <1>3 DEF Accept, QueueInv, QueueTypeOK, WithinHighWater, BlockedIsEmpty

LEMMA EmptyQueueInv ==
  ASSUME QueueInv, Empty, strategy' = strategy, blocked' \in BOOLEAN PROVE QueueInv'
<1>1. queue' \in Seq(Jobs) /\ Len(queue') = 0 /\ queue' = <<>>
  BY DEF Empty
<1>2. actualBucketSize' \in 0..BucketSize /\ refillTimer' \in BOOLEAN
  <2>1. BucketSize \in 0..BucketSize
    BY QueueAssumption
  <2> QED BY <2>1, Zenon DEF QueueInv, QueueTypeOK, Empty
<1> QED BY <1>1, <1>2, QueueAssumption
        DEF QueueInv, QueueTypeOK, WithinHighWater, BlockedIsEmpty

LEMMA ClearQueueInv == QueueInv /\ Clear => QueueInv'
BY EmptyQueueInv DEF Clear, QueueInv, QueueTypeOK

LEMMA RejectQueueInv ==
  ASSUME QueueInv, NEW job \in Jobs, Reject(job) PROVE QueueInv'
<1>1. CASE UNCHANGED queueVars
  BY <1>1, StutterQueueInv
<1>2. CASE Empty /\ blocked' = TRUE /\ UNCHANGED strategy
  BY <1>2, EmptyQueueInv
<1> QED BY <1>1, <1>2 DEF Reject

LEMMA DequeueQueueInv ==
  ASSUME QueueInv, NEW job \in Jobs, Dequeue(job) PROVE QueueInv'
<1>1. queue \in Seq(Jobs) /\ queue # <<>> /\ queue' = Tail(queue)
  BY DEF Dequeue, QueueInv, QueueTypeOK
<1>2. queue' \in Seq(Jobs) /\ Len(queue') = Len(queue) - 1 /\ Len(queue) \in Nat
  BY <1>1
<1>3. actualBucketSize' \in 0..BucketSize
  BY QueueAssumption DEF Dequeue, TakeTokens, QueueInv, QueueTypeOK
<1> QED BY <1>1, <1>2, <1>3, QueueAssumption
        DEF Dequeue, QueueInv, QueueTypeOK, WithinHighWater, BlockedIsEmpty

LEMMA RefillQueueInv == QueueInv /\ RefillBucket => QueueInv'
BY QueueAssumption DEF RefillBucket, QueueInv, QueueTypeOK, WithinHighWater, BlockedIsEmpty

LEMMA UnblockQueueInv == QueueInv /\ Unblock => QueueInv'
BY DEF Unblock, QueueInv, QueueTypeOK, WithinHighWater, BlockedIsEmpty

(* enqueue keeps the queue sorted and without duplicates, and adds nothing *)
(* to it but the job.                                                      *)
LEMMA AcceptContents ==
  ASSUME QueueInv, NEW job \in Jobs, Accept(job), Sorted(queue), Injective(queue),
         \A i \in 1..Len(queue) : queue[i] # job
  PROVE  /\ Sorted(queue') /\ Injective(queue')
         /\ \A i \in 1..Len(queue') :
              queue'[i] = job \/ \E a \in 1..Len(queue) : queue'[i] = queue[a]
<1>1. queue \in Seq(Jobs)
  BY DEF QueueInv, QueueTypeOK
<1>2. CASE Insert(queue, job)
  BY <1>1, <1>2, InsertContents
<1>3. CASE \E n \in 1..Len(queue) : Insert(RemoveAt(queue, n), job)
  <2>1. PICK n \in 1..Len(queue) : Insert(RemoveAt(queue, n), job)
    BY <1>3
  <2> DEFINE q == RemoveAt(queue, n)
  <2>2. q \in Seq(Jobs) /\ Drawn(q, queue) /\ Insert(q, job)
    BY <1>1, <2>1, RemoveAtFacts, RemoveDrawn
  <2> HIDE DEF q
  <2>3. Sorted(q) /\ Injective(q)
    BY <1>1, <2>2, DrawnFacts
  <2>4. \A i \in 1..Len(q) : \E a \in 1..Len(queue) : q[i] = queue[a]
    BY <2>2 DEF Drawn
  <2>5. \A i \in 1..Len(q) : q[i] # job
    BY <2>4
  <2>6. /\ Sorted(queue') /\ Injective(queue')
        /\ \A i \in 1..Len(queue') : queue'[i] = job \/ \E a \in 1..Len(q) : queue'[i] = q[a]
    BY <2>2, <2>3, <2>5, InsertContents
  <2> QED BY <2>4, <2>6
<1> QED BY <1>2, <1>3 DEF Accept
-----------------------------------------------------------------------------
(***************************************************************************)
(* A queue and its client.                                                 *)
(***************************************************************************)

(* The types of the history, apart from the queue's own invariant. *)
HistoryTypeOK ==
  /\ offered \subseteq Jobs
  /\ accepted \in Seq(Jobs)
  /\ spent \in Nat
  /\ refills \in Nat

LEMMA InitTypes == ClientInit => QueueInv /\ HistoryTypeOK
BY InitQueueInv DEF ClientInit, HistoryTypeOK

LEMMA NextTypes == QueueInv /\ HistoryTypeOK /\ [ClientNext]_clientVars => (QueueInv /\ HistoryTypeOK)'
<1> SUFFICES ASSUME QueueInv, HistoryTypeOK, [ClientNext]_clientVars PROVE (QueueInv /\ HistoryTypeOK)'
  OBVIOUS
<1>1. ASSUME NEW job \in Jobs, Offer(job) PROVE (QueueInv /\ HistoryTypeOK)'
  <2>1. QueueInv'
    BY <1>1, AcceptQueueInv, RejectQueueInv DEF Offer
  <2> QED BY <1>1, <2>1 DEF Offer, HistoryTypeOK
<1>2. ASSUME NEW job \in Jobs, Drain(job) PROVE (QueueInv /\ HistoryTypeOK)'
  <2>1. QueueInv'
    BY <1>2, DequeueQueueInv DEF Drain
  <2>2. Weight[job] \in Nat
    BY QueueAssumption
  <2> QED BY <1>2, <2>1, <2>2 DEF Drain, HistoryTypeOK
<1>3. CASE Reset
  BY <1>3, ClearQueueInv DEF Reset, HistoryTypeOK, historyVars
<1>4. CASE TimerRefills
  <2>1. QueueInv'
    BY <1>4, RefillQueueInv DEF TimerRefills
  <2> QED BY <1>4, <2>1 DEF TimerRefills, HistoryTypeOK
<1>5. CASE PenaltyEnds
  BY <1>5, UnblockQueueInv DEF PenaltyEnds, HistoryTypeOK, historyVars
<1>6. CASE UNCHANGED clientVars
  BY <1>6, StutterQueueInv DEF clientVars, HistoryTypeOK, historyVars
<1> QED BY <1>1, <1>2, <1>3, <1>4, <1>5, <1>6 DEF ClientNext

LEMMA AlwaysTypes == ClientSpec => [](QueueInv /\ HistoryTypeOK)
BY InitTypes, NextTypes, PTL DEF ClientSpec

(* The variables keep their types, the bucket its bounds. *)
THEOREM ClientTypeCorrect == ClientSpec => []ClientTypeOK
<1>1. QueueInv /\ HistoryTypeOK => ClientTypeOK
  BY DEF QueueInv, HistoryTypeOK, ClientTypeOK
<1> QED BY <1>1, AlwaysTypes, PTL

(* Whatever the strategy, a queue never holds more jobs than highWater. *)
THEOREM WithinHighWaterAlways == ClientSpec => []WithinHighWater
<1>1. QueueInv => WithinHighWater
  BY DEF QueueInv
<1> QED BY <1>1, AlwaysTypes, PTL

(* No job waits in a queue that refuses everything. *)
THEOREM BlockedIsEmptyAlways == ClientSpec => []BlockedIsEmpty
<1>1. QueueInv => BlockedIsEmpty
  BY DEF QueueInv
<1> QED BY <1>1, AlwaysTypes, PTL
-----------------------------------------------------------------------------
(* The rate.  What the timer has put into the bucket is a product, which   *)
(* the prover is kept from looking into.                                   *)
LEMMA InitRate == ClientInit => RateBound
<1> SUFFICES ASSUME ClientInit, BucketSize > 0 PROVE RateBound
  BY DEF RateBound
<1>1. refillTimer = (BucketSize > 0) /\ spent = 0 /\ refills = 0 /\ actualBucketSize = BucketSize
  BY DEF ClientInit, QueueInit
<1>2. TokensPerInterval * 0 = 0
  BY QueueAssumption
<1> QED BY <1>1, <1>2, QueueAssumption DEF RateBound

LEMMA NextRate ==
  QueueInv /\ HistoryTypeOK /\ RateBound /\ [ClientNext]_clientVars => RateBound'
<1> SUFFICES ASSUME QueueInv, HistoryTypeOK, RateBound, [ClientNext]_clientVars, BucketSize > 0
             PROVE  RateBound'
  BY DEF RateBound
<1> DEFINE given == TokensPerInterval * refills
<1>1. /\ BucketSize \in Nat /\ TokensPerInterval \in Nat /\ given \in Nat
      /\ actualBucketSize \in 0..BucketSize /\ spent \in Nat /\ refills \in Nat
      /\ refillTimer \in BOOLEAN
  BY QueueAssumption DEF QueueInv, QueueTypeOK, HistoryTypeOK
<1>2. spent + actualBucketSize <= BucketSize + given + (IF refillTimer THEN 0 ELSE BucketSize)
  BY DEF RateBound
<1>3. TokensPerInterval * (refills + 1) = given + TokensPerInterval
  BY <1>1
<1>4. ASSUME spent' = spent, refills' = refills, refillTimer' = refillTimer,
             actualBucketSize' = actualBucketSize
      PROVE  RateBound'
  BY <1>2, <1>4 DEF RateBound
<1>5. ASSUME Empty, spent' = spent, refills' = refills PROVE RateBound'
  <2>1. refills' = refills /\ spent' = spent /\ refillTimer' = FALSE
    BY <1>5 DEF Empty
  <2>2. spent + actualBucketSize' <= BucketSize + given + BucketSize
    <3> HIDE DEF given
    <3>1. CASE refillTimer
      BY <1>1, <1>2, <1>5, <3>1 DEF Empty
    <3>2. CASE ~refillTimer
      BY <1>1, <1>2, <1>5, <3>2 DEF Empty
    <3> QED BY <1>1, <3>1, <3>2
  <2> QED BY <2>1, <2>2 DEF RateBound
<1>6. ASSUME NEW job \in Jobs, Offer(job) PROVE RateBound'
  BY <1>4, <1>5, <1>6 DEF Offer, Accept, Reject, queueVars
<1>7. ASSUME NEW job \in Jobs, Drain(job) PROVE RateBound'
  <2>1. /\ spent' = spent + Weight[job] /\ actualBucketSize' = actualBucketSize - Weight[job]
        /\ refills' = refills /\ refillTimer' = refillTimer
    BY <1>1, <1>7 DEF Drain, Dequeue, TakeTokens
  <2>2. spent' + actualBucketSize' = spent + actualBucketSize
    BY <1>1, <2>1, QueueAssumption
  <2> QED BY <1>2, <2>1, <2>2 DEF RateBound
<1>8. CASE Reset
  BY <1>5, <1>8 DEF Reset, Clear, historyVars
<1>9. CASE TimerRefills
  <2>1. refillTimer /\ refillTimer' = refillTimer /\ spent' = spent
    BY <1>9 DEF TimerRefills, RefillBucket
  <2>2. CASE actualBucketSize < BucketSize
    <3>1. refills' = refills + 1 /\ actualBucketSize' <= actualBucketSize + TokensPerInterval
      BY <1>1, <1>9, <2>2, QueueAssumption DEF TimerRefills, Refills, RefillBucket
    <3>2. TokensPerInterval * refills' = given + TokensPerInterval
      BY <1>3, <3>1
    <3>3. PICK bucket \in Int : bucket = actualBucketSize'
      BY <1>1, <1>9 DEF TimerRefills, RefillBucket
    <3>4. spent + bucket <= BucketSize + (given + TokensPerInterval) + 0
      <4> HIDE DEF given
      <4>1. spent + actualBucketSize <= BucketSize + given
        BY <1>1, <1>2, <2>1
      <4>2. bucket <= actualBucketSize + TokensPerInterval
        BY <3>1, <3>3
      <4> QED BY <1>1, <4>1, <4>2
    <3> QED BY <2>1, <3>2, <3>3, <3>4 DEF RateBound
  <2>3. CASE ~(actualBucketSize < BucketSize)
    <3>1. refills' = refills
      BY <1>9, <2>3 DEF TimerRefills, Refills
    <3>2. actualBucketSize' = actualBucketSize
      BY <1>1, <1>9, <2>3 DEF TimerRefills, RefillBucket
    <3> QED BY <1>4, <2>1, <3>1, <3>2
  <2> QED BY <2>2, <2>3
<1>10. CASE PenaltyEnds
  BY <1>4, <1>10 DEF PenaltyEnds, Unblock, historyVars
<1>11. CASE UNCHANGED clientVars
  BY <1>4, <1>11 DEF clientVars, historyVars, queueVars
<1> QED BY <1>6, <1>7, <1>8, <1>9, <1>10, <1>11 DEF ClientNext

(* The rate limit holds for every capacity of the bucket and every refill: *)
(* no order of offers, dequeues, timers and clear() spends more tokens.    *)
THEOREM RateBoundAlways == ClientSpec => []RateBound
BY InitRate, NextRate, AlwaysTypes, PTL DEF ClientSpec
-----------------------------------------------------------------------------
(* The order.  Every queued job was accepted, no job was accepted twice,   *)
(* and the queue is ordered: the rank of a job is its place in accepted.   *)
Rank(s, job) == CHOOSE n \in DOMAIN s : s[n] = job

Ordered(q, s) ==
  \A i, k \in 1..Len(q) : i < k =>
    \/ Priority[q[i]] > Priority[q[k]]
    \/ Priority[q[i]] = Priority[q[k]] /\ Rank(s, q[i]) < Rank(s, q[k])

AllIn(q, s) == \A i \in 1..Len(q) : \E n \in 1..Len(s) : s[n] = q[i]

OrderInv ==
  /\ Injective(accepted)
  /\ \A n \in 1..Len(accepted) : accepted[n] \in offered
  /\ AllIn(queue, accepted)
  /\ Ordered(queue, accepted)

LEMMA RankFacts ==
  ASSUME NEW s \in Seq(Jobs), Injective(s), NEW n \in 1..Len(s)
  PROVE  Rank(s, s[n]) = n
BY DEF Injective, Rank

(* A job that is accepted ranks behind all the others, whose rank stays. *)
LEMMA AppendFacts ==
  ASSUME NEW s \in Seq(Jobs), Injective(s), NEW job \in Jobs,
         \A n \in 1..Len(s) : s[n] # job
  PROVE  /\ Append(s, job) \in Seq(Jobs) /\ Len(Append(s, job)) = Len(s) + 1
         /\ Injective(Append(s, job))
         /\ Rank(Append(s, job), job) = Len(s) + 1
         /\ \A n \in 1..Len(s) : /\ Append(s, job)[n] = s[n]
                                 /\ Rank(s, s[n]) = n
                                 /\ Rank(Append(s, job), s[n]) = n
<1> DEFINE t == Append(s, job)
<1>1. /\ t \in Seq(Jobs) /\ Len(t) = Len(s) + 1 /\ t[Len(s) + 1] = job
      /\ \A n \in 1..Len(s) : t[n] = s[n]
  OBVIOUS
<1> HIDE DEF t
<1>2. Injective(t)
  BY <1>1 DEF Injective
<1>3. Rank(t, job) = Len(s) + 1
  BY <1>1, <1>2, RankFacts
<1>4. ASSUME NEW n \in 1..Len(s) PROVE Rank(s, s[n]) = n /\ Rank(t, s[n]) = n
  BY <1>1, <1>2, RankFacts
<1> QED BY <1>1, <1>2, <1>3, <1>4 DEF t

(* Taking a job out keeps the order. *)
LEMMA RemoveOrdered ==
  ASSUME NEW q \in Seq(Jobs), NEW s \in Seq(Jobs), NEW n \in 1..Len(q),
         AllIn(q, s), Ordered(q, s)
  PROVE  AllIn(RemoveAt(q, n), s) /\ Ordered(RemoveAt(q, n), s)
<1> DEFINE r == RemoveAt(q, n)
<1>1. r \in Seq(Jobs) /\ Drawn(r, q)
  BY RemoveAtFacts, RemoveDrawn
<1> HIDE DEF r
<1>2. AllIn(r, s)
  <2> SUFFICES ASSUME NEW i \in 1..Len(r) PROVE \E m \in 1..Len(s) : s[m] = r[i]
    BY DEF AllIn
  <2>1. PICK a \in 1..Len(q) : r[i] = q[a]
    BY <1>1 DEF Drawn
  <2> QED BY <2>1 DEF AllIn
<1>3. Ordered(r, s)
  <2> SUFFICES ASSUME NEW i \in 1..Len(r), NEW k \in 1..Len(r), i < k
               PROVE  \/ Priority[r[i]] > Priority[r[k]]
                      \/ Priority[r[i]] = Priority[r[k]] /\ Rank(s, r[i]) < Rank(s, r[k])
    BY DEF Ordered
  <2>1. PICK a \in 1..Len(q), b \in 1..Len(q) : a < b /\ r[i] = q[a] /\ r[k] = q[b]
    BY <1>1 DEF Drawn
  <2> QED BY <2>1 DEF Ordered
<1> QED BY <1>2, <1>3 DEF r

(* Inserting an accepted job at its insertion point keeps the order. *)
LEMMA InsertOrdered ==
  ASSUME NEW q \in Seq(Jobs), NEW s \in Seq(Jobs), NEW job \in Jobs,
         NEW n \in 1..(Len(q) + 1), InsertionPoint(q, job, n),
         Injective(s), \A m \in 1..Len(s) : s[m] # job,
         AllIn(q, s), Ordered(q, s)
  PROVE  /\ AllIn(InsertAt(q, n, job), Append(s, job))
         /\ Ordered(InsertAt(q, n, job), Append(s, job))
<1> DEFINE r == InsertAt(q, n, job)
           t == Append(s, job)
<1>1. /\ r \in Seq(Jobs) /\ Len(r) = Len(q) + 1
      /\ \A i \in 1..Len(r) : r[i] = IF i < n THEN q[i] ELSE IF i = n THEN job ELSE q[i - 1]
  <2>1. /\ r \in Seq(Jobs) /\ Len(r) = Len(q) + 1
        /\ \A i \in 1..(Len(q) + 1) :
             r[i] = IF i < n THEN q[i] ELSE IF i = n THEN job ELSE q[i - 1]
    BY InsertAtFacts
  <2> HIDE DEF r
  <2> QED BY <2>1
<1>2. /\ t \in Seq(Jobs) /\ Len(t) = Len(s) + 1 /\ t[Len(t)] = job
      /\ Rank(t, job) = Len(s) + 1
      /\ \A m \in 1..Len(s) : t[m] = s[m] /\ Rank(s, s[m]) = m /\ Rank(t, s[m]) = m
  BY AppendFacts
<1> HIDE DEF r, t
<1>3. ASSUME NEW i \in 1..Len(q)
      PROVE  /\ \E m \in 1..Len(t) : t[m] = q[i]
             /\ Rank(t, q[i]) = Rank(s, q[i])
             /\ Rank(t, q[i]) < Rank(t, job)
  <2>1. PICK m \in 1..Len(s) : s[m] = q[i]
    BY DEF AllIn
  <2> QED BY <1>2, <2>1
<1>4. AllIn(r, t)
  <2> SUFFICES ASSUME NEW i \in 1..Len(r) PROVE \E m \in 1..Len(t) : t[m] = r[i]
    BY DEF AllIn
  <2>1. CASE i = n
    BY <1>1, <1>2, <2>1
  <2>2. CASE i # n
    <3>1. CASE i < n
      <4>1. i \in 1..Len(q) /\ r[i] = q[i]
        BY <1>1, <3>1
      <4> QED BY <1>3, <4>1
    <3>2. CASE n < i
      <4>1. i - 1 \in 1..Len(q) /\ r[i] = q[i - 1]
        BY <1>1, <3>2
      <4> QED BY <1>3, <4>1
    <3> QED BY <2>2, <3>1, <3>2
  <2> QED BY <2>1, <2>2
<1>5. Ordered(r, t)
  <2> SUFFICES ASSUME NEW i \in 1..Len(r), NEW k \in 1..Len(r), i < k
               PROVE  \/ Priority[r[i]] > Priority[r[k]]
                      \/ Priority[r[i]] = Priority[r[k]] /\ Rank(t, r[i]) < Rank(t, r[k])
    BY DEF Ordered
  <2>1. Priority[job] \in Int /\ \A a \in 1..Len(q) : Priority[q[a]] \in Int
    BY PriorityAssumption
  <2>2. CASE k = n
    <3>1. r[k] = job /\ i \in 1..Len(q) /\ r[i] = q[i] /\ Priority[q[i]] >= Priority[job]
      BY <1>1, <2>2 DEF InsertionPoint
    <3> QED BY <1>3, <2>1, <3>1
  <2>3. CASE i = n
    <3>1. r[i] = job /\ k - 1 \in n..Len(q) /\ r[k] = q[k - 1]
      BY <1>1, <2>3
    <3>2. Priority[q[k - 1]] < Priority[job]
      BY <3>1 DEF InsertionPoint
    <3>3. Priority[q[k - 1]] \in Int
      BY <2>1, <3>1
    <3> QED BY <2>1, <3>1, <3>2, <3>3
  <2>4. CASE i # n /\ k # n
    <3>1. PICK a \in 1..Len(q), b \in 1..Len(q) : a < b /\ r[i] = q[a] /\ r[k] = q[b]
      <4>1. CASE k < n
        <5>1. i \in 1..Len(q) /\ k \in 1..Len(q) /\ r[i] = q[i] /\ r[k] = q[k]
          BY <1>1, <4>1
        <5> QED BY <5>1
      <4>2. CASE i < n /\ n < k
        <5>1. i \in 1..Len(q) /\ k - 1 \in 1..Len(q) /\ i < k - 1 /\ r[i] = q[i] /\ r[k] = q[k - 1]
          BY <1>1, <4>2
        <5> QED BY <5>1
      <4>3. CASE n < i
        <5>1. /\ i - 1 \in 1..Len(q) /\ k - 1 \in 1..Len(q) /\ i - 1 < k - 1
              /\ r[i] = q[i - 1] /\ r[k] = q[k - 1]
          BY <1>1, <4>3
        <5> QED BY <5>1
      <4>4. k < n \/ (i < n /\ n < k) \/ n < i
        <5>1. i \in Int /\ k \in Int /\ n \in Int
          BY <1>1
        <5> QED BY <2>4, <5>1
      <4> QED BY <4>1, <4>2, <4>3, <4>4
    <3>2. \/ Priority[q[a]] > Priority[q[b]]
          \/ Priority[q[a]] = Priority[q[b]] /\ Rank(s, q[a]) < Rank(s, q[b])
      BY <3>1 DEF Ordered
    <3> QED BY <1>3, <3>1, <3>2
  <2> QED BY <2>2, <2>3, <2>4
<1> QED BY <1>4, <1>5 DEF r, t

LEMMA InitOrder == ClientInit => OrderInv
BY DEF ClientInit, QueueInit, OrderInv, Injective, AllIn, Ordered

(* A job is offered once: it is not among the accepted ones. *)
LEMMA AcceptOrder ==
  ASSUME QueueInv, HistoryTypeOK, OrderInv, NEW job \in Jobs, job \notin offered,
         Accept(job), accepted' = Append(accepted, job),
         offered' = offered \union {job}
  PROVE  OrderInv'
<1>1. queue \in Seq(Jobs) /\ accepted \in Seq(Jobs)
  BY DEF QueueInv, QueueTypeOK, HistoryTypeOK
<1>2. \A n \in 1..Len(accepted) : accepted[n] # job
  BY DEF OrderInv
<1>3. /\ Len(accepted') = Len(accepted) + 1 /\ Injective(accepted')
      /\ \A n \in 1..Len(accepted) : accepted'[n] = accepted[n]
      /\ accepted'[Len(accepted) + 1] = job
  BY <1>1, <1>2, AppendFacts DEF OrderInv
<1>4. \A n \in 1..Len(accepted') : accepted'[n] \in offered'
  BY <1>1, <1>3 DEF OrderInv
<1>5. ASSUME NEW q \in Seq(Jobs), AllIn(q, accepted), Ordered(q, accepted), Insert(q, job)
      PROVE  AllIn(queue', accepted') /\ Ordered(queue', accepted')
  <2>1. PICK n \in 1..(Len(q) + 1) : InsertionPoint(q, job, n) /\ queue' = InsertAt(q, n, job)
    BY <1>5 DEF Insert
  <2> QED BY <1>1, <1>2, <1>5, <2>1, InsertOrdered DEF OrderInv
<1>6. CASE Insert(queue, job)
  BY <1>1, <1>3, <1>4, <1>5, <1>6 DEF OrderInv
<1>7. CASE \E n \in 1..Len(queue) : Insert(RemoveAt(queue, n), job)
  <2>1. PICK n \in 1..Len(queue) : Insert(RemoveAt(queue, n), job)
    BY <1>7
  <2>2. RemoveAt(queue, n) \in Seq(Jobs)
    BY <1>1, RemoveAtFacts
  <2>3. AllIn(RemoveAt(queue, n), accepted) /\ Ordered(RemoveAt(queue, n), accepted)
    BY <1>1, RemoveOrdered DEF OrderInv
  <2> QED BY <1>3, <1>4, <1>5, <2>1, <2>2, <2>3 DEF OrderInv
<1> QED BY <1>6, <1>7 DEF Accept

LEMMA EmptyOrder ==
  ASSUME OrderInv, queue' = <<>>, accepted' = accepted, offered \subseteq offered'
  PROVE  OrderInv'
BY DEF OrderInv, Injective, AllIn, Ordered

LEMMA SameOrder ==
  ASSUME OrderInv, queue' = queue, accepted' = accepted, offered \subseteq offered'
  PROVE  OrderInv'
BY DEF OrderInv

LEMMA DrainOrder ==
  ASSUME QueueInv, HistoryTypeOK, OrderInv, NEW job \in Jobs, Drain(job)
  PROVE  OrderInv'
<1>1. queue \in Seq(Jobs) /\ queue # <<>> /\ queue' = Tail(queue)
  BY DEF Drain, Dequeue, QueueInv, QueueTypeOK
<1>2. /\ Len(queue') = Len(queue) - 1
      /\ \A i \in 1..Len(queue') : i + 1 \in 1..Len(queue) /\ queue'[i] = queue[i + 1]
  BY <1>1
<1>3. accepted' = accepted /\ offered' = offered
  BY DEF Drain
<1>4. AllIn(queue', accepted)
  BY <1>2 DEF OrderInv, AllIn
<1>5. Ordered(queue', accepted)
  <2> SUFFICES ASSUME NEW i \in 1..Len(queue'), NEW k \in 1..Len(queue'), i < k
               PROVE  \/ Priority[queue'[i]] > Priority[queue'[k]]
                      \/ /\ Priority[queue'[i]] = Priority[queue'[k]]
                         /\ Rank(accepted, queue'[i]) < Rank(accepted, queue'[k])
    BY DEF Ordered
  <2>1. PICK a \in 1..Len(queue), b \in 1..Len(queue) :
          a < b /\ queue'[i] = queue[a] /\ queue'[k] = queue[b]
    <3>1. i + 1 \in 1..Len(queue) /\ k + 1 \in 1..Len(queue)
      BY <1>2
    <3>2. queue'[i] = queue[i + 1] /\ queue'[k] = queue[k + 1]
      BY <1>2
    <3>3. i \in Int /\ k \in Int
      BY <1>1
    <3> QED BY <3>1, <3>2, <3>3
  <2> QED BY <2>1 DEF OrderInv, Ordered
<1> QED BY <1>3, <1>4, <1>5 DEF OrderInv

LEMMA NextOrder ==
  QueueInv /\ HistoryTypeOK /\ OrderInv /\ [ClientNext]_clientVars => OrderInv'
<1> SUFFICES ASSUME QueueInv, HistoryTypeOK, OrderInv, [ClientNext]_clientVars PROVE OrderInv'
  OBVIOUS
<1>1. ASSUME NEW job \in Jobs, Offer(job) PROVE OrderInv'
  <2>1. CASE Accept(job) /\ accepted' = Append(accepted, job)
    BY <1>1, <2>1, AcceptOrder DEF Offer
  <2>2. CASE Reject(job) /\ accepted' = accepted
    <3>1. queue' = queue \/ queue' = <<>>
      BY <2>2 DEF Reject, Empty, queueVars
    <3>2. offered \subseteq offered'
      BY <1>1 DEF Offer
    <3> QED BY <2>2, <3>1, <3>2, SameOrder, EmptyOrder
  <2> QED BY <1>1, <2>1, <2>2 DEF Offer
<1>2. ASSUME NEW job \in Jobs, Drain(job) PROVE OrderInv'
  BY <1>2, DrainOrder
<1>3. CASE Reset
  BY <1>3, EmptyOrder DEF Reset, Clear, Empty, historyVars
<1>4. CASE TimerRefills
  BY <1>4, SameOrder DEF TimerRefills, RefillBucket
<1>5. CASE PenaltyEnds
  BY <1>5, SameOrder DEF PenaltyEnds, Unblock, historyVars
<1>6. CASE UNCHANGED clientVars
  BY <1>6, SameOrder DEF clientVars, queueVars, historyVars
<1> QED BY <1>1, <1>2, <1>3, <1>4, <1>5, <1>6 DEF ClientNext

LEMMA AlwaysOrder == ClientSpec => []OrderInv
BY InitOrder, NextOrder, AlwaysTypes, PTL DEF ClientSpec

(* Jobs leave by priority and, within a priority, in the order they were   *)
(* accepted, for queues of every length and every strategy.                *)
THEOREM PriorityThenAgeAlways == ClientSpec => []PriorityThenAge
<1>1. OrderInv => PriorityThenAge
  BY DEF OrderInv, Ordered, Rank, PriorityThenAge, Age
<1> QED BY <1>1, AlwaysOrder, PTL

(* The queue stays sorted, which is what the binary search relies on. *)
THEOREM SortedByPriorityAlways == ClientSpec => []SortedByPriority
<1>1. QueueInv /\ OrderInv => SortedByPriority
  <2> SUFFICES ASSUME QueueInv, OrderInv, NEW i \in 1..Len(queue), NEW k \in 1..Len(queue), i < k
               PROVE  Priority[queue[i]] >= Priority[queue[k]]
    BY DEF SortedByPriority, Sorted
  <2>1. Priority[queue[i]] \in Int /\ Priority[queue[k]] \in Int
    BY PriorityAssumption DEF QueueInv, QueueTypeOK
  <2> QED BY <2>1 DEF OrderInv, Ordered
<1> QED BY <1>1, AlwaysTypes, AlwaysOrder, PTL
-----------------------------------------------------------------------------
(* What an enqueue drops.                                                  *)

(* Inserting a job loses none of the jobs of the queue. *)
LEMMA InsertKeeps ==
  ASSUME NEW q \in Seq(Jobs), NEW job \in Jobs, Insert(q, job), NEW i \in 1..Len(q)
  PROVE  \E k \in 1..Len(queue') : queue'[k] = q[i]
<1>1. PICK n \in 1..(Len(q) + 1) : queue' = InsertAt(q, n, job)
  BY DEF Insert
<1> DEFINE r == InsertAt(q, n, job)
<1>2. r \in Seq(Jobs) /\ Len(r) = Len(q) + 1
  BY InsertAtFacts
<1>3. \A k \in 1..(Len(q) + 1) : r[k] = IF k < n THEN q[k] ELSE IF k = n THEN job ELSE q[k - 1]
  BY InsertAtFacts
<1>4. queue' = r
  BY <1>1
<1> HIDE DEF r
<1>5. \E k \in 1..Len(r) : r[k] = q[i]
  <2>1. CASE i < n
    <3>1. i \in 1..Len(r) /\ r[i] = q[i]
      BY <1>2, <1>3, <2>1
    <3> QED BY <3>1
  <2>2. CASE ~(i < n)
    <3>1. i + 1 \in 1..Len(r) /\ r[i + 1] = q[i]
      BY <1>2, <1>3, <2>2
    <3> QED BY <3>1
  <2> QED BY <2>1, <2>2
<1> QED BY <1>4, <1>5

(* Taking out the job at n loses no other one. *)
LEMMA RemoveKeeps ==
  ASSUME NEW q \in Seq(Jobs), NEW n \in 1..Len(q), NEW i \in 1..Len(q), i # n
  PROVE  \E k \in 1..Len(RemoveAt(q, n)) : RemoveAt(q, n)[k] = q[i]
<1> DEFINE r == RemoveAt(q, n)
<1>1. /\ Len(r) = Len(q) - 1
      /\ \A k \in 1..(Len(q) - 1) : r[k] = IF k < n THEN q[k] ELSE q[k + 1]
  BY RemoveAtFacts
<1> HIDE DEF r
<1>2. CASE i < n
  <2>1. i \in 1..Len(r) /\ r[i] = q[i]
    BY <1>1, <1>2
  <2> QED BY <2>1 DEF r
<1>3. CASE n < i
  <2>1. i - 1 \in 1..Len(r) /\ r[i - 1] = q[i]
    BY <1>1, <1>3
  <2> QED BY <2>1 DEF r
<1> QED BY <1>2, <1>3

LEMMA AcceptDrops ==
  ASSUME QueueInv, NEW job \in Jobs, Accept(job), strategy = "overflow-priority",
         NEW i \in 1..Len(queue), \A k \in 1..Len(queue') : queue'[k] # queue[i]
  PROVE  Priority[queue[i]] < Priority[job]
<1>1. queue \in Seq(Jobs)
  BY DEF QueueInv, QueueTypeOK
<1>2. ~Insert(queue, job)
  BY <1>1, InsertKeeps
<1>3. PICK n \in 1..Len(queue) : /\ FirstAtMost(queue, DropThreshold(job), n)
                                 /\ Insert(RemoveAt(queue, n), job)
  BY <1>2 DEF Accept
<1>4. i = n
  <2> SUFFICES ASSUME i # n PROVE FALSE
    OBVIOUS
  <2>1. RemoveAt(queue, n) \in Seq(Jobs)
    BY <1>1, RemoveAtFacts
  <2>2. PICK k \in 1..Len(RemoveAt(queue, n)) : RemoveAt(queue, n)[k] = queue[i]
    BY <1>1, RemoveKeeps
  <2>3. \E m \in 1..Len(queue') : queue'[m] = RemoveAt(queue, n)[k]
    BY <1>3, <2>1, InsertKeeps
  <2> QED BY <2>2, <2>3
<1>5. Priority[queue[n]] <= Priority[job] - 1
  BY <1>3 DEF FirstAtMost, DropThreshold
<1>6. Priority[queue[n]] \in Int /\ Priority[job] \in Int
  BY <1>1, PriorityAssumption
<1> QED BY <1>4, <1>5, <1>6

(* With strategy 'overflow-priority' a job makes room only at the expense  *)
(* of a less important one, whatever the queue holds.                      *)
THEOREM DropsLessImportantAlways == ClientSpec => DropsLessImportant
<1> DEFINE Drops ==
      \A job \in Jobs :
        (job \in offered' \ offered /\ strategy = "overflow-priority") =>
        \A other \in ToSet(queue) \ ToSet(queue') : Priority[other] < Priority[job]
<1>1. QueueInv /\ [ClientNext]_clientVars => [Drops]_clientVars
  <2> SUFFICES ASSUME QueueInv, [ClientNext]_clientVars, NEW job \in Jobs,
                      job \in offered', job \notin offered, strategy = "overflow-priority",
                      NEW other \in ToSet(queue), other \notin ToSet(queue')
               PROVE  Priority[other] < Priority[job]
    OBVIOUS
  <2>1. Offer(job)
    BY DEF ClientNext, Offer, Drain, Reset, TimerRefills, PenaltyEnds, clientVars, historyVars
  <2>2. PICK i \in 1..Len(queue) : other = queue[i]
    BY DEF ToSet
  <2>3. queue' \in Seq(Jobs) /\ \A k \in 1..Len(queue') : queue'[k] # other
    <3>1. QueueInv'
      BY <2>1, AcceptQueueInv, RejectQueueInv DEF Offer
    <3> QED BY <3>1 DEF QueueInv, QueueTypeOK, ToSet
  <2>4. CASE Accept(job)
    BY <2>2, <2>3, <2>4, AcceptDrops
  <2>5. CASE Reject(job)
    <3>1. queue' = queue
      BY <2>5 DEF Reject, queueVars
    <3> QED BY <3>1
  <2> QED BY <2>1, <2>4, <2>5 DEF Offer
<1>2. QueueInv /\ HistoryTypeOK => QueueInv
  OBVIOUS
<1> QED BY <1>1, <1>2, AlwaysTypes, PTL DEF ClientSpec, DropsLessImportant
-----------------------------------------------------------------------------
(***************************************************************************)
(* The binary search of enqueue.                                           *)
(***************************************************************************)

(* The part of the queue still to be searched lies between jobs that are   *)
(* as important as the new one and jobs that are less important.           *)
SearchInv ==
  /\ SearchTypeOK
  /\ Sorted(array)
  /\ first + count <= Len(array)
  /\ \A i \in 1..first : Priority[array[i]] >= Priority[sought]
  /\ \A i \in (first + count + 1)..Len(array) : Priority[array[i]] < Priority[sought]

LEMMA InitSearchInv == StartSearch => SearchInv
<1> SUFFICES ASSUME StartSearch PROVE SearchInv
  OBVIOUS
<1>1. array \in Seq(Jobs) /\ sought \in Jobs /\ Sorted(array)
  BY DEF StartSearch, BoundedSeq, SeqOf
<1>2. CASE array # <<>> /\ Priority[array[Len(array)]] >= Priority[sought]
  <2>1. first = Len(array) /\ count = 0 /\ Len(array) \in Nat
    BY <1>1, <1>2 DEF StartSearch
  <2>2. \A i \in 1..Len(array) : Priority[array[i]] >= Priority[array[Len(array)]]
    BY <1>1, PriorityAssumption DEF Sorted
  <2>3. \A i \in 1..Len(array) : Priority[array[i]] \in Int
    BY <1>1, PriorityAssumption
  <2> QED BY <1>1, <1>2, <2>1, <2>2, <2>3, PriorityAssumption DEF SearchInv, SearchTypeOK
<1>3. CASE ~(array # <<>> /\ Priority[array[Len(array)]] >= Priority[sought])
  <2>1. first = 0 /\ count = Len(array) /\ Len(array) \in Nat
    BY <1>1, <1>3 DEF StartSearch
  <2> QED BY <1>1, <2>1 DEF SearchInv, SearchTypeOK
<1> QED BY <1>2, <1>3

LEMMA IterateSearchInv == SearchInv /\ Iterate => SearchInv'
<1> SUFFICES ASSUME SearchInv, Iterate PROVE SearchInv'
  OBVIOUS
<1>1. /\ array \in Seq(Jobs) /\ Len(array) \in Nat /\ sought \in Jobs
      /\ \A i \in 1..Len(array) : array[i] \in Jobs /\ Priority[array[i]] \in Int
      /\ Priority[sought] \in Int
      /\ first \in Nat /\ count \in Nat /\ first + count <= Len(array)
  BY PriorityAssumption DEF SearchInv, SearchTypeOK
\* p is the position that the iteration looks at.
<1>2. PICK p \in 1..Len(array) : p = first + count \div 2 + 1
  BY <1>1 DEF Iterate
<1>3. first < p /\ p <= first + count
  BY <1>1, <1>2 DEF Iterate
<1>4. array' = array /\ sought' = sought
  BY DEF Iterate
<1>5. IF Priority[sought] - Priority[array[p]] <= 0
      THEN first' = p /\ count' = first + count - p
      ELSE first' = first /\ count' = p - first - 1
  BY <1>1, <1>2 DEF Iterate
<1>6. CASE Priority[sought] - Priority[array[p]] <= 0
  <2>1. ASSUME NEW i \in 1..p PROVE Priority[array[i]] >= Priority[sought]
    <3>1. i \in 1..Len(array) /\ (i = p \/ Priority[array[i]] >= Priority[array[p]])
      BY <1>1 DEF SearchInv, Sorted
    <3> QED BY <1>1, <1>6, <3>1
  <2> QED BY <1>1, <1>3, <1>4, <1>5, <1>6, <2>1 DEF SearchInv, SearchTypeOK
<1>7. CASE ~(Priority[sought] - Priority[array[p]] <= 0)
  <2>1. ASSUME NEW i \in p..Len(array) PROVE Priority[array[i]] < Priority[sought]
    <3>1. i \in 1..Len(array) /\ (i = p \/ Priority[array[p]] >= Priority[array[i]])
      BY <1>1 DEF SearchInv, Sorted
    <3> QED BY <1>1, <1>7, <3>1
  <2> QED BY <1>1, <1>3, <1>4, <1>5, <1>7, <2>1 DEF SearchInv, SearchTypeOK
<1> QED BY <1>6, <1>7

(* lowerBound returns the insertion point, for every queue that is sorted  *)
(* and every job: what enqueue does with it keeps the queue sorted.        *)
THEOREM FindsInsertionPointTheorem == SearchSpec => []FindsInsertionPoint
<1>1. SearchInv /\ UNCHANGED searchVars => SearchInv'
  BY DEF SearchInv, SearchTypeOK, Sorted, searchVars
<1>2. SearchInv => FindsInsertionPoint
  BY PriorityAssumption DEF SearchInv, SearchTypeOK, FindsInsertionPoint, InsertionPoint
<1> QED BY InitSearchInv, IterateSearchInv, <1>1, <1>2, PTL DEF SearchSpec
=============================================================================
