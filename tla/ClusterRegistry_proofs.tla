----------------------- MODULE ClusterRegistry_proofs -----------------------
(***************************************************************************)
(* What holds of the registries of a cluster with any number of workers,   *)
(* rounds, messages and calls of clear().  What was cleared stays cleared  *)
(* because the channels keep their order: as long as a worker holds        *)
(* something older than a round, a clear() is ahead of its request.        *)
(***************************************************************************)
EXTENDS ClusterRegistry, FiniteSetTheorems, TLAPS

Messages == {"current", "stale", "clear"}
Answers == [current : BOOLEAN, content : SUBSET Nat]
Rounds == [asked : SUBSET Workers, connected : SUBSET Workers, pending : Int,
           latest : BOOLEAN, began : Nat, feed : [Workers -> Seq(SUBSET Nat)]]

DataInv ==
  /\ rounds \in Seq(Rounds) /\ clears \in Nat
  /\ link \in [Workers -> {"absent", "connected", "disconnected", "gone"}]
  /\ content \in [Workers -> SUBSET Nat]
  /\ toWorker \in [Workers -> Seq(Messages)] /\ toMaster \in [Workers -> Seq(Answers)]
  /\ \A i \in DOMAIN rounds : rounds[i].began <= clears

(* Nothing is on the way to or from a worker that is not connected.        *)
LinkAt(w) ==
  /\ link[w] = "absent" => content[w] = {}
  /\ link[w] # "connected" => toWorker[w] = <<>> /\ toMaster[w] = <<>>

ClearAhead(w, i) == \E k \in 1 .. i - 1 : toWorker[w][k] = "clear"
Recent(held) == \A e \in held : \A i \in DOMAIN rounds : e >= rounds[i].began

(* A worker that misses no clear() holds nothing older than a round of     *)
(* whose request it knows, or is about to be told to clear it.             *)
OrderAt(w) ==
  /\ link[w] = "connected" =>
       ClearAhead(w, Len(toWorker[w]) + 1) \/ \A e \in content[w] : e >= clears
  /\ \A i \in DOMAIN toWorker[w] :
       toWorker[w][i] = "current" => ClearAhead(w, i) \/ Recent(content[w])
  /\ \A i \in DOMAIN toMaster[w] :
       toMaster[w][i].current => Recent(toMaster[w][i].content)

Requested(w) == \E i \in DOMAIN toWorker[w] : toWorker[w][i] = "current"
Responding(w) == \E i \in DOMAIN toMaster[w] : toMaster[w][i].current

(* The current request is on its way to a worker, or the answer from it.   *)
OneRequestAt(w) ==
  /\ \A i, k \in DOMAIN toWorker[w] :
       toWorker[w][i] = "current" /\ toWorker[w][k] = "current" => i = k
  /\ \A i, k \in DOMAIN toMaster[w] :
       toMaster[w][i].current /\ toMaster[w][k].current => i = k
  /\ ~(Requested(w) /\ Responding(w))

Answered(round) == {w \in Workers : round.feed[w] # <<>>}

(* The latest round counts the answers that are missing, and hears of the  *)
(* current request only from workers that did not answer it yet.           *)
Sound(round) ==
  /\ Answered(round) \subseteq round.connected /\ round.connected \subseteq round.asked
  /\ \A w \in Answered(round) : Len(round.feed[w]) = 1
  /\ round.pending = Cardinality(round.asked \ Answered(round))
  /\ \A w \in Workers :
       Requested(w) \/ Responding(w) => w \in round.connected \ Answered(round)

RoundInv == \A i \in DOMAIN rounds : rounds[i].latest => Sound(rounds[i])

IInv ==
  /\ DataInv
  /\ \A w \in Workers : LinkAt(w) /\ OneRequestAt(w)
  /\ \A w \in Workers \ missed : OrderAt(w)
  /\ RoundInv /\ ClearedStaysCleared

proofVars == <<rounds, clears, link, content, toWorker, toMaster, missed>>
-----------------------------------------------------------------------------
(***************************************************************************)
(* The rounds that stay open.                                              *)
(***************************************************************************)

(* A finite set of numbers has an element of every rank.                   *)
LEMMA RankExists ==
  ASSUME NEW m \in Nat, NEW S \in SUBSET (1 .. m), NEW n \in 1 .. Cardinality(S)
  PROVE  \E i \in S : Cardinality({k \in S : k < i}) = n - 1
<1> DEFINE Below(i) == {k \in S : k < i}
           rank == [i \in S |-> Cardinality(Below(i)) + 1]
           T == 1 .. Cardinality(S)
<1>1. IsFiniteSet(S) /\ Cardinality(S) \in Nat
  <2>1. IsFiniteSet(1 .. m)
    BY FS_Interval
  <2> QED BY <2>1, FS_Subset, FS_CardinalityType
<1>2. IsFiniteSet(T) /\ Cardinality(T) = Cardinality(S)
  BY <1>1, FS_Interval
<1>3. \A i \in S : Below(i) \in SUBSET S /\ IsFiniteSet(Below(i)) /\ Cardinality(Below(i)) \in Nat
  BY <1>1, FS_Subset, FS_CardinalityType
<1>4. ASSUME NEW i \in S PROVE Cardinality(Below(i)) < Cardinality(S)
  <2>1. Below(i) # S
    OBVIOUS
  <2>2. Cardinality(Below(i)) <= Cardinality(S) /\ Cardinality(Below(i)) # Cardinality(S)
    BY <1>1, <1>3, <2>1, FS_Subset
  <2> QED BY <1>1, <1>3, <2>2
<1>5. ASSUME NEW i \in S, NEW k \in S, k < i PROVE Cardinality(Below(k)) < Cardinality(Below(i))
  <2>1. Below(k) \in SUBSET Below(i) /\ k \in Below(i) /\ k \notin Below(k)
    <3>1. \A l \in S : l \in Int
      OBVIOUS
    <3>2. \A l \in S : l < k => l < i
      BY <1>5, <3>1
    <3>3. ~(k < k)
      BY <3>1
    <3> QED BY <1>5, <3>2, <3>3
  <2>2. /\ Cardinality(Below(k)) <= Cardinality(Below(i))
        /\ Cardinality(Below(k)) # Cardinality(Below(i))
    BY <1>3, <2>1, FS_Subset
  <2> QED BY <1>3, <2>2
<1> HIDE DEF Below
<1>6. rank \in [S -> T]
  BY <1>1, <1>3, <1>4
<1>7. \A i, k \in S : rank[i] = rank[k] => i = k
  <2> SUFFICES ASSUME NEW i \in S, NEW k \in S, i # k PROVE rank[i] # rank[k]
    OBVIOUS
  <2>1. k < i \/ i < k
    OBVIOUS
  <2> QED BY <1>3, <1>5, <2>1
<1>8. rank \in Surjection(S, T)
  <2>1. rank \in Injection(S, T)
    BY <1>6, <1>7 DEF Injection, IsInjective
  <2> QED BY <1>2, <2>1, FS_Injection
<1>9. PICK i \in S : rank[i] = n
  BY <1>8 DEF Surjection
<1>10. Cardinality(Below(i)) = n - 1
  BY <1>3, <1>9
<1> QED BY <1>10 DEF Below

LEMMA StillOpenFacts ==
  ASSUME NEW S, NEW heard \in Seq(S)
  PROVE  /\ StillOpen(heard) \in Seq(S)
         /\ \A n \in DOMAIN StillOpen(heard) : \E i \in DOMAIN heard :
              heard[i].pending # 0 /\ StillOpen(heard)[n] = heard[i]
         /\ \A i \in DOMAIN heard : heard[i].pending # 0 =>
              \E n \in DOMAIN StillOpen(heard) : StillOpen(heard)[n] = heard[i]
<1> DEFINE open == {i \in DOMAIN heard : heard[i].pending # 0}
           Rank(i) == Cardinality({k \in open : k < i})
           at(n) == CHOOSE i \in open : Rank(i) = n - 1
           kept == StillOpen(heard)
<1>1. kept = [n \in 1 .. Cardinality(open) |-> heard[at(n)]]
  BY DEF StillOpen
<1>2. /\ Len(heard) \in Nat /\ DOMAIN heard = 1 .. Len(heard)
      /\ open \in SUBSET (1 .. Len(heard))
  OBVIOUS
<1>3. IsFiniteSet(open) /\ Cardinality(open) \in Nat
  <2>1. IsFiniteSet(1 .. Len(heard))
    BY <1>2, FS_Interval
  <2> QED BY <1>2, <2>1, FS_Subset, FS_CardinalityType
<1>4. \A n \in 1 .. Cardinality(open) : \E i \in open : Rank(i) = n - 1
  BY <1>2, RankExists
<1>5. \A n \in 1 .. Cardinality(open) : at(n) \in open /\ Rank(at(n)) = n - 1
  BY <1>4
<1>6. ASSUME NEW i \in open PROVE \E n \in 1 .. Cardinality(open) : at(n) = i
  <2>1. \A k \in open : Rank(k) \in Nat /\ Rank(k) < Cardinality(open)
    <3> TAKE k \in open
    <3> DEFINE B == {l \in open : l < k}
    <3>1. B \in SUBSET open /\ B # open
      BY <1>2
    <3>2. IsFiniteSet(B) /\ Cardinality(B) \in Nat /\ Cardinality(B) <= Cardinality(open)
      BY <1>3, <3>1, FS_Subset, FS_CardinalityType
    <3>3. Cardinality(B) # Cardinality(open)
      BY <1>3, <3>1, FS_Subset
    <3> QED BY <1>3, <3>2, <3>3
  <2>2. \A k, l \in open : k < l => Rank(k) < Rank(l)
    <3> SUFFICES ASSUME NEW k \in open, NEW l \in open, k < l PROVE Rank(k) < Rank(l)
      OBVIOUS
    <3> DEFINE B == {j \in open : j < k}
               C == {j \in open : j < l}
    <3>1. B \in SUBSET C /\ B # C /\ C \in SUBSET open
      BY <1>2
    <3>2. IsFiniteSet(C) /\ Cardinality(B) <= Cardinality(C) /\ Cardinality(B) # Cardinality(C)
      BY <1>3, <3>1, FS_Subset
    <3>3. Cardinality(B) \in Nat /\ Cardinality(C) \in Nat
      BY <2>1
    <3> QED BY <3>2, <3>3
  <2> HIDE DEF Rank
  <2> DEFINE n == Rank(i) + 1
  <2>3. n \in 1 .. Cardinality(open) /\ Rank(i) = n - 1
    BY <1>3, <2>1
  <2>4. at(n) \in open /\ Rank(at(n)) = Rank(i)
    BY <1>5, <2>3
  <2> HIDE DEF at, n
  <2>5. at(n) = i
    <3>1. ASSUME NEW k \in open, Rank(k) = Rank(i) PROVE k = i
      <4>1. ~(k < i) /\ ~(i < k)
        <5> HIDE DEF open
        <5>1. Rank(i) \in Nat /\ ~(Rank(i) < Rank(i))
          BY <2>1
        <5>2. k < i => Rank(k) < Rank(i)
          BY <2>2
        <5>3. i < k => Rank(i) < Rank(k)
          BY <2>2
        <5> QED BY <3>1, <5>1, <5>2, <5>3
      <4>2. k \in Int /\ i \in Int
        BY <1>2
      <4> QED BY <4>1, <4>2
    <3> QED BY <2>4, <3>1
  <2> QED BY <2>3, <2>5
<1> HIDE DEF at, Rank
<1>7. kept \in Seq(S)
  <2>1. \A n \in 1 .. Cardinality(open) : heard[at(n)] \in S
    BY <1>5
  <2> QED BY <1>1, <1>3, <2>1
<1> HIDE DEF open
<1>8. DOMAIN kept = 1 .. Cardinality(open)
  BY <1>1
<1>9. \A n \in DOMAIN kept : kept[n] = heard[at(n)]
  BY <1>1
<1>10. ASSUME NEW n \in DOMAIN kept
       PROVE  \E i \in DOMAIN heard : heard[i].pending # 0 /\ kept[n] = heard[i]
  <2>1. at(n) \in open
    BY <1>5, <1>8
  <2> QED BY <1>9, <2>1 DEF open
<1>11. ASSUME NEW i \in DOMAIN heard, heard[i].pending # 0
       PROVE  \E n \in DOMAIN kept : kept[n] = heard[i]
  <2>1. i \in open
    BY <1>11 DEF open
  <2>2. PICK n \in 1 .. Cardinality(open) : at(n) = i
    BY <1>6, <2>1
  <2> QED BY <1>8, <1>9, <2>2
<1> HIDE DEF kept
<1> QED BY <1>7, <1>10, <1>11 DEF kept
-----------------------------------------------------------------------------
(***************************************************************************)
(* The steps of the workers.                                               *)
(***************************************************************************)
SameAt(w) ==
  /\ link'[w] = link[w] /\ content'[w] = content[w]
  /\ toWorker'[w] = toWorker[w] /\ toMaster'[w] = toMaster[w]

LEMMA InitIInv == Init => IInv
<1> SUFFICES ASSUME Init PROVE IInv
  OBVIOUS
<1>1. /\ rounds = <<>> /\ clears = 0 /\ DOMAIN rounds = {}
      /\ \A w \in Workers : /\ link[w] \in {"absent", "connected"} /\ content[w] = {}
                            /\ toWorker[w] = <<>> /\ toMaster[w] = <<>>
  BY DEF Init
<1>2. DataInv
  BY <1>1 DEF Init, DataInv
<1>3. \A w \in Workers : LinkAt(w) /\ OneRequestAt(w) /\ OrderAt(w)
  BY <1>1 DEF LinkAt, OneRequestAt, OrderAt, Requested
<1> QED BY <1>1, <1>2, <1>3 DEF IInv, RoundInv, ClearedStaysCleared

LEMMA QuietStep == IInv /\ UNCHANGED proofVars => IInv'
<1> SUFFICES ASSUME IInv, UNCHANGED proofVars PROVE IInv'
  OBVIOUS
<1>1. \A w \in Workers : LinkAt(w)' /\ OneRequestAt(w)'
  BY DEF IInv, LinkAt, OneRequestAt, Requested, Responding, proofVars
<1>2. \A w \in Workers \ missed' : OrderAt(w)'
  BY DEF IInv, OrderAt, ClearAhead, Recent, proofVars
<1>3. RoundInv'
  BY DEF IInv, RoundInv, Sound, Requested, Responding, proofVars
<1>4. DataInv' /\ ClearedStaysCleared'
  BY DEF IInv, DataInv, ClearedStaysCleared, proofVars
<1> QED BY <1>1, <1>2, <1>3, <1>4 DEF IInv

(* A step of one worker: what holds of the others goes on holding.         *)
LEMMA WorkerStep ==
  ASSUME NEW w \in Workers, IInv, UNCHANGED <<rounds, clears>>, missed \subseteq missed',
         \A v \in Workers \ {w} : SameAt(v),
         DataInv', LinkAt(w)', OneRequestAt(w)', w \notin missed' => OrderAt(w)',
         (Requested(w) \/ Responding(w))' => Requested(w) \/ Responding(w)
  PROVE  IInv'
<1>1. ASSUME NEW v \in Workers \ {w}
      PROVE  /\ LinkAt(v)' /\ OneRequestAt(v)'
             /\ v \notin missed' => OrderAt(v)'
             /\ (Requested(v) \/ Responding(v))' => Requested(v) \/ Responding(v)
  <2>1. SameAt(v) /\ rounds' = rounds /\ clears' = clears
    OBVIOUS
  <2>2. LinkAt(v) /\ OneRequestAt(v) /\ (v \notin missed' => OrderAt(v))
    BY DEF IInv
  <2> QED BY <2>1, <2>2 DEF SameAt, LinkAt, OneRequestAt, OrderAt, ClearAhead, Recent,
                            Requested, Responding
<1>2. RoundInv'
  <2>1. \A v \in Workers :
          (Requested(v) \/ Responding(v))' => Requested(v) \/ Responding(v)
    BY <1>1
  <2>2. rounds' = rounds /\ RoundInv
    BY DEF IInv
  <2> QED BY <2>1, <2>2 DEF RoundInv, Sound
<1>3. ClearedStaysCleared'
  BY DEF IInv, ClearedStaysCleared
<1> QED BY <1>1, <1>2, <1>3 DEF IInv

LEMMA LinkSteps ==
  ASSUME NEW w \in Workers, IInv, Fork(w) \/ Disconnect(w) \/ Exit(w)
  PROVE  IInv'
<1>1. /\ DataInv /\ LinkAt(w) /\ OneRequestAt(w) /\ (w \notin missed => OrderAt(w))
      /\ UNCHANGED <<rounds, clears, missed, content>>
  BY DEF IInv, Fork, Disconnect, Exit, channelVars, clearVars
<1>2. CASE Fork(w)
  <2>1. /\ link[w] = "absent" /\ link' = [link EXCEPT ![w] = "connected"]
        /\ UNCHANGED <<toWorker, toMaster>>
    BY <1>2 DEF Fork, channelVars
  <2>2. content[w] = {} /\ toWorker[w] = <<>> /\ toMaster[w] = <<>> /\ link'[w] = "connected"
    BY <1>1, <2>1 DEF LinkAt, DataInv
  <2>3. DataInv' /\ \A v \in Workers \ {w} : SameAt(v)
    BY <1>1, <2>1 DEF DataInv, SameAt
  <2>4. LinkAt(w)' /\ OneRequestAt(w)' /\ OrderAt(w)' /\ ~(Requested(w) \/ Responding(w))'
    BY <1>1, <2>1, <2>2 DEF LinkAt, OneRequestAt, OrderAt, Requested, Responding
  <2> QED BY <1>1, <2>3, <2>4, WorkerStep
<1>3. CASE Disconnect(w)
  <2>1. /\ link' = [link EXCEPT ![w] = "disconnected"]
        /\ toWorker' = [toWorker EXCEPT ![w] = <<>>]
        /\ toMaster' = [toMaster EXCEPT ![w] = <<>>]
    BY <1>3 DEF Disconnect
  <2>2. link'[w] = "disconnected" /\ toWorker'[w] = <<>> /\ toMaster'[w] = <<>>
    BY <1>1, <2>1 DEF DataInv
  <2>3. DataInv' /\ \A v \in Workers \ {w} : SameAt(v)
    BY <1>1, <2>1 DEF DataInv, SameAt
  <2>4. LinkAt(w)' /\ OneRequestAt(w)' /\ OrderAt(w)' /\ ~(Requested(w) \/ Responding(w))'
    BY <2>2 DEF LinkAt, OneRequestAt, OrderAt, Requested, Responding
  <2> QED BY <1>1, <2>3, <2>4, WorkerStep
<1>4. CASE Exit(w)
  <2>1. /\ link[w] = "disconnected" /\ link' = [link EXCEPT ![w] = "gone"]
        /\ UNCHANGED <<toWorker, toMaster>>
    BY <1>4 DEF Exit, channelVars
  <2>2. toWorker[w] = <<>> /\ toMaster[w] = <<>> /\ link'[w] = "gone"
    BY <1>1, <2>1 DEF LinkAt, DataInv
  <2>3. DataInv' /\ \A v \in Workers \ {w} : SameAt(v)
    BY <1>1, <2>1 DEF DataInv, SameAt
  <2>4. LinkAt(w)' /\ OneRequestAt(w)' /\ OrderAt(w)' /\ ~(Requested(w) \/ Responding(w))'
    BY <1>1, <2>1, <2>2 DEF LinkAt, OneRequestAt, OrderAt, Requested, Responding
  <2> QED BY <1>1, <2>3, <2>4, WorkerStep
<1> QED BY <1>2, <1>3, <1>4

LEMMA ChangeStep ==
  ASSUME NEW w \in Workers, IInv, Change(w)
  PROVE  IInv'
<1>1. /\ DataInv /\ LinkAt(w) /\ OneRequestAt(w) /\ (w \notin missed => OrderAt(w))
      /\ UNCHANGED <<rounds, clears, missed, link, toWorker, toMaster>>
      /\ link[w] = "connected"
      /\ content' = [content EXCEPT ![w] = IF content[w] = {} THEN {clears} ELSE {}]
  BY DEF IInv, Change, channelVars, clearVars
<1>2. content'[w] = {clears} \/ content'[w] = {}
  BY <1>1 DEF DataInv
<1>3. DataInv' /\ \A v \in Workers \ {w} : SameAt(v)
  BY <1>1, <1>2 DEF DataInv, SameAt
<1>4. LinkAt(w)' /\ OneRequestAt(w)'
  BY <1>1 DEF LinkAt, OneRequestAt, Requested, Responding
<1>5. \A e \in content'[w] : e >= clears'
  BY <1>1, <1>2 DEF DataInv
<1>6. Recent(content[w])'
  BY <1>1, <1>2 DEF DataInv, Recent
<1>7. w \notin missed' => OrderAt(w)'
  BY <1>1, <1>5, <1>6 DEF OrderAt, Recent
<1>8. (Requested(w) \/ Responding(w))' => Requested(w) \/ Responding(w)
  BY <1>1 DEF Requested, Responding
<1> QED BY <1>1, <1>3, <1>4, <1>7, <1>8, WorkerStep

LEMMA HandleStep ==
  ASSUME NEW w \in Workers, IInv, Handle(w)
  PROVE  IInv'
<1> DEFINE message == Head(toWorker[w])
           answer == [current |-> message = "current", content |-> content[w]]
<1> PICK n, m : n = Len(toWorker[w]) /\ m = Len(toMaster[w])
  OBVIOUS
<1>1. /\ DataInv /\ LinkAt(w) /\ OneRequestAt(w) /\ (w \notin missed => OrderAt(w))
      /\ UNCHANGED <<rounds, clears, link>>
      /\ toWorker[w] # <<>> /\ toWorker' = [toWorker EXCEPT ![w] = Tail(toWorker[w])]
      /\ missed \subseteq missed'
  BY DEF IInv, Handle
<1>2. /\ toWorker[w] \in Seq(Messages) /\ toMaster[w] \in Seq(Answers)
      /\ content[w] \in SUBSET Nat
  BY <1>1 DEF DataInv
<1>3. /\ n \in Nat \ {0} /\ m \in Nat /\ message = toWorker[w][1] /\ message \in Messages
      /\ 1 \in 1 .. n /\ DOMAIN toWorker[w] = 1 .. n /\ DOMAIN toMaster[w] = 1 .. m
  BY <1>1, <1>2
<1>4. link[w] = "connected" /\ answer \in Answers
  BY <1>1, <1>2 DEF LinkAt, Answers
<1>5. /\ toWorker'[w] \in Seq(Messages) /\ Len(toWorker'[w]) = n - 1
      /\ DOMAIN toWorker'[w] = 1 .. n - 1
      /\ \A i \in 1 .. n - 1 : toWorker'[w][i] = toWorker[w][i + 1]
  BY <1>1, <1>2, <1>3 DEF DataInv
<1>6. /\ toWorker' \in [Workers -> Seq(Messages)]
      /\ \A v \in Workers \ {w} : toWorker'[v] = toWorker[v]
  BY <1>1, <1>5 DEF DataInv
<1>7. Requested(w)' => Requested(w) /\ message # "current"
  <2> SUFFICES ASSUME NEW i \in 1 .. n - 1, toWorker'[w][i] = "current"
               PROVE  Requested(w) /\ message # "current"
    BY <1>5 DEF Requested
  <2>1. i + 1 \in 1 .. n /\ toWorker[w][i + 1] = "current" /\ i + 1 # 1 /\ 1 \in 1 .. n
    BY <1>3, <1>5
  <2> QED BY <1>1, <1>3, <2>1 DEF Requested, OneRequestAt
<1>8. \A i, k \in DOMAIN toWorker'[w] :
        toWorker'[w][i] = "current" /\ toWorker'[w][k] = "current" => i = k
  <2> SUFFICES ASSUME NEW i \in 1 .. n - 1, NEW k \in 1 .. n - 1,
                      toWorker'[w][i] = "current", toWorker'[w][k] = "current"
               PROVE  i = k
    BY <1>5
  <2>1. /\ i + 1 \in 1 .. n /\ toWorker[w][i + 1] = "current"
        /\ k + 1 \in 1 .. n /\ toWorker[w][k + 1] = "current"
    <3>1. \A j \in 1 .. n - 1 : j + 1 \in 1 .. n
      BY <1>3
    <3> QED BY <1>5, <3>1
  <2>2. i + 1 = k + 1
    BY <1>1, <1>3, <2>1 DEF OneRequestAt
  <2> QED BY <2>2
\* What is not a clear() takes none away that is ahead of something.
<1>9. ASSUME message # "clear", NEW i \in 1 .. n, ClearAhead(w, i + 1)
      PROVE  ClearAhead(w, i)'
  <2>1. PICK k \in 1 .. i : toWorker[w][k] = "clear"
    BY <1>9 DEF ClearAhead
  <2>2. k # 1
    BY <1>3, <1>9, <2>1
  <2>3. k - 1 \in 1 .. i - 1 /\ k - 1 \in 1 .. n - 1 /\ (k - 1) + 1 = k
    BY <1>3, <2>2
  <2>4. toWorker'[w][k - 1] = "clear"
    BY <1>5, <2>1, <2>3
  <2> QED BY <2>3, <2>4 DEF ClearAhead
<1> HIDE DEF message, answer
<1>10. CASE UNCHANGED <<content, toMaster>> /\ (message = "clear" => w \in missed')
  <2>1. DataInv' /\ \A v \in Workers \ {w} : SameAt(v)
    BY <1>1, <1>6, <1>10 DEF DataInv, SameAt
  <2>2. LinkAt(w)'
    BY <1>1, <1>4, <1>10 DEF LinkAt
  <2>3. Responding(w)' => Responding(w)
    BY <1>10 DEF Responding
  <2>4. OneRequestAt(w)'
    BY <1>1, <1>7, <1>8, <1>10, <2>3 DEF OneRequestAt
  <2>5. ASSUME w \notin missed' PROVE OrderAt(w)'
    <3>1. OrderAt(w) /\ message # "clear"
      BY <1>1, <1>10, <2>5
    <3>2. ClearAhead(w, n + 1) \/ \A e \in content[w] : e >= clears
      BY <1>4, <3>1 DEF OrderAt
    <3>3. ClearAhead(w, n)' \/ \A e \in content'[w] : e >= clears'
      BY <1>1, <1>3, <1>9, <1>10, <3>1, <3>2
    <3>4. (n - 1) + 1 = n
      BY <1>3
    <3>5. ASSUME NEW i \in 1 .. n - 1, toWorker'[w][i] = "current"
          PROVE  (ClearAhead(w, i) \/ Recent(content[w]))'
      <4>1. i + 1 \in 1 .. n /\ i \in 1 .. n /\ toWorker[w][i + 1] = "current"
        BY <1>3, <1>5, <3>5
      <4>2. ClearAhead(w, i + 1) \/ Recent(content[w])
        BY <1>3, <3>1, <4>1 DEF OrderAt
      <4>3. Recent(content[w]) => Recent(content[w])'
        BY <1>1, <1>10 DEF Recent
      <4> QED BY <1>9, <3>1, <4>1, <4>2, <4>3
    <3>6. ASSUME NEW i \in DOMAIN toMaster'[w], toMaster'[w][i].current
          PROVE  Recent(toMaster[w][i].content)'
      BY <1>1, <1>10, <3>1, <3>6 DEF OrderAt, Recent
    <3> QED BY <1>5, <3>3, <3>4, <3>5, <3>6 DEF OrderAt
  <2> QED BY <1>1, <1>7, <2>1, <2>2, <2>3, <2>4, <2>5, WorkerStep
<1>11. CASE /\ message = "clear" /\ content' = [content EXCEPT ![w] = {}]
            /\ UNCHANGED <<toMaster, missed>>
  <2>1. content'[w] = {}
    BY <1>1, <1>11 DEF DataInv
  <2>2. DataInv' /\ \A v \in Workers \ {w} : SameAt(v)
    BY <1>1, <1>6, <1>11 DEF DataInv, SameAt
  <2>3. LinkAt(w)'
    BY <1>1, <1>4 DEF LinkAt
  <2>4. Responding(w)' => Responding(w)
    BY <1>11 DEF Responding
  <2>5. OneRequestAt(w)'
    BY <1>1, <1>7, <1>8, <1>11, <2>4 DEF OneRequestAt
  <2>6. ASSUME w \notin missed' PROVE OrderAt(w)'
    <3>1. OrderAt(w) /\ Recent(content[w])'
      BY <1>1, <1>11, <2>1, <2>6 DEF Recent
    <3>2. ASSUME NEW i \in DOMAIN toMaster'[w], toMaster'[w][i].current
          PROVE  Recent(toMaster[w][i].content)'
      BY <1>1, <1>11, <3>1, <3>2 DEF OrderAt, Recent
    <3> QED BY <2>1, <3>1, <3>2 DEF OrderAt
  <2> QED BY <1>1, <1>7, <2>2, <2>3, <2>4, <2>5, <2>6, WorkerStep
<1>12. CASE /\ message # "clear"
            /\ toMaster' = [toMaster EXCEPT ![w] = Append(toMaster[w], answer)]
            /\ UNCHANGED <<content, missed>>
  <2>1. /\ toMaster'[w] \in Seq(Answers) /\ DOMAIN toMaster'[w] = 1 .. m + 1
        /\ toMaster'[w][m + 1] = answer
        /\ \A i \in 1 .. m : toMaster'[w][i] = toMaster[w][i]
    BY <1>1, <1>2, <1>3, <1>4, <1>12 DEF DataInv
  <2>2. DataInv' /\ \A v \in Workers \ {w} : SameAt(v)
    BY <1>1, <1>6, <1>12, <2>1 DEF DataInv, SameAt
  <2>3. LinkAt(w)'
    BY <1>1, <1>4 DEF LinkAt
  <2>4. answer.current = (message = "current") /\ answer.content = content[w]
    BY DEF answer
  <2>5. message = "current" => Requested(w)
    <3>1. message = "current" => toWorker[w][1] = "current" /\ 1 \in DOMAIN toWorker[w]
      BY <1>3
    <3> QED BY <3>1 DEF Requested
  <2>6. Responding(w)' => Responding(w) \/ message = "current"
    <3> SUFFICES ASSUME NEW i \in 1 .. m + 1, toMaster'[w][i].current
                 PROVE  Responding(w) \/ message = "current"
      BY <2>1 DEF Responding
    <3>1. CASE i \in 1 .. m
      BY <1>3, <2>1, <3>1 DEF Responding
    <3>2. CASE i = m + 1
      BY <2>1, <2>4, <3>2
    <3>3. i \in 1 .. m \/ i = m + 1
      BY <1>3
    <3> QED BY <3>1, <3>2, <3>3
  <2>7. OneRequestAt(w)'
    <3>1. ~(Requested(w)' /\ Responding(w)')
      BY <1>1, <1>7, <2>6 DEF OneRequestAt
    <3>2. ASSUME NEW i \in DOMAIN toMaster'[w], NEW k \in DOMAIN toMaster'[w],
                 toMaster'[w][i].current, toMaster'[w][k].current
          PROVE  i = k
      <4>1. CASE i \in 1 .. m /\ k \in 1 .. m
        BY <1>1, <1>3, <2>1, <3>2, <4>1 DEF OneRequestAt
      <4>2. CASE i = m + 1 /\ k \in 1 .. m
        BY <1>1, <1>3, <2>1, <2>4, <2>5, <3>2, <4>2 DEF OneRequestAt, Responding
      <4>3. CASE i \in 1 .. m /\ k = m + 1
        BY <1>1, <1>3, <2>1, <2>4, <2>5, <3>2, <4>3 DEF OneRequestAt, Responding
      <4> QED BY <1>3, <2>1, <4>1, <4>2, <4>3
    <3> QED BY <1>8, <3>1, <3>2 DEF OneRequestAt
  <2>8. ASSUME w \notin missed' PROVE OrderAt(w)'
    <3>1. OrderAt(w)
      BY <1>1, <1>12, <2>8
    <3>2. ClearAhead(w, n + 1) \/ \A e \in content[w] : e >= clears
      BY <1>4, <3>1 DEF OrderAt
    <3>3. ClearAhead(w, n)' \/ \A e \in content'[w] : e >= clears'
      BY <1>1, <1>3, <1>9, <1>12, <3>2
    <3>4. (n - 1) + 1 = n
      BY <1>3
    <3>5. ASSUME NEW i \in 1 .. n - 1, toWorker'[w][i] = "current"
          PROVE  (ClearAhead(w, i) \/ Recent(content[w]))'
      <4>1. i + 1 \in 1 .. n /\ i \in 1 .. n /\ toWorker[w][i + 1] = "current"
        BY <1>3, <1>5, <3>5
      <4>2. ClearAhead(w, i + 1) \/ Recent(content[w])
        BY <1>3, <3>1, <4>1 DEF OrderAt
      <4>3. Recent(content[w]) => Recent(content[w])'
        BY <1>1, <1>12 DEF Recent
      <4> QED BY <1>9, <1>12, <4>1, <4>2, <4>3
    \* A request that is answered has no clear() ahead of it.
    <3>6. message = "current" => Recent(content[w])
      <4>1. ~ClearAhead(w, 1)
        BY DEF ClearAhead
      <4>2. message = "current" => toWorker[w][1] = "current" /\ 1 \in DOMAIN toWorker[w]
        BY <1>3
      <4> QED BY <3>1, <4>1, <4>2 DEF OrderAt
    <3>7. ASSUME NEW i \in 1 .. m + 1, toMaster'[w][i].current
          PROVE  Recent(toMaster[w][i].content)'
      <4>1. CASE i \in 1 .. m
        BY <1>1, <1>3, <2>1, <3>1, <3>7, <4>1 DEF OrderAt, Recent
      <4>2. CASE i = m + 1
        BY <1>1, <2>1, <2>4, <3>6, <3>7, <4>2 DEF Recent
      <4> QED BY <1>3, <4>1, <4>2
    <3> QED BY <1>5, <2>1, <3>3, <3>4, <3>5, <3>7 DEF OrderAt
  <2> QED BY <1>1, <1>7, <1>12, <2>2, <2>3, <2>5, <2>6, <2>7, <2>8, WorkerStep
<1>13. \/ UNCHANGED <<content, toMaster>> /\ (message = "clear" => w \in missed')
       \/ /\ message = "clear" /\ content' = [content EXCEPT ![w] = {}]
          /\ UNCHANGED <<toMaster, missed>>
       \/ /\ message # "clear"
          /\ toMaster' = [toMaster EXCEPT ![w] = Append(toMaster[w], answer)]
          /\ UNCHANGED <<content, missed>>
  BY DEF Handle, message, answer
<1> QED BY <1>10, <1>11, <1>12, <1>13
-----------------------------------------------------------------------------
(***************************************************************************)
(* The steps of the master.                                                *)
(***************************************************************************)
LEMMA NewRoundStep == IInv /\ NewRound /\ UNCHANGED <<link, content, clears, missed>> => IInv'
<1> SUFFICES ASSUME IInv, NewRound, UNCHANGED <<link, content, clears, missed>> PROVE IInv'
  OBVIOUS
<1> DEFINE Aged(w) == [i \in DOMAIN toWorker[w] |->
                         IF toWorker[w][i] = "current" THEN "stale" ELSE toWorker[w][i]]
           n(w) == Len(toWorker[w])
           before == [i \in DOMAIN rounds |-> [rounds[i] EXCEPT !.latest = FALSE]]
           round == [asked |-> Members, connected |-> Connected,
                     pending |-> Cardinality(Members), latest |-> TRUE, began |-> clears,
                     feed |-> [w \in Workers |-> <<>>]]
<1> PICK m : m = Len(rounds)
  OBVIOUS
<1>1. DataInv /\ \A w \in Workers : LinkAt(w) /\ OneRequestAt(w) /\ (w \notin missed => OrderAt(w))
  BY DEF IInv
<1>2. ASSUME NEW w \in Workers
      PROVE  /\ toWorker[w] \in Seq(Messages) /\ n(w) \in Nat /\ DOMAIN toWorker[w] = 1 .. n(w)
             /\ Aged(w) \in Seq(Messages) /\ Len(Aged(w)) = n(w)
             /\ \A i \in 1 .. n(w) : /\ Aged(w)[i] # "current"
                                     /\ Aged(w)[i] = "clear" <=> toWorker[w][i] = "clear"
  <2>1. toWorker[w] \in Seq(Messages) /\ n(w) \in Nat /\ DOMAIN toWorker[w] = 1 .. n(w)
    BY <1>1 DEF DataInv
  <2>2. \A i \in 1 .. n(w) : toWorker[w][i] \in Messages
    BY <2>1
  <2>3. Aged(w) \in [1 .. n(w) -> Messages]
    BY <2>1, <2>2 DEF Messages
  <2>4. Aged(w) \in Seq(Messages) /\ Len(Aged(w)) = n(w)
    BY <2>1, <2>3
  <2>5. \A i \in 1 .. n(w) : /\ Aged(w)[i] # "current"
                            /\ Aged(w)[i] = "clear" <=> toWorker[w][i] = "clear"
    BY <2>1
  <2> QED BY <2>1, <2>4, <2>5
<1> HIDE DEF Aged
<1>3. ASSUME NEW w \in Workers
      PROVE  /\ toWorker'[w] = IF w \in Connected THEN Append(Aged(w), "current") ELSE Aged(w)
             /\ toWorker'[w] \in Seq(Messages)
  <2>1. toWorker'[w] = IF w \in Connected THEN Append(Aged(w), "current") ELSE Aged(w)
    BY DEF NewRound, Aged
  <2> QED BY <1>2, <2>1 DEF Messages
<1>4. ASSUME NEW w \in Workers
      PROVE  /\ toMaster'[w] \in Seq(Answers) /\ DOMAIN toMaster'[w] = DOMAIN toMaster[w]
             /\ \A i \in DOMAIN toMaster[w] : ~toMaster'[w][i].current
  <2>1. toMaster[w] \in Seq(Answers)
    BY <1>1 DEF DataInv
  <2>2. toMaster'[w] = [i \in DOMAIN toMaster[w] |-> [toMaster[w][i] EXCEPT !.current = FALSE]]
    BY DEF NewRound
  <2>3. \A i \in DOMAIN toMaster[w] :
          /\ [toMaster[w][i] EXCEPT !.current = FALSE] \in Answers
          /\ ~[toMaster[w][i] EXCEPT !.current = FALSE].current
    <3>1. \A i \in DOMAIN toMaster[w] : toMaster[w][i] \in Answers
      BY <2>1
    <3> QED BY <3>1 DEF Answers
  <2> QED BY <2>1, <2>2, <2>3
<1>5. /\ toWorker' \in [Workers -> Seq(Messages)] /\ toMaster' \in [Workers -> Seq(Answers)]
  <2>1. /\ toWorker' = [w \in Workers |-> toWorker'[w]]
        /\ toMaster' = [w \in Workers |-> toMaster'[w]]
    BY DEF NewRound
  <2> QED BY <1>3, <1>4, <2>1
\* The rounds: the new one is the only one that is the latest.
<1>6. /\ rounds \in Seq(Rounds) /\ m \in Nat /\ DOMAIN rounds = 1 .. m
      /\ \A i \in 1 .. m : rounds[i] \in Rounds /\ rounds[i].began <= clears
  BY <1>1 DEF DataInv
<1>7. round \in Rounds
  <2>1. Members \in SUBSET Workers /\ Connected \in SUBSET Workers
    BY DEF Members, Connected
  <2>2. Cardinality(Members) \in Int
    BY <2>1, ClusterAssumption, FS_Subset, FS_CardinalityType
  <2>3. clears \in Nat /\ [w \in Workers |-> <<>>] \in [Workers -> Seq(SUBSET Nat)]
    BY <1>1 DEF DataInv
  <2> QED BY <2>1, <2>2, <2>3 DEF Rounds
<1>8. /\ before \in Seq(Rounds) /\ Len(before) = m
      /\ \A i \in 1 .. m : /\ ~before[i].latest /\ before[i].began = rounds[i].began
                           /\ before[i].feed = rounds[i].feed
  <2>1. ASSUME NEW i \in 1 .. m
        PROVE  /\ before[i] = [rounds[i] EXCEPT !.latest = FALSE] /\ before[i] \in Rounds
               /\ ~before[i].latest /\ before[i].began = rounds[i].began
               /\ before[i].feed = rounds[i].feed
    <3>1. before[i] = [rounds[i] EXCEPT !.latest = FALSE] /\ rounds[i] \in Rounds
      BY <1>6
    <3> HIDE DEF before
    <3> QED BY <3>1 DEF Rounds
  <2>2. before = [i \in 1 .. m |-> before[i]]
    BY <1>6
  <2> HIDE DEF before
  <2> QED BY <1>6, <2>1, <2>2
<1>9. rounds' = Append(before, round)
  BY DEF NewRound
<1> HIDE DEF before
<1>10. /\ rounds' \in Seq(Rounds) /\ DOMAIN rounds' = 1 .. m + 1
       /\ rounds'[m + 1] = round /\ \A i \in 1 .. m : rounds'[i] = before[i]
  BY <1>6, <1>7, <1>8, <1>9
<1>11. /\ round.latest /\ round.began = clears /\ round.connected = Connected
       /\ round.asked = Members /\ round.pending = Cardinality(Members)
       /\ \A w \in Workers : round.feed[w] = <<>>
  OBVIOUS
<1> HIDE DEF round
<1>12. clears \in Nat /\ \A i \in DOMAIN rounds' : rounds'[i].began \in Nat /\ rounds'[i].began <= clears
  <2>1. clears \in Nat
    BY <1>1 DEF DataInv
  <2>2. ASSUME NEW i \in 1 .. m + 1 PROVE rounds'[i].began \in Nat /\ rounds'[i].began <= clears
    <3>1. CASE i = m + 1
      BY <1>10, <1>11, <2>1, <3>1
    <3>2. CASE i \in 1 .. m
      <4>1. rounds[i].began \in Nat
        BY <1>6, <3>2 DEF Rounds
      <4> QED BY <1>6, <1>8, <1>10, <3>2, <4>1
    <3> QED BY <1>6, <3>1, <3>2
  <2> QED BY <1>10, <2>1, <2>2
<1>13. DataInv'
  BY <1>1, <1>5, <1>10, <1>12 DEF DataInv
\* The channels: the new request is the last message to a worker.
<1>14. ASSUME NEW w \in Workers
       PROVE  /\ \A i \in DOMAIN toWorker'[w] :
                    toWorker'[w][i] = "current" => w \in Connected /\ i = n(w) + 1
              /\ \A i \in 1 .. n(w) : toWorker[w][i] = "clear" => toWorker'[w][i] = "clear"
              /\ Len(toWorker'[w]) \in n(w) .. n(w) + 1
              /\ w \notin Connected => Len(toWorker'[w]) = n(w)
  <2>1. CASE w \in Connected
    <3> DEFINE a == Aged(w)
               k == n(w)
    <3>1. /\ a \in Seq(Messages) /\ Len(a) = k /\ k \in Nat /\ "current" \in Messages
          /\ \A i \in 1 .. k : a[i] # "current" /\ (a[i] = "clear" <=> toWorker[w][i] = "clear")
      BY <1>2 DEF Messages
    <3>2. toWorker'[w] = Append(a, "current")
      BY <1>3, <2>1
    <3> HIDE DEF a, n
    <3>3. /\ Len(toWorker'[w]) = k + 1 /\ DOMAIN toWorker'[w] = 1 .. k + 1
          /\ \A i \in 1 .. k : toWorker'[w][i] = a[i]
      BY <3>1, <3>2
    <3>4. Len(toWorker'[w]) \in k .. k + 1
      BY <3>1, <3>3
    <3>5. \A i \in 1 .. k + 1 : toWorker'[w][i] = "current" => i = k + 1
      BY <3>1, <3>3
    <3>6. \A i \in 1 .. k : toWorker[w][i] = "clear" => toWorker'[w][i] = "clear"
      BY <3>1, <3>3
    <3> QED BY <2>1, <3>3, <3>4, <3>5, <3>6
  <2>2. CASE w \notin Connected
    BY <1>2, <1>3, <2>2
  <2> QED BY <2>1, <2>2
<1>15. ASSUME NEW w \in Workers PROVE LinkAt(w)' /\ OneRequestAt(w)'
  <2>1. OneRequestAt(w)'
    BY <1>4, <1>14 DEF OneRequestAt, Requested, Responding
  <2>2. LinkAt(w)'
    <3>1. LinkAt(w) /\ link'[w] = link[w] /\ content'[w] = content[w]
      BY <1>1
    <3>2. CASE link[w] = "connected"
      BY <3>1, <3>2 DEF LinkAt
    <3>3. CASE link[w] # "connected"
      <4>1. w \notin Connected /\ toWorker[w] = <<>> /\ toMaster[w] = <<>>
        BY <3>1, <3>3 DEF LinkAt, Connected
      <4>2. Len(toWorker'[w]) = 0 /\ Len(toMaster'[w]) = 0
        BY <1>4, <1>14, <4>1
      <4>3. toWorker'[w] = <<>> /\ toMaster'[w] = <<>>
        BY <1>3, <1>4, <4>2
      <4> QED BY <3>1, <4>3 DEF LinkAt
    <3> QED BY <3>2, <3>3
  <2> QED BY <2>1, <2>2
<1>16. ASSUME NEW w \in Workers \ missed PROVE OrderAt(w)'
  <2>1. w \in Workers /\ OrderAt(w) /\ content[w] \in SUBSET Nat
    BY <1>1 DEF DataInv
  <2>2. link[w] = "connected" =>
          (\E k \in 1 .. n(w) : toWorker[w][k] = "clear") \/ \A e \in content[w] : e >= clears
    <3>1. n(w) \in Nat /\ (n(w) + 1) - 1 = n(w)
      BY <1>2, <2>1
    <3> QED BY <2>1, <3>1 DEF OrderAt, ClearAhead
  <2>3. (\A e \in content[w] : e >= clears) => Recent(content[w])'
    <3> SUFFICES ASSUME \A e \in content[w] : e >= clears,
                        NEW e \in content[w], NEW i \in DOMAIN rounds'
                 PROVE  e >= rounds'[i].began
      BY DEF Recent
    <3>1. e \in Nat /\ e >= clears /\ clears \in Nat
      BY <1>12, <2>1
    <3> QED BY <1>12, <3>1
  <2> HIDE DEF n
  <2>4. n(w) \in Nat
    BY <1>2, <2>1 DEF n
  <2>5. link'[w] = "connected" => (ClearAhead(w, Len(toWorker[w]) + 1) \/ \A e \in content[w] : e >= clears)'
    <3> SUFFICES ASSUME NEW k \in 1 .. n(w), toWorker[w][k] = "clear"
                 PROVE  ClearAhead(w, Len(toWorker[w]) + 1)'
      BY <2>2
    <3>1. toWorker'[w][k] = "clear" /\ k \in 1 .. (Len(toWorker'[w]) + 1) - 1
      BY <1>14, <2>1, <2>4
    <3> QED BY <3>1 DEF ClearAhead
  <2>6. ASSUME NEW i \in DOMAIN toWorker'[w], toWorker'[w][i] = "current"
        PROVE  (ClearAhead(w, i) \/ Recent(content[w]))'
    <3>1. w \in Connected /\ i = n(w) + 1
      BY <1>14, <2>1, <2>6
    <3>2. link[w] = "connected" /\ i - 1 = n(w)
      BY <2>4, <3>1 DEF Connected
    <3>3. CASE \E k \in 1 .. n(w) : toWorker[w][k] = "clear"
      BY <1>14, <2>1, <3>2, <3>3 DEF ClearAhead
    <3>4. CASE \A e \in content[w] : e >= clears
      BY <2>3, <3>4
    <3> QED BY <2>2, <3>2, <3>3, <3>4
  <2>7. \A i \in DOMAIN toMaster'[w] : ~toMaster'[w][i].current
    BY <1>4, <2>1
  <2> QED BY <2>5, <2>6, <2>7 DEF OrderAt
<1>17. RoundInv'
  <2> SUFFICES ASSUME NEW i \in DOMAIN rounds', rounds'[i].latest PROVE Sound(rounds[i])'
    BY DEF RoundInv
  <2>1. rounds'[i] = round
    BY <1>6, <1>8, <1>10
  <2>2. Answered(round) = {}
    BY <1>11 DEF Answered
  <2>3. Connected \subseteq Members
    BY DEF Connected, Members
  <2>4. \A w \in Workers : (Requested(w) \/ Responding(w))' => w \in Connected
    BY <1>4, <1>14 DEF Requested, Responding
  <2>5. Members \ {} = Members
    OBVIOUS
  <2> QED BY <1>11, <2>1, <2>2, <2>3, <2>4, <2>5 DEF Sound
<1>18. ClearedStaysCleared'
  <2> SUFFICES ASSUME NEW i \in DOMAIN rounds', NEW w \in Workers \ missed',
                      NEW e \in UNION ToSet(rounds'[i].feed[w])
               PROVE  e >= rounds'[i].began
    BY DEF ClearedStaysCleared
  <2>1. CASE i \in 1 .. m
    <3>1. rounds'[i].feed = rounds[i].feed /\ rounds'[i].began = rounds[i].began
      BY <1>8, <1>10, <2>1
    <3> QED BY <1>6, <2>1, <3>1 DEF IInv, ClearedStaysCleared
  <2>2. CASE i = m + 1
    <3>1. rounds'[i].feed[w] = <<>>
      BY <1>10, <1>11, <2>2
    <3> QED BY <3>1 DEF ToSet
  <2> QED BY <1>6, <1>10, <2>1, <2>2
<1> QED BY <1>13, <1>15, <1>16, <1>17, <1>18 DEF IInv

LEMMA TimeoutStep == IInv /\ Timeout => IInv'
<1> SUFFICES ASSUME IInv, Timeout PROVE IInv'
  OBVIOUS
<1>1. /\ rounds # <<>> /\ rounds' = Tail(rounds) /\ DataInv
      /\ UNCHANGED <<clears, link, content, toWorker, toMaster, missed>>
  BY DEF IInv, Timeout, workerVars, channelVars, clearVars
<1>2. /\ rounds' \in Seq(Rounds)
      /\ \A i \in DOMAIN rounds' : i + 1 \in DOMAIN rounds /\ rounds'[i] = rounds[i + 1]
  BY <1>1 DEF DataInv
<1>3. DataInv'
  BY <1>1, <1>2 DEF DataInv
<1>4. \A w \in Workers : LinkAt(w)' /\ OneRequestAt(w)'
  BY <1>1 DEF IInv, LinkAt, OneRequestAt, Requested, Responding
<1>5. ASSUME NEW w \in Workers \ missed' PROVE OrderAt(w)'
  <2>1. OrderAt(w)
    BY <1>1 DEF IInv
  <2>2. \A held : Recent(held) => \A e \in held : \A i \in DOMAIN rounds' : e >= rounds'[i].began
    BY <1>2 DEF Recent
  <2> QED BY <1>1, <2>1, <2>2 DEF OrderAt, ClearAhead, Recent
<1>6. RoundInv'
  <2> SUFFICES ASSUME NEW i \in DOMAIN rounds', rounds'[i].latest PROVE Sound(rounds[i])'
    BY DEF RoundInv
  <2>1. i + 1 \in DOMAIN rounds /\ rounds'[i] = rounds[i + 1] /\ RoundInv
    BY <1>2 DEF IInv
  <2>2. Sound(rounds[i + 1])
    BY <2>1 DEF RoundInv
  <2> QED BY <1>1, <2>1, <2>2 DEF Sound, Requested, Responding
<1>7. ClearedStaysCleared'
  BY <1>1, <1>2 DEF IInv, ClearedStaysCleared
<1> QED BY <1>3, <1>4, <1>5, <1>6, <1>7 DEF IInv

LEMMA ClearStep == IInv /\ Clear => IInv'
<1> SUFFICES ASSUME IInv, Clear PROVE IInv'
  OBVIOUS
<1>1. /\ UNCHANGED <<rounds, link, content, toMaster, missed>> /\ clears' = clears + 1 /\ DataInv
      /\ toWorker' = [w \in Workers |-> IF w \in Connected THEN Append(toWorker[w], "clear")
                                        ELSE toWorker[w]]
  BY DEF IInv, Clear, workerVars, channelVars, clearVars
<1>2. ASSUME NEW w \in Workers
      PROVE  /\ toWorker'[w] \in Seq(Messages)
             /\ DOMAIN toWorker[w] \subseteq DOMAIN toWorker'[w]
             /\ \A i \in DOMAIN toWorker[w] : toWorker'[w][i] = toWorker[w][i]
             /\ \A i \in DOMAIN toWorker'[w] : toWorker'[w][i] = "current" => i \in DOMAIN toWorker[w]
             /\ w \notin Connected => toWorker'[w] = toWorker[w]
             /\ w \in Connected => /\ Len(toWorker'[w]) \in DOMAIN toWorker'[w]
                                  /\ toWorker'[w][Len(toWorker'[w])] = "clear"
  <2>1. toWorker[w] \in Seq(Messages) /\ "clear" \in Messages
    BY <1>1 DEF DataInv, Messages
  <2>2. CASE w \in Connected
    <3> DEFINE s == toWorker[w]
               t == Append(s, "clear")
    <3>1. toWorker'[w] = t
      BY <1>1, <2>2
    <3>2. /\ t \in Seq(Messages) /\ Len(s) \in Nat /\ Len(t) = Len(s) + 1
          /\ DOMAIN s = 1 .. Len(s) /\ DOMAIN t = 1 .. Len(s) + 1
          /\ t[Len(s) + 1] = "clear" /\ \A i \in 1 .. Len(s) : t[i] = s[i]
      BY <2>1
    <3>3. \A i \in 1 .. Len(s) + 1 : t[i] = "current" => i \in 1 .. Len(s)
      BY <3>2
    <3> HIDE DEF t
    <3> QED BY <2>2, <3>1, <3>2, <3>3
  <2>3. CASE w \notin Connected
    BY <1>1, <2>1, <2>3
  <2> QED BY <2>2, <2>3
<1>3. DataInv'
  <2>1. toWorker' \in [Workers -> Seq(Messages)]
    BY <1>1, <1>2
  <2>2. clears' \in Nat /\ \A i \in DOMAIN rounds : rounds[i].began <= clears'
    <3>1. clears \in Nat /\ \A i \in DOMAIN rounds : rounds[i] \in Rounds /\ rounds[i].began <= clears
      BY <1>1 DEF DataInv
    <3>2. \A i \in DOMAIN rounds : rounds[i].began \in Nat
      BY <3>1 DEF Rounds
    <3> QED BY <1>1, <3>1, <3>2
  <2> QED BY <1>1, <2>1, <2>2 DEF DataInv
<1>4. ASSUME NEW w \in Workers PROVE LinkAt(w)' /\ OneRequestAt(w)'
  <2>1. LinkAt(w) /\ OneRequestAt(w) /\ (link[w] # "connected" => w \notin Connected)
    BY DEF IInv, Connected
  <2>2. LinkAt(w)'
    BY <1>1, <1>2, <2>1 DEF LinkAt
  <2>3. OneRequestAt(w)'
    BY <1>1, <1>2, <2>1 DEF OneRequestAt, Requested, Responding
  <2> QED BY <2>2, <2>3
<1>5. ASSUME NEW w \in Workers \ missed' PROVE OrderAt(w)'
  <2>1. OrderAt(w) /\ w \in Workers
    BY <1>1 DEF IInv
  <2>2. link'[w] = "connected" => ClearAhead(w, Len(toWorker[w]) + 1)'
    <3> SUFFICES ASSUME link[w] = "connected" PROVE ClearAhead(w, Len(toWorker[w]) + 1)'
      BY <1>1
    <3> DEFINE n == Len(toWorker'[w])
    <3>1. toWorker'[w] \in Seq(Messages) /\ n \in DOMAIN toWorker'[w] /\ toWorker'[w][n] = "clear"
      BY <1>2, <2>1 DEF Connected
    <3>2. n \in 1 .. (n + 1) - 1
      BY <3>1
    <3> QED BY <3>1, <3>2 DEF ClearAhead
  <2>3. ASSUME NEW i \in DOMAIN toWorker'[w], toWorker'[w][i] = "current"
        PROVE  (ClearAhead(w, i) \/ Recent(content[w]))'
    <3>1. i \in DOMAIN toWorker[w] /\ toWorker[w][i] = "current"
      BY <1>2, <2>1, <2>3
    <3>2. ClearAhead(w, i) \/ Recent(content[w])
      BY <2>1, <3>1 DEF OrderAt
    <3>3. \A k \in 1 .. i - 1 : k \in DOMAIN toWorker[w]
      <4>1. toWorker[w] \in Seq(Messages)
        BY <1>1, <2>1 DEF DataInv
      <4> QED BY <3>1, <4>1
    <3>4. ClearAhead(w, i) => ClearAhead(w, i)'
      BY <1>2, <2>1, <3>3 DEF ClearAhead
    <3>5. Recent(content[w]) => Recent(content[w])'
      BY <1>1 DEF Recent
    <3> QED BY <3>2, <3>4, <3>5
  <2>4. ASSUME NEW i \in DOMAIN toMaster'[w], toMaster'[w][i].current
        PROVE  Recent(toMaster[w][i].content)'
    BY <1>1, <2>1, <2>4 DEF OrderAt, Recent
  <2> QED BY <2>2, <2>3, <2>4 DEF OrderAt
<1>6. RoundInv'
  <2>1. \A w \in Workers : (Requested(w) \/ Responding(w))' => Requested(w) \/ Responding(w)
    BY <1>1, <1>2 DEF Requested, Responding
  <2> QED BY <1>1, <2>1 DEF IInv, RoundInv, Sound
<1>7. ClearedStaysCleared'
  BY <1>1 DEF IInv, ClearedStaysCleared
<1> QED BY <1>3, <1>4, <1>5, <1>6, <1>7 DEF IInv

(* A round that hears of a worker. *)
Hears(round, w, held) == [round EXCEPT !.pending = @ - 1, !.feed[w] = Append(@, held)]

LEMMA HearsFacts ==
  ASSUME NEW round \in Rounds, NEW w \in Workers, NEW held \in SUBSET Nat
  PROVE  LET heard == Hears(round, w, held)
         IN  /\ heard \in Rounds /\ heard.pending = round.pending - 1
             /\ heard.asked = round.asked /\ heard.connected = round.connected
             /\ heard.latest = round.latest /\ heard.began = round.began
             /\ heard.feed[w] = Append(round.feed[w], held) /\ round.feed[w] \in Seq(SUBSET Nat)
             /\ \A v \in Workers \ {w} : heard.feed[v] = round.feed[v]
             /\ Answered(heard) = Answered(round) \union {w}
<1> DEFINE heard == Hears(round, w, held)
           feed == [round.feed EXCEPT ![w] = Append(round.feed[w], held)]
<1>1. round.feed \in [Workers -> Seq(SUBSET Nat)] /\ round.pending \in Int
  BY DEF Rounds
<1>2. Append(round.feed[w], held) \in Seq(SUBSET Nat) /\ Append(round.feed[w], held) # <<>>
  <2>1. round.feed[w] \in Seq(SUBSET Nat)
    BY <1>1
  <2> HIDE DEF feed
  <2>2. \A s \in Seq(SUBSET Nat) : Append(s, held) \in Seq(SUBSET Nat) /\ Append(s, held) # <<>>
    OBVIOUS
  <2> QED BY <2>1, <2>2
<1>3. /\ feed \in [Workers -> Seq(SUBSET Nat)] /\ feed[w] = Append(round.feed[w], held)
      /\ \A v \in Workers \ {w} : feed[v] = round.feed[v]
  BY <1>1, <1>2
<1>4. heard = [round EXCEPT !.pending = round.pending - 1, !.feed = feed]
  BY DEF Hears, Rounds
<1> HIDE DEF feed, heard
<1>5. /\ heard \in Rounds /\ heard.pending = round.pending - 1 /\ heard.feed = feed
      /\ heard.asked = round.asked /\ heard.connected = round.connected
      /\ heard.latest = round.latest /\ heard.began = round.began
  <2>1. round.pending - 1 \in Int
    BY <1>1
  <2>2. \A p \in Int : \A g \in [Workers -> Seq(SUBSET Nat)] :
          LET r == [round EXCEPT !.pending = p, !.feed = g]
          IN  /\ r \in Rounds /\ r.pending = p /\ r.feed = g
              /\ r.asked = round.asked /\ r.connected = round.connected
              /\ r.latest = round.latest /\ r.began = round.began
    BY DEF Rounds
  <2> QED BY <1>3, <1>4, <2>1, <2>2
<1>6. Answered(heard) = Answered(round) \union {w}
  BY <1>2, <1>3, <1>5 DEF Answered
<1> QED BY <1>1, <1>3, <1>5, <1>6 DEF heard

LEMMA ToSetAppend ==
  ASSUME NEW S, NEW s \in Seq(S), NEW e \in S
  PROVE  ToSet(Append(s, e)) = ToSet(s) \union {e}
<1> PICK t, n : t = Append(s, e) /\ n = Len(s)
  OBVIOUS
<1>1. /\ n \in Nat /\ DOMAIN s = 1 .. n /\ DOMAIN t = 1 .. n + 1
      /\ t[n + 1] = e /\ \A i \in 1 .. n : t[i] = s[i]
  OBVIOUS
<1>2. ToSet(s) = {s[i] : i \in 1 .. n} /\ ToSet(t) = {t[i] : i \in 1 .. n + 1}
  BY <1>1 DEF ToSet
<1>3. ASSUME NEW x \in ToSet(t) PROVE x \in ToSet(s) \union {e}
  <2>1. PICK i \in 1 .. n + 1 : x = t[i]
    BY <1>2
  <2>2. i = n + 1 \/ i \in 1 .. n
    BY <1>1
  <2> QED BY <1>1, <1>2, <2>1, <2>2
<1>4. ASSUME NEW x \in ToSet(s) \union {e} PROVE x \in ToSet(t)
  <2>1. n + 1 \in 1 .. n + 1 /\ \A i \in 1 .. n : i \in 1 .. n + 1
    BY <1>1
  <2> QED BY <1>1, <1>2, <2>1
<1> QED BY <1>3, <1>4

LEMMA ReceiveShape ==
  ASSUME NEW w \in Workers, IInv, Receive(w)
  PROVE  LET answer == toMaster[w][1]
         IN  /\ 1 \in DOMAIN toMaster[w] /\ answer \in Answers
             /\ ~answer.current => rounds' = rounds
             /\ answer.current =>
                  /\ rounds' \in Seq(Rounds)
                  /\ \A n \in DOMAIN rounds' : \E i \in DOMAIN rounds :
                       rounds'[n] = Hears(rounds[i], w, answer.content)
                  /\ \A i \in DOMAIN rounds : rounds[i].pending # 1 =>
                       \E n \in DOMAIN rounds' : rounds'[n] = Hears(rounds[i], w, answer.content)
<1> DEFINE answer == toMaster[w][1]
           heard == [i \in DOMAIN rounds |-> Hears(rounds[i], w, answer.content)]
<1>1. DataInv
  BY DEF IInv
<1>2. /\ toMaster[w] \in Seq(Answers) /\ toMaster[w] # <<>> /\ Head(toMaster[w]) = answer
      /\ 1 \in DOMAIN toMaster[w] /\ answer \in Answers
  <2>1. toMaster[w] \in Seq(Answers) /\ toMaster[w] # <<>>
    BY <1>1 DEF DataInv, Receive
  <2> QED BY <2>1
<1>3. IF answer.current THEN rounds' = StillOpen(heard) ELSE rounds' = rounds
  BY <1>2 DEF Receive, Hears
<1>4. \A i \in DOMAIN rounds : rounds[i] \in Rounds
  BY <1>1 DEF DataInv
<1>5. answer.content \in SUBSET Nat
  BY <1>2 DEF Answers
<1> HIDE DEF answer
<1>6. \A i \in DOMAIN rounds : /\ Hears(rounds[i], w, answer.content) \in Rounds
                              /\ Hears(rounds[i], w, answer.content).pending = rounds[i].pending - 1
                              /\ rounds[i].pending \in Int
  BY <1>4, <1>5, HearsFacts DEF Rounds
<1>7. heard \in Seq(Rounds) /\ DOMAIN heard = DOMAIN rounds
  <2>1. rounds \in Seq(Rounds)
    BY <1>1 DEF DataInv
  <2> QED BY <1>6, <2>1
<1>8. \A i \in DOMAIN rounds : heard[i] = Hears(rounds[i], w, answer.content)
  OBVIOUS
<1> HIDE DEF heard
<1>9. /\ StillOpen(heard) \in Seq(Rounds)
      /\ \A n \in DOMAIN StillOpen(heard) : \E i \in DOMAIN heard :
           heard[i].pending # 0 /\ StillOpen(heard)[n] = heard[i]
      /\ \A i \in DOMAIN heard : heard[i].pending # 0 =>
           \E n \in DOMAIN StillOpen(heard) : StillOpen(heard)[n] = heard[i]
  BY <1>7, StillOpenFacts
<1>10. \A i \in DOMAIN rounds : rounds[i].pending # 1 => heard[i].pending # 0
  BY <1>6, <1>8
<1> QED BY <1>2, <1>3, <1>7, <1>8, <1>9, <1>10 DEF answer

LEMMA ReceiveStep ==
  ASSUME NEW w \in Workers, IInv, Receive(w)
  PROVE  IInv'
<1> PICK answer, n : answer = toMaster[w][1] /\ n = Len(toMaster[w])
  OBVIOUS
<1>1. /\ DataInv /\ LinkAt(w) /\ OneRequestAt(w) /\ (w \notin missed => OrderAt(w))
      /\ UNCHANGED <<clears, link, content, toWorker, missed>>
      /\ toMaster' = [toMaster EXCEPT ![w] = Tail(toMaster[w])]
  BY DEF IInv, Receive, workerVars, clearVars
<1>2. /\ toMaster[w] \in Seq(Answers) /\ 1 \in DOMAIN toMaster[w] /\ answer \in Answers
      /\ n \in Nat \ {0} /\ DOMAIN toMaster[w] = 1 .. n
  BY <1>1, ReceiveShape DEF DataInv
<1>3. /\ toMaster'[w] \in Seq(Answers) /\ DOMAIN toMaster'[w] = 1 .. n - 1
      /\ \A i \in 1 .. n - 1 : toMaster'[w][i] = toMaster[w][i + 1] /\ i + 1 \in 1 .. n /\ i + 1 # 1
  BY <1>1, <1>2 DEF DataInv
<1>4. toMaster' \in [Workers -> Seq(Answers)] /\ \A v \in Workers \ {w} : toMaster'[v] = toMaster[v]
  BY <1>1, <1>3 DEF DataInv
<1>5. Responding(w)' => Responding(w)
  BY <1>2, <1>3 DEF Responding
<1>6. answer.current => Responding(w) /\ ~Responding(w)' /\ ~Requested(w)'
  <2> SUFFICES ASSUME answer.current PROVE Responding(w) /\ ~Responding(w)' /\ ~Requested(w)'
    OBVIOUS
  <2>1. Responding(w)
    BY <1>2 DEF Responding
  <2>2. ~Requested(w)'
    BY <1>1, <2>1 DEF OneRequestAt, Requested
  <2>3. \A i \in 1 .. n - 1 : ~toMaster'[w][i].current
    BY <1>1, <1>2, <1>3 DEF OneRequestAt
  <2> QED BY <1>3, <2>1, <2>2, <2>3 DEF Responding
<1>7. OneRequestAt(w)'
  <2>1. ~(Requested(w)' /\ Responding(w)')
    BY <1>1, <1>5 DEF OneRequestAt, Requested
  <2>2. ASSUME NEW i \in 1 .. n - 1, NEW k \in 1 .. n - 1,
               toMaster'[w][i].current, toMaster'[w][k].current
        PROVE  i = k
    <3>1. i + 1 = k + 1
      BY <1>1, <1>2, <1>3, <2>2 DEF OneRequestAt
    <3> QED BY <3>1
  <2> QED BY <1>1, <1>3, <2>1, <2>2 DEF OneRequestAt
<1>8. LinkAt(w)'
  <2>1. link[w] = "connected"
    BY <1>1, <1>2 DEF LinkAt
  <2> QED BY <1>1, <2>1 DEF LinkAt
<1>9. ASSUME w \notin missed', \A held : Recent(held) => Recent(held)'
      PROVE  OrderAt(w)'
  <2>1. OrderAt(w) /\ UNCHANGED <<clears, link, content, toWorker>>
    BY <1>1, <1>9
  <2>2. ASSUME NEW i \in 1 .. n - 1, toMaster'[w][i].current PROVE Recent(toMaster[w][i].content)'
    <3>1. Recent(toMaster[w][i + 1].content)
      BY <1>2, <1>3, <2>1, <2>2 DEF OrderAt
    <3> QED BY <1>3, <1>9, <3>1 DEF Recent
  <2>3. \A i \in DOMAIN toWorker'[w] :
          toWorker'[w][i] = "current" => (ClearAhead(w, i) \/ Recent(content[w]))'
    BY <1>9, <2>1 DEF OrderAt, ClearAhead, Recent
  <2>4. (link[w] = "connected" =>
           ClearAhead(w, Len(toWorker[w]) + 1) \/ \A e \in content[w] : e >= clears)'
    BY <2>1 DEF OrderAt, ClearAhead
  <2> QED BY <1>3, <2>2, <2>3, <2>4 DEF OrderAt
<1>10. CASE ~answer.current
  <2>1. rounds' = rounds
    BY <1>10, ReceiveShape
  <2>2. DataInv' /\ \A v \in Workers \ {w} : SameAt(v)
    BY <1>1, <1>4, <2>1 DEF DataInv, SameAt
  <2>3. Requested(w)' => Requested(w)
    BY <1>1 DEF Requested
  <2>4. w \notin missed' => OrderAt(w)'
    BY <1>9, <2>1 DEF Recent
  <2> QED BY <1>1, <1>5, <1>7, <1>8, <2>1, <2>2, <2>3, <2>4, WorkerStep
<1>11. CASE answer.current
  <2>1. /\ rounds' \in Seq(Rounds) /\ answer.content \in SUBSET Nat
        /\ \A k \in DOMAIN rounds' : \E i \in DOMAIN rounds :
             rounds'[k] = Hears(rounds[i], w, answer.content)
    BY <1>2, <1>11, ReceiveShape DEF Answers
  <2>2. \A i \in DOMAIN rounds : rounds[i] \in Rounds /\ rounds[i].began <= clears
    BY <1>1 DEF DataInv
  <2>3. \A k \in DOMAIN rounds' : \E i \in DOMAIN rounds : rounds'[k].began = rounds[i].began
    BY <2>1, <2>2, HearsFacts
  <2>4. DataInv'
    BY <1>1, <1>4, <2>1, <2>2, <2>3 DEF DataInv
  <2>5. \A held : Recent(held) => Recent(held)'
    BY <2>3 DEF Recent
  <2>6. ASSUME NEW v \in Workers PROVE LinkAt(v)' /\ OneRequestAt(v)'
    <3>1. CASE v # w
      <4>1. LinkAt(v) /\ OneRequestAt(v) /\ toMaster'[v] = toMaster[v]
        BY <1>4, <3>1 DEF IInv
      <4> QED BY <1>1, <4>1 DEF LinkAt, OneRequestAt, Requested, Responding
    <3> QED BY <1>7, <1>8, <3>1
  <2>7. ASSUME NEW v \in Workers \ missed' PROVE OrderAt(v)'
    <3>1. CASE v # w
      <4>1. OrderAt(v) /\ toMaster'[v] = toMaster[v]
        BY <1>1, <1>4, <3>1 DEF IInv
      <4> QED BY <1>1, <2>5, <4>1 DEF OrderAt, ClearAhead, Recent
    <3> QED BY <1>9, <2>5, <3>1
  <2>8. RoundInv'
    <3> SUFFICES ASSUME NEW k \in DOMAIN rounds', rounds'[k].latest PROVE Sound(rounds[k])'
      BY DEF RoundInv
    <3>1. PICK i \in DOMAIN rounds : rounds'[k] = Hears(rounds[i], w, answer.content)
      BY <2>1
    <3> DEFINE r == rounds[i]
               h == Hears(r, w, answer.content)
    <3>2. /\ h.pending = r.pending - 1 /\ h.asked = r.asked /\ h.connected = r.connected
          /\ h.latest = r.latest /\ Answered(h) = Answered(r) \union {w}
          /\ h.feed[w] = Append(r.feed[w], answer.content) /\ r.feed[w] \in Seq(SUBSET Nat)
          /\ \A v \in Workers \ {w} : h.feed[v] = r.feed[v]
      <4>1. r \in Rounds
        BY <2>2
      <4> HIDE DEF r
      <4> QED BY <2>1, <4>1, HearsFacts
    <3>3. Sound(r)
      BY <3>1, <3>2 DEF IInv, RoundInv
    <3>4. w \in r.connected \ Answered(r)
      BY <1>6, <1>11, <3>3 DEF Sound
    <3>5. r.feed[w] = <<>> /\ Len(h.feed[w]) = 1
      <4>1. r.feed[w] = <<>>
        BY <3>4 DEF Answered
      <4>2. Len(Append(r.feed[w], answer.content)) = 1
        BY <4>1
      <4> QED BY <3>2, <4>1, <4>2
    <3>6. \A v \in Answered(h) : Len(h.feed[v]) = 1
      <4>1. Answered(r) \subseteq Workers
        BY DEF Answered
      <4> QED BY <3>2, <3>3, <3>5, <4>1 DEF Sound
    <3>7. h.pending = Cardinality(h.asked \ Answered(h))
      <4> DEFINE rest == r.asked \ Answered(r)
      <4>1. w \in rest /\ h.asked \ Answered(h) = rest \ {w}
        BY <3>2, <3>3, <3>4 DEF Sound
      <4>2. IsFiniteSet(rest)
        BY <2>2, ClusterAssumption, FS_Subset DEF Rounds
      <4>3. Cardinality(rest \ {w}) = Cardinality(rest) - 1
        BY <4>1, <4>2, FS_RemoveElement
      <4> QED BY <3>2, <3>3, <4>1, <4>3 DEF Sound
    <3>8. ASSUME NEW v \in Workers, Requested(v)' \/ Responding(v)'
          PROVE  v \in h.connected \ Answered(h)
      <4>1. v # w
        BY <1>6, <1>11, <3>8
      <4>2. Requested(v) \/ Responding(v)
        BY <1>1, <1>4, <3>8, <4>1 DEF Requested, Responding
      <4> QED BY <3>2, <3>3, <4>1, <4>2 DEF Sound
    <3>9. Answered(h) \subseteq h.connected /\ h.connected \subseteq h.asked
      BY <3>2, <3>3, <3>4 DEF Sound
    <3> HIDE DEF h
    <3>10. rounds'[k] = h
      BY <3>1 DEF h
    <3> QED BY <3>6, <3>7, <3>8, <3>9, <3>10 DEF Sound
  <2>9. ClearedStaysCleared'
    <3> SUFFICES ASSUME NEW k \in DOMAIN rounds', NEW v \in Workers \ missed',
                        NEW e \in UNION ToSet(rounds'[k].feed[v])
                 PROVE  e >= rounds'[k].began
      BY DEF ClearedStaysCleared
    <3>1. PICK i \in DOMAIN rounds : rounds'[k] = Hears(rounds[i], w, answer.content)
      BY <2>1
    <3>2. /\ rounds'[k].began = rounds[i].began
          /\ rounds'[k].feed[w] = Append(rounds[i].feed[w], answer.content)
          /\ rounds[i].feed[w] \in Seq(SUBSET Nat)
          /\ \A u \in Workers \ {w} : rounds'[k].feed[u] = rounds[i].feed[u]
      BY <2>1, <2>2, <3>1, HearsFacts
    <3>3. \A f \in UNION ToSet(rounds[i].feed[v]) : f >= rounds[i].began
      BY <1>1 DEF IInv, ClearedStaysCleared
    <3>4. CASE v # w
      BY <3>2, <3>3, <3>4
    <3>5. CASE v = w
      <4>1. ToSet(rounds'[k].feed[w]) = ToSet(rounds[i].feed[w]) \union {answer.content}
        <5>1. answer.content \in SUBSET Nat
          BY <2>1
        <5> QED BY <3>2, <5>1, ToSetAppend
      <4>2. Recent(answer.content)
        BY <1>1, <1>2, <1>11, <3>5 DEF OrderAt
      <4>3. e \in UNION ToSet(rounds[i].feed[w]) \/ e \in answer.content
        BY <3>5, <4>1
      <4> QED BY <3>2, <3>3, <3>5, <4>2, <4>3 DEF Recent
    <3> QED BY <3>4, <3>5
  <2> QED BY <2>4, <2>6, <2>7, <2>8, <2>9 DEF IInv
<1> QED BY <1>10, <1>11
-----------------------------------------------------------------------------
LEMMA Inductive == IInv /\ [Next]_vars => IInv'
<1> SUFFICES ASSUME IInv, [Next]_vars PROVE IInv'
  OBVIOUS
<1>1. CASE Start
  <2>1. CASE polling
    BY <1>1, <2>1, QuietStep DEF Start, workerVars, channelVars, clearVars, proofVars
  <2>2. CASE ~polling
    BY <1>1, <2>2, NewRoundStep DEF Start, workerVars, clearVars
  <2> QED BY <2>1, <2>2
<1>2. CASE Stop
  BY <1>2, QuietStep DEF Stop, workerVars, channelVars, clearVars, proofVars
<1>3. CASE SendRequest
  BY <1>3, NewRoundStep DEF SendRequest, workerVars, clearVars
<1>4. CASE Timeout
  BY <1>4, TimeoutStep
<1>5. CASE Clear
  BY <1>5, ClearStep
<1>6. ASSUME NEW w \in Workers, Fork(w) \/ Disconnect(w) \/ Exit(w) PROVE IInv'
  BY <1>6, LinkSteps
<1>7. ASSUME NEW w \in Workers, Listens(w) PROVE IInv'
  BY <1>7, QuietStep DEF Listens, channelVars, clearVars, proofVars
<1>8. ASSUME NEW w \in Workers, Change(w) \/ Handle(w) \/ Receive(w) PROVE IInv'
  BY <1>8, ChangeStep, HandleStep, ReceiveStep
<1>9. CASE UNCHANGED vars
  BY <1>9, QuietStep DEF vars, workerVars, channelVars, clearVars, proofVars
<1> QED BY <1>1, <1>2, <1>3, <1>4, <1>5, <1>6, <1>7, <1>8, <1>9 DEF Next

(* No round that began after a clear() hears of errors it deleted, from a  *)
(* worker that listened to it: for any workers that come and go, any calls *)
(* of clear(), and any answers that are late, lost or counted to an        *)
(* overlapping round.  Nothing is said of the round that was open.         *)
THEOREM ClearedStaysClearedAlways == Spec => []ClearedStaysCleared
<1>1. IInv => ClearedStaysCleared
  BY DEF IInv
<1> QED BY InitIInv, Inductive, <1>1, PTL DEF Spec

(* Of the latest round of the master: what it counts is what is missing,   *)
(* and only the last of the missing answers ends it early.                 *)
THEOREM RoundsAreTrueAlways == Spec => RoundsAreTrue
<1> DEFINE Answering(round) == {w \in Workers : round.feed[w] # <<>>}
           Over == toMaster' # toMaster /\ \A k \in DOMAIN rounds' : ~rounds'[k].latest
           True(round) ==
             /\ Answering(round) \subseteq round.connected
             /\ \A w \in Answering(round) : Len(round.feed[w]) = 1
             /\ round.pending = Cardinality(round.asked \ Answering(round))
             /\ Over => \E w \in round.connected :
                          toMaster'[w] # toMaster[w] /\ round.asked \ Answering(round) = {w}
           RoundsTrue == \A i \in DOMAIN rounds : rounds[i].latest => True(rounds[i])
<1>1. IInv /\ [Next]_vars => [RoundsTrue]_vars
  <2> SUFFICES ASSUME IInv, [Next]_vars, NEW i \in DOMAIN rounds, rounds[i].latest
               PROVE  True(rounds[i])
    OBVIOUS
  <2> DEFINE round == rounds[i]
  <2>1. Sound(round) /\ Answered(round) = Answering(round) /\ DataInv
    BY DEF IInv, RoundInv, Answered
  <2>2. ASSUME Over
        PROVE  \E w \in round.connected :
                 toMaster'[w] # toMaster[w] /\ round.asked \ Answering(round) = {w}
    <3>1. ~ UNCHANGED toMaster /\ ~(rounds' = rounds) /\ ~NewRound
      <4>1. ASSUME NewRound PROVE FALSE
        <5> DEFINE before == [k \in DOMAIN rounds |-> [rounds[k] EXCEPT !.latest = FALSE]]
                   new == [asked |-> Members, connected |-> Connected,
                           pending |-> Cardinality(Members), latest |-> TRUE, began |-> clears,
                           feed |-> [w \in Workers |-> <<>>]]
        <5>1. rounds' = Append(before, new) /\ new.latest
          BY <4>1 DEF NewRound
        <5>2. \E S : before \in Seq(S)
          <6>1. DOMAIN rounds = 1 .. Len(rounds) /\ Len(rounds) \in Nat
            BY <2>1 DEF DataInv
          <6> DEFINE S == {before[k] : k \in DOMAIN rounds}
          <6>2. before \in [1 .. Len(rounds) -> S]
            BY <6>1
          <6> HIDE DEF before, S
          <6>3. before \in Seq(S)
            BY <6>1, <6>2
          <6> QED BY <6>3
        <5> HIDE DEF before, new
        <5>3. Len(before) + 1 \in DOMAIN rounds' /\ rounds'[Len(before) + 1] = new
          BY <5>1, <5>2
        <5> QED BY <2>2, <5>1, <5>3
      <4> QED BY <2>2, <4>1
    <3>2. PICK w \in Workers : Receive(w)
      BY <3>1 DEF Next, Start, Stop, SendRequest, Timeout, Clear, Fork, Disconnect, Exit, Listens,
                  Change, Handle, vars, channelVars, workerVars, clearVars
    <3>3. PICK answer : answer = toMaster[w][1]
      OBVIOUS
    <3>4. /\ 1 \in DOMAIN toMaster[w] /\ answer \in Answers
          /\ answer.current /\ (round.pending # 1 =>
               \E k \in DOMAIN rounds' : rounds'[k] = Hears(round, w, answer.content))
      BY <3>1, <3>2, <3>3, ReceiveShape
    <3>5. round \in Rounds /\ answer.content \in SUBSET Nat
      BY <2>1, <3>4 DEF DataInv, Answers
    <3>6. round.pending = 1
      <4>1. Hears(round, w, answer.content).latest
        BY <3>5, HearsFacts
      <4> QED BY <2>2, <3>4, <4>1
    <3>7. Responding(w)
      BY <3>3, <3>4 DEF Responding
    <3>8. w \in round.connected \ Answered(round) /\ round.connected \subseteq round.asked
      BY <2>1, <3>7 DEF Sound
    <3>9. round.asked \ Answered(round) = {w}
      <4>1. IsFiniteSet(round.asked \ Answered(round))
        BY <3>5, ClusterAssumption, FS_Subset DEF Rounds
      <4>2. Cardinality(round.asked \ Answered(round)) = 1
        BY <2>1, <3>6 DEF Sound
      <4>3. PICK v : round.asked \ Answered(round) = {v}
        BY <4>1, <4>2, FS_Singleton
      <4> QED BY <3>8, <4>3
    <3>10. toMaster'[w] # toMaster[w]
      <4>1. toMaster[w] \in Seq(Answers) /\ toMaster[w] # <<>>
        BY <2>1, <3>2 DEF DataInv, Receive
      <4>2. toMaster'[w] = Tail(toMaster[w])
        BY <2>1, <3>2 DEF DataInv, Receive
      <4>3. Len(Tail(toMaster[w])) # Len(toMaster[w])
        BY <4>1
      <4> QED BY <4>2, <4>3
    <3> QED BY <2>1, <3>8, <3>9, <3>10
  <2> QED BY <2>1, <2>2 DEF Sound
<1> QED BY InitIInv, Inductive, <1>1, PTL DEF Spec, RoundsAreTrue
=============================================================================
