--------------------------- MODULE Firehose_proofs --------------------------
(***************************************************************************)
(* What holds of the jobs of a firehose with any number of sinks, of any   *)
(* speed, with buffers of any length, and any number of jobs.              *)
(***************************************************************************)
EXTENDS Firehose, FiniteSetTheorems, TLAPS

(* Confirmations are counted down from one, and only a job that is         *)
(* resolved is cleaned.                                                    *)
ResolvedInv ==
  /\ pendingDone \in [Jobs -> Int]
  /\ status \in [Jobs -> {"pending", "completed", "failed"}]
  /\ confirmed \in [Jobs -> SUBSET SinkSet]
  /\ \A j \in Jobs :
       /\ status[j] = "pending" => pendingDone[j] = 1 /\ confirmed[j] = {}
       /\ status[j] # "pending" => confirmed[j] # {}
       /\ status[j] = "completed" => published[j] # {}
       /\ j \in cleaning => status[j] # "pending"

(* As long as no start() failed the firehose listens to its source once,   *)
(* while it starts and after it.                                           *)
ListeningInv ==
  /\ failedStarts \in Nat /\ wraps \in Int
  /\ failedStarts = 0 =>
       /\ phase # "undoing"
       /\ wraps = IF phase \in {"starting", "started"} THEN 1 ELSE 0

(* A job is reported when it is cleaned, which happens once. *)
ReportInv ==
  /\ doneEvents \in [Jobs -> Int]
  /\ \A j \in Jobs :
       /\ status[j] = "pending" => doneEvents[j] = 0
       /\ failedStarts = 0 =>
            IF j \in cleaning THEN doneEvents[j] = 0 ELSE doneEvents[j] <= 1

IInv == ResolvedInv /\ ListeningInv /\ ReportInv

LEMMA IInvIsConfirmed == IInv => CleanedIsConfirmed
<1> SUFFICES ASSUME IInv, NEW j \in Jobs
    PROVE /\ (status[j] # "pending") <=> (confirmed[j] # {})
          /\ status[j] = "completed" => published[j] # {}
          /\ (doneEvents[j] > 0 \/ j \in cleaning) => status[j] # "pending"
          /\ failedStarts = 0 => doneEvents[j] + (IF j \in cleaning THEN 1 ELSE 0) <= 1
  BY DEF CleanedIsConfirmed
<1>1. doneEvents[j] > 0 => status[j] # "pending"
  BY DEF IInv, ReportInv
<1>2. failedStarts = 0 => doneEvents[j] + (IF j \in cleaning THEN 1 ELSE 0) <= 1
  BY DEF IInv, ReportInv
<1> QED BY <1>1, <1>2 DEF IInv, ResolvedInv

LEMMA InitIInv == Init => IInv
BY DEF Init, IInv, ResolvedInv, ListeningInv, ReportInv

LEMMA ConfirmResolves ==
  ASSUME ResolvedInv, NEW s \in SinkSet, NEW done, NEW ok \in BOOLEAN, Confirm(s, done, ok)
  PROVE  ResolvedInv'
<1> DEFINE resolved == {j \in done : pendingDone[j] <= 1 /\ status[j] = "pending"}
<1>1. /\ pendingDone' = [j \in Jobs |-> pendingDone[j] - (IF j \in done THEN 1 ELSE 0)]
      /\ errors' = IF ok THEN errors ELSE errors \union done
      /\ status' = [j \in Jobs |-> IF j \notin resolved THEN status[j]
                                   ELSE IF j \in errors' THEN "failed" ELSE "completed"]
      /\ confirmed' = [j \in Jobs |-> confirmed[j] \union (IF j \in done THEN {s} ELSE {})]
      /\ published' = [j \in Jobs |-> published[j] \union (IF ok /\ j \in done THEN {s} ELSE {})]
      /\ cleaning' = cleaning \union resolved
  BY DEF Confirm
<1>2. /\ pendingDone' \in [Jobs -> Int]
      /\ status' \in [Jobs -> {"pending", "completed", "failed"}]
      /\ confirmed' \in [Jobs -> SUBSET SinkSet]
  BY <1>1 DEF ResolvedInv
<1>3. ASSUME NEW j \in Jobs
      PROVE  /\ status'[j] = "pending" => pendingDone'[j] = 1 /\ confirmed'[j] = {}
             /\ status'[j] # "pending" => confirmed'[j] # {}
             /\ status'[j] = "completed" => published'[j] # {}
             /\ j \in cleaning' => status'[j] # "pending"
  <2>1. CASE j \in resolved
    BY <1>1, <2>1 DEF ResolvedInv
  <2>2. CASE j \in done /\ j \notin resolved
    <3>1. status[j] # "pending"
      BY <2>2 DEF ResolvedInv
    <3> QED BY <1>1, <2>2, <3>1 DEF ResolvedInv
  <2>3. CASE j \notin done
    BY <1>1, <2>3 DEF ResolvedInv
  <2> QED BY <2>1, <2>2, <2>3
<1> QED BY <1>2, <1>3 DEF ResolvedInv

LEMMA NextIInv == IInv /\ [Next]_vars => IInv'
<1> SUFFICES ASSUME IInv, [Next]_vars PROVE IInv'
  OBVIOUS
<1>1. CASE \/ UNCHANGED vars
           \/ PlugStarted \/ StartFails \/ PlugUndone \/ SinkStopped \/ SourceStopped
           \/ Start \/ Stop
  <2>1. UNCHANGED <<pendingDone, status, confirmed, published, cleaning, doneEvents>>
    BY <1>1 DEF vars, PlugStarted, StartFails, PlugUndone, SinkStopped, SourceStopped, Start, Stop,
                jobVars, cleanVars
  <2>2. ResolvedInv'
    BY <2>1 DEF IInv, ResolvedInv
  <2>3. failedStarts' = failedStarts \/ failedStarts' > 0
    BY <1>1 DEF IInv, ListeningInv, vars, lifeVars, PlugStarted, StartFails, PlugUndone,
                SinkStopped, SourceStopped, Start, Stop
  <2>4. ReportInv'
    BY <2>1, <2>3 DEF IInv, ReportInv
  <2>5. ListeningInv'
    BY <1>1 DEF IInv, ListeningInv, vars, lifeVars, PlugStarted, StartFails, PlugUndone,
                SinkStopped, SourceStopped, Start, Stop
  <2> QED BY <2>2, <2>4, <2>5 DEF IInv
<1>2. CASE \/ Read \/ Data \/ Deliver
           \/ \E n \in 0 .. SourceHighWater : Ingested(n)
           \/ \E fails \in BOOLEAN : Pump(fails)
  <2>1. UNCHANGED <<phase, wraps, failedStarts, pendingDone, status, confirmed, published,
                    cleaning, doneEvents>>
    BY <1>2 DEF Read, Data, Deliver, Ingested, Pump, lifeVars, jobVars, cleanVars
  <2> QED BY <2>1 DEF IInv, ResolvedInv, ListeningInv, ReportInv
<1>3. ASSUME NEW s \in SinkSet, NEW ok \in BOOLEAN, SinkDone(s, ok) PROVE IInv'
  <2>1. Confirm(s, writing[s], ok) /\ UNCHANGED <<phase, wraps, failedStarts, doneEvents>>
    BY <1>3 DEF SinkDone, lifeVars
  <2>2. ResolvedInv'
    BY <2>1, ConfirmResolves DEF IInv
  <2>3. ASSUME NEW j \in Jobs
        PROVE  /\ status'[j] = "pending" => status[j] = "pending"
               /\ j \in cleaning' => j \in cleaning \/ status[j] = "pending"
               /\ j \in cleaning => j \in cleaning'
    BY <2>1 DEF Confirm
  <2>4. ReportInv'
    BY <2>1, <2>3 DEF IInv, ReportInv
  <2> QED BY <2>1, <2>2, <2>4 DEF IInv, ListeningInv
<1>4. ASSUME NEW job \in Jobs, Cleaned(job) PROVE IInv'
  <2>1. /\ job \in cleaning /\ cleaning' = cleaning \ {job}
        /\ doneEvents' = [doneEvents EXCEPT ![job] = @ + wraps]
        /\ UNCHANGED <<phase, wraps, failedStarts, pendingDone, status, confirmed, published>>
    BY <1>4 DEF Cleaned, lifeVars, jobVars
  <2>2. ResolvedInv' /\ ListeningInv'
    BY <2>1 DEF IInv, ResolvedInv, ListeningInv
  <2>3. failedStarts = 0 => wraps <= 1
    BY DEF IInv, ListeningInv
  <2>4. ReportInv'
    BY <2>1, <2>3 DEF IInv, ReportInv, ResolvedInv, ListeningInv
  <2> QED BY <2>2, <2>4 DEF IInv
<1> QED BY <1>1, <1>2, <1>3, <1>4 DEF Next

(* At least once: no order of confirmations, failures, cleaning and stop() *)
(* has a job cleaned or reported that no sink is done with, or reported as *)
(* completed that none published.                                          *)
THEOREM CleanedIsConfirmedAlways == Spec => []CleanedIsConfirmed
<1>1. Spec => []IInv
  BY InitIInv, NextIInv, PTL DEF Spec
<1> QED BY <1>1, IInvIsConfirmed, PTL
-----------------------------------------------------------------------------
(***************************************************************************)
(* The jobs are numbered as the plug gives them, so what waits anywhere    *)
(* between the plug and a sink is a run of consecutive numbers: the        *)
(* readable holds the last ones, the engine those before, the buffer of a  *)
(* sink those before again, and what that sink is writing or is done with  *)
(* is all the rest.                                                        *)
(***************************************************************************)
Follow(q, n) == q \in Seq(Nat) /\ \A i \in 1 .. Len(q) : q[i] = n + i

Pumped == created - Len(sourceBuffer)         \* the last job that left the readable
Delivered == Pumped - Len(engine)             \* the last one that left the engine
Taken(s) == Delivered - Len(buffer[s])        \* the last one that left the buffer of s
DoneBy(s) == {j \in Jobs : s \in confirmed[j]}

(* Nothing flows before every plug has started. *)
IdleInv ==
  phase \in {"new", "starting", "undoing"} =>
    /\ created = 0 /\ sourceBuffer = <<>> /\ engine = <<>>
    /\ pendingRequest = FALSE /\ plugOn = FALSE /\ credits = 0
    /\ buffer = [s \in SinkSet |-> <<>>] /\ writing = [s \in SinkSet |-> {}]
    /\ confirmed = [j \in Jobs |-> {}]

(* While the firehose is started. *)
PipeInv ==
  /\ piped = SinkSet
  /\ Follow(sourceBuffer, Pumped) /\ Follow(engine, Delivered)

SinkInv(s) ==
  /\ Follow(buffer[s], Taken(s))
  /\ Taken(s) \in Nat
  /\ writing[s] \union DoneBy(s) = 1 .. Taken(s) /\ writing[s] \intersect DoneBy(s) = {}
  /\ Idle(s) => buffer[s] = <<>>

OnceInv ==
  /\ phase \in {"new", "starting", "undoing", "started", "stopping", "stopped"}
  /\ created \in Nat /\ created <= MaxJobs
  /\ IdleInv
  /\ buffer = [s \in SinkSet |-> buffer[s]] /\ writing = [s \in SinkSet |-> writing[s]]
  /\ confirmed = [j \in Jobs |-> confirmed[j]]
  /\ phase = "started" => PipeInv /\ \A s \in SinkSet : SinkInv(s)

LEMMA FollowTail ==
  ASSUME NEW q, NEW n \in Int, Follow(q, n), q # <<>>
  PROVE  /\ Head(q) = n + 1
         /\ Follow(Tail(q), n + 1) /\ Len(Tail(q)) = Len(q) - 1
<1>1. Len(q) \in Nat \ {0} /\ Tail(q) \in Seq(Nat) /\ Len(Tail(q)) = Len(q) - 1
  BY DEF Follow
<1>2. \A i \in 1 .. Len(Tail(q)) : Tail(q)[i] = q[i + 1]
  BY <1>1 DEF Follow
<1> QED BY <1>1, <1>2 DEF Follow

LEMMA FollowAppend ==
  ASSUME NEW q, NEW n \in Int, Follow(q, n), NEW e \in Nat, e = n + Len(q) + 1
  PROVE  Follow(Append(q, e), n) /\ Len(Append(q, e)) = Len(q) + 1
BY DEF Follow

LEMMA FollowJoin ==
  ASSUME NEW q, NEW r, NEW n \in Int, Follow(q, n), Follow(r, n + Len(q))
  PROVE  Follow(q \o r, n) /\ Len(q \o r) = Len(q) + Len(r)
<1>1. /\ Len(q) \in Nat /\ Len(r) \in Nat
      /\ q \o r \in Seq(Nat) /\ Len(q \o r) = Len(q) + Len(r)
  BY DEF Follow
<1>2. \A i \in 1 .. Len(q) : (q \o r)[i] = q[i]
  BY <1>1 DEF Follow
<1>3. \A i \in Len(q) + 1 .. Len(q) + Len(r) : (q \o r)[i] = r[i - Len(q)]
  BY <1>1 DEF Follow
<1>4. ASSUME NEW i \in 1 .. Len(q) + Len(r) PROVE (q \o r)[i] = n + i
  <2>1. CASE i <= Len(q)
    BY <1>1, <1>2, <2>1 DEF Follow
  <2>2. CASE i > Len(q)
    <3>1. i - Len(q) \in 1 .. Len(r)
      BY <1>1, <2>2
    <3>2. r[i - Len(q)] = n + Len(q) + (i - Len(q))
      BY <1>1, <3>1 DEF Follow
    <3> QED BY <1>1, <1>3, <2>2, <3>2
  <2> QED BY <1>1, <2>1, <2>2
<1> QED BY <1>1, <1>4 DEF Follow

LEMMA FollowMore ==
  ASSUME NEW q, NEW n \in Int, Follow(q, n), NEW k \in Nat, NEW e \in Nat, e = n + Len(q)
  PROVE  /\ Follow(q \o [i \in 1 .. k |-> e + i], n)
         /\ Len(q \o [i \in 1 .. k |-> e + i]) = Len(q) + k
<1> DEFINE more == [i \in 1 .. k |-> e + i]
<1>1. more \in Seq(Nat) /\ Len(more) = k /\ \A i \in 1 .. k : more[i] = e + i
  OBVIOUS
<1> HIDE DEF more
<1>2. Follow(more, n + Len(q))
  BY <1>1 DEF Follow
<1>3. Follow(q \o more, n) /\ Len(q \o more) = Len(q) + k
  BY <1>1, <1>2, FollowJoin
<1> QED BY <1>3 DEF more

(* The first k of a run, and the rest of it. *)
LEMMA FollowRest ==
  ASSUME NEW q, NEW n \in Int, Follow(q, n), NEW k \in 0 .. Len(q)
  PROVE  /\ Follow(SubSeq(q, k + 1, Len(q)), n + k)
         /\ Len(SubSeq(q, k + 1, Len(q))) = Len(q) - k
         /\ ToSet(SubSeq(q, 1, k)) = n + 1 .. n + k
<1>1. Len(q) \in Nat
  BY DEF Follow
<1>2. /\ SubSeq(q, k + 1, Len(q)) \in Seq(Nat) /\ Len(SubSeq(q, k + 1, Len(q))) = Len(q) - k
      /\ \A i \in 1 .. Len(q) - k : SubSeq(q, k + 1, Len(q))[i] = q[k + i]
  BY <1>1 DEF Follow
<1>3. Follow(SubSeq(q, k + 1, Len(q)), n + k)
  BY <1>1, <1>2 DEF Follow
<1>4. Len(SubSeq(q, 1, k)) = k /\ \A i \in 1 .. k : SubSeq(q, 1, k)[i] = q[i]
  BY <1>1 DEF Follow
<1>5. DOMAIN SubSeq(q, 1, k) = 1 .. k
  BY <1>1 DEF Follow
<1>6. ToSet(SubSeq(q, 1, k)) = {n + i : i \in 1 .. k}
  <2>1. \A i \in 1 .. k : SubSeq(q, 1, k)[i] = n + i
    BY <1>1, <1>4 DEF Follow
  <2> QED BY <1>5, <2>1 DEF ToSet
<1>7. {n + i : i \in 1 .. k} = n + 1 .. n + k
  <2>1. ASSUME NEW j \in n + 1 .. n + k PROVE j - n \in 1 .. k /\ j = n + (j - n)
    OBVIOUS
  <2> QED BY <2>1
<1> QED BY <1>2, <1>3, <1>6, <1>7

LEMMA FollowSet ==
  ASSUME NEW q, NEW n \in Int, Follow(q, n)
  PROVE  ToSet(q) = n + 1 .. n + Len(q)
<1>1. Len(q) \in Nat /\ DOMAIN q = 1 .. Len(q)
  BY DEF Follow
<1>2. ToSet(q) = {n + i : i \in 1 .. Len(q)}
  BY <1>1 DEF ToSet, Follow
<1>3. ASSUME NEW j \in n + 1 .. n + Len(q) PROVE j - n \in 1 .. Len(q) /\ j = n + (j - n)
  BY <1>1
<1> QED BY <1>1, <1>2, <1>3

LEMMA FollowAscends ==
  ASSUME NEW q, NEW n \in Int, Follow(q, n)
  PROVE  Ascends(q)
<1>1. DOMAIN q = 1 .. Len(q) /\ Len(q) \in Nat
  BY DEF Follow
<1>2. ASSUME NEW i \in 1 .. Len(q), NEW k \in 1 .. Len(q), i < k PROVE q[i] < q[k]
  <2>1. q[i] = n + i /\ q[k] = n + k
    BY DEF Follow
  <2> QED BY <1>1, <1>2, <2>1
<1> QED BY <1>1, <1>2 DEF Ascends

(* Three runs, one after the other. *)
InLine(a, b, c, n, m, k, z) ==
  /\ {n, m, k, z} \subseteq Nat
  /\ Follow(a, n) /\ Follow(b, m) /\ Follow(c, k)
  /\ m = n + Len(a) /\ k = m + Len(b) /\ z = k + Len(c)

LEMMA FollowInLine ==
  ASSUME NEW a, NEW b, NEW c, NEW n, NEW m, NEW k, NEW z, InLine(a, b, c, n, m, k, z)
  PROVE  /\ Ascends(a \o b \o c)
         /\ ToSet(a) = n + 1 .. m /\ ToSet(b) = m + 1 .. k /\ ToSet(c) = k + 1 .. z
         /\ n <= m /\ m <= k /\ k <= z
<1>0. /\ n \in Nat /\ m \in Nat /\ k \in Nat /\ z \in Nat
      /\ Follow(a, n) /\ Follow(b, m) /\ Follow(c, k)
      /\ m = n + Len(a) /\ k = m + Len(b) /\ z = k + Len(c)
  BY DEF InLine
<1>1. Follow(a \o b, n) /\ Len(a \o b) = Len(a) + Len(b)
  BY <1>0, FollowJoin
<1>2. k = n + Len(a \o b)
  BY <1>0, <1>1 DEF Follow
<1>3. Follow((a \o b) \o c, n)
  <2>1. Follow(c, n + Len(a \o b))
    BY <1>0, <1>2
  <2> DEFINE ab == a \o b
  <2>2. Follow(ab, n) /\ Follow(c, n + Len(ab))
    BY <1>1, <2>1
  <2> HIDE DEF ab
  <2>3. Follow(ab \o c, n)
    BY <1>0, <2>2, FollowJoin
  <2> QED BY <2>3 DEF ab
<1>4. Ascends(a \o b \o c)
  BY <1>0, <1>3, FollowAscends
<1>5. ToSet(a) = n + 1 .. m
  BY <1>0, FollowSet
<1>6. ToSet(b) = m + 1 .. k
  BY <1>0, FollowSet
<1>7. ToSet(c) = k + 1 .. z
  BY <1>0, FollowSet
<1>8. n <= m /\ m <= k /\ k <= z
  BY <1>0 DEF Follow
<1> QED BY <1>4, <1>5, <1>6, <1>7, <1>8

LEMMA OnceIsEverySink == OnceInv => EverySinkOnce
<1> SUFFICES ASSUME OnceInv, phase = "started", NEW s \in SinkSet
    PROVE /\ Ascends(buffer[s] \o engine \o sourceBuffer)
          /\ \A j \in 1 .. created :
               IF j \in ToSet(engine) \union ToSet(sourceBuffer)
               THEN At(s, j) = {}
               ELSE Cardinality(At(s, j)) = 1
  BY DEF EverySinkOnce
<1>1. PipeInv /\ SinkInv(s) /\ created \in Nat /\ created <= MaxJobs
  BY DEF OnceInv
<1>2. PICK t \in Nat, d \in Nat, p \in Nat :
        /\ t = Taken(s) /\ d = t + Len(buffer[s]) /\ p = d + Len(engine)
        /\ created = p + Len(sourceBuffer)
        /\ Follow(buffer[s], t) /\ Follow(engine, d) /\ Follow(sourceBuffer, p)
  <2>1. /\ Len(sourceBuffer) \in Nat /\ Len(engine) \in Nat /\ Len(buffer[s]) \in Nat
        /\ Follow(buffer[s], Taken(s)) /\ Taken(s) \in Nat
        /\ Follow(engine, Delivered) /\ Follow(sourceBuffer, Pumped)
    BY <1>1 DEF PipeInv, SinkInv, Follow
  <2>2. /\ Delivered = Taken(s) + Len(buffer[s]) /\ Delivered \in Nat
        /\ Pumped = Delivered + Len(engine) /\ Pumped \in Nat
        /\ created = Pumped + Len(sourceBuffer)
    BY <1>1, <2>1 DEF Taken, Delivered, Pumped
  <2> QED BY <2>1, <2>2
<1>3. /\ Ascends(buffer[s] \o engine \o sourceBuffer)
      /\ ToSet(buffer[s]) = t + 1 .. d /\ ToSet(engine) = d + 1 .. p
      /\ ToSet(sourceBuffer) = p + 1 .. created
      /\ t <= d /\ d <= p /\ p <= created
  <2>1. created \in Nat
    BY <1>1
  <2>2. /\ Follow(buffer[s], t) /\ Follow(engine, d) /\ Follow(sourceBuffer, p)
        /\ d = t + Len(buffer[s]) /\ p = d + Len(engine) /\ created = p + Len(sourceBuffer)
    BY <1>2
  <2>3. InLine(buffer[s], engine, sourceBuffer, t, d, p, created)
    BY <2>1, <2>2 DEF InLine
  <2> QED BY <2>3, FollowInLine
<1>4. ASSUME NEW j \in 1 .. created
      PROVE  IF j \in ToSet(engine) \union ToSet(sourceBuffer)
             THEN At(s, j) = {}
             ELSE Cardinality(At(s, j)) = 1
  <2>1. /\ j \in Jobs
        /\ writing[s] \union DoneBy(s) = 1 .. t /\ writing[s] \intersect DoneBy(s) = {}
    <3>1. MaxJobs \in Nat
      BY FirehoseAssumption
    <3>2. j \in Jobs
      BY <1>1, <3>1 DEF Jobs
    <3> QED BY <1>1, <1>2, <3>2 DEF SinkInv
  <2>2. j \in DoneBy(s) <=> s \in confirmed[j]
    BY <2>1 DEF DoneBy
  <2>3. j \in Nat /\ j >= 1 /\ j <= created
    BY <1>1
  <2>4. CASE j > d
    <3>1. /\ j \in ToSet(engine) \union ToSet(sourceBuffer)
          /\ j \notin ToSet(buffer[s]) /\ j \notin 1 .. t
      BY <1>1, <1>3, <2>3, <2>4
    <3> QED BY <2>1, <2>2, <3>1 DEF At
  <2>5. CASE j <= d /\ j > t
    <3>1. /\ j \notin ToSet(engine) \union ToSet(sourceBuffer)
          /\ j \in ToSet(buffer[s]) /\ j \notin 1 .. t
      BY <1>1, <1>3, <2>3, <2>5
    <3>2. At(s, j) = {"buffer"}
      BY <2>1, <2>2, <3>1 DEF At
    <3> QED BY <3>1, <3>2, FS_Singleton
  <2>6. CASE j <= t
    <3>1. /\ j \notin ToSet(engine) \union ToSet(sourceBuffer)
          /\ j \notin ToSet(buffer[s]) /\ j \in 1 .. t
      BY <1>1, <1>3, <2>3, <2>6
    <3>2. At(s, j) = {"writing"} \/ At(s, j) = {"confirmed"}
      BY <2>1, <2>2, <3>1 DEF At
    <3> QED BY <3>1, <3>2, FS_Singleton
  <2> QED BY <2>3, <2>4, <2>5, <2>6
<1> QED BY <1>3, <1>4

LEMMA InitOnceInv == Init => OnceInv
BY FirehoseAssumption DEF Init, OnceInv, IdleInv

(* A step that leaves the sinks alone, and with it the last job that left  *)
(* the engine.                                                             *)
LEMMA SinksKept ==
  ASSUME NEW s \in SinkSet, SinkInv(s), UNCHANGED <<buffer, writing, confirmed>>,
         Delivered' = Delivered
  PROVE  SinkInv(s)'
<1>1. Taken(s)' = Taken(s) /\ DoneBy(s)' = DoneBy(s)
  BY DEF Taken, DoneBy
<1> QED BY <1>1 DEF SinkInv, Idle, Follow

LEMMA PushOnce ==
  ASSUME OnceInv, phase = "started", NEW n \in Nat, Push(n),
         UNCHANGED <<phase, engine, piped, buffer, writing, confirmed>>
  PROVE  OnceInv'
<1>1. PipeInv /\ (\A s \in SinkSet : SinkInv(s)) /\ created \in Nat
  BY DEF OnceInv
<1>2. created' = created + n /\ created' \in Nat /\ created' <= MaxJobs
  BY <1>1, FirehoseAssumption DEF Push
<1>3. /\ Len(sourceBuffer) \in Nat /\ Len(engine) \in Nat
      /\ created = Pumped + Len(sourceBuffer) /\ Pumped \in Int
      /\ Delivered = Pumped - Len(engine)
  BY <1>1 DEF PipeInv, Follow, Pumped, Delivered
<1>4. sourceBuffer' = sourceBuffer \o [i \in 1 .. n |-> created + i]
  BY DEF Push
<1>5. Follow(sourceBuffer', Pumped) /\ Len(sourceBuffer') = Len(sourceBuffer) + n
  BY <1>1, <1>3, <1>4, FollowMore DEF PipeInv
<1>6. Pumped' = Pumped
  BY <1>2, <1>3, <1>5 DEF Pumped
<1>7. Delivered' = Delivered
  BY <1>6 DEF Delivered
<1>8. PipeInv'
  BY <1>1, <1>5, <1>6, <1>7 DEF PipeInv, Follow
<1>9. \A s \in SinkSet : SinkInv(s)'
  BY <1>1, <1>7, SinksKept
<1> QED BY <1>2, <1>8, <1>9 DEF OnceInv, IdleInv

LEMMA PumpOnce ==
  ASSUME OnceInv, phase = "started", NEW fails \in BOOLEAN, Pump(fails)
  PROVE  OnceInv'
<1>1. PipeInv /\ (\A s \in SinkSet : SinkInv(s)) /\ created \in Nat
  BY DEF OnceInv
<1>2. /\ sourceBuffer # <<>> /\ sourceBuffer' = Tail(sourceBuffer)
      /\ engine' = Append(engine, Head(sourceBuffer))
      /\ UNCHANGED <<phase, created, piped, buffer, writing, confirmed>>
  BY DEF Pump, lifeVars, sinkVars
<1>3. /\ Len(sourceBuffer) \in Nat /\ Len(engine) \in Nat
      /\ created = Pumped + Len(sourceBuffer) /\ Pumped \in Int
      /\ Pumped = Delivered + Len(engine) /\ Delivered \in Int
  BY <1>1 DEF PipeInv, Follow, Pumped, Delivered
<1>4. /\ Head(sourceBuffer) = Pumped + 1
      /\ Follow(sourceBuffer', Pumped + 1) /\ Len(sourceBuffer') = Len(sourceBuffer) - 1
  BY <1>1, <1>2, <1>3, FollowTail DEF PipeInv
<1>5. Head(sourceBuffer) \in Nat
  BY <1>1, <1>2 DEF PipeInv, Follow
<1>6. Follow(engine', Delivered) /\ Len(engine') = Len(engine) + 1
  BY <1>1, <1>2, <1>3, <1>4, <1>5, FollowAppend DEF PipeInv
<1>7. Pumped' = Pumped + 1
  BY <1>1, <1>2, <1>3, <1>4 DEF Pumped
<1>8. Delivered' = Delivered
  BY <1>3, <1>6, <1>7 DEF Delivered
<1>9. PipeInv'
  BY <1>1, <1>2, <1>4, <1>6, <1>7, <1>8 DEF PipeInv
<1>10. \A s \in SinkSet : SinkInv(s)'
  BY <1>1, <1>2, <1>8, SinksKept
<1> QED BY <1>2, <1>9, <1>10 DEF OnceInv, IdleInv

(* Deliver: an idle sink, whose buffer is empty, takes the job at once,    *)
(* any other has it behind those that it did not take.                     *)
LEMMA DeliverOnce ==
  ASSUME OnceInv, phase = "started", Deliver
  PROVE  OnceInv'
<1>1. PipeInv /\ (\A s \in SinkSet : SinkInv(s)) /\ created \in Nat
  BY DEF OnceInv
<1>2. /\ engine # <<>> /\ engine' = Tail(engine)
      /\ writing' = [s \in SinkSet |-> IF s \in SinkSet /\ Idle(s) THEN {Head(engine)}
                                       ELSE writing[s]]
      /\ buffer' = [s \in SinkSet |-> IF s \in SinkSet /\ ~Idle(s)
                                      THEN Append(buffer[s], Head(engine)) ELSE buffer[s]]
      /\ UNCHANGED <<phase, created, sourceBuffer, piped, confirmed>>
  BY <1>1 DEF Deliver, PipeInv, lifeVars, sourceVars, jobVars
<1>3. /\ Len(engine) \in Nat /\ Pumped' = Pumped /\ Pumped \in Int
      /\ Pumped = Delivered + Len(engine) /\ Delivered \in Int
  BY <1>1, <1>2 DEF PipeInv, Follow, Pumped, Delivered
<1>4. /\ Head(engine) = Delivered + 1
      /\ Follow(engine', Delivered + 1) /\ Len(engine') = Len(engine) - 1
  BY <1>1, <1>2, <1>3, FollowTail DEF PipeInv
<1>5. Head(engine) \in Nat
  BY <1>1, <1>2 DEF PipeInv, Follow
<1>6. Delivered' = Delivered + 1
  BY <1>3, <1>4 DEF Delivered
<1>7. PipeInv'
  BY <1>1, <1>2, <1>3, <1>4, <1>6 DEF PipeInv
<1>8. ASSUME NEW s \in SinkSet PROVE SinkInv(s)'
  <2>1. /\ Follow(buffer[s], Taken(s)) /\ Taken(s) \in Nat /\ Len(buffer[s]) \in Nat
        /\ writing[s] \union DoneBy(s) = 1 .. Taken(s) /\ writing[s] \intersect DoneBy(s) = {}
        /\ Idle(s) => buffer[s] = <<>>
        /\ Delivered = Taken(s) + Len(buffer[s])
    <3>1. Len(buffer[s]) \in Nat
      BY <1>1 DEF SinkInv, Follow
    <3>2. Delivered = Taken(s) + Len(buffer[s])
      BY <1>3, <3>1 DEF Taken
    <3> QED BY <1>1, <3>1, <3>2 DEF SinkInv
  <2>2. DoneBy(s)' = DoneBy(s)
    BY <1>2 DEF DoneBy
  <2>3. CASE Idle(s)
    <3>1. buffer'[s] = <<>> /\ writing'[s] = {Delivered + 1} /\ Taken(s) = Delivered
      BY <1>2, <1>4, <2>1, <2>3
    <3>2. Taken(s)' = Taken(s) + 1
      <4>1. Taken(s)' = Delivered' - 0
        BY <3>1 DEF Taken
      <4> QED BY <1>3, <1>6, <3>1, <4>1
    <3>3. writing'[s] \union DoneBy(s) = 1 .. Taken(s) + 1 /\ writing'[s] \intersect DoneBy(s) = {}
      <4>1. DoneBy(s) = 1 .. Taken(s)
        BY <2>1, <2>3 DEF Idle
      <4> QED BY <2>1, <3>1, <4>1
    <3>4. Follow(buffer'[s], Taken(s) + 1)
      BY <3>1 DEF Follow
    <3> QED BY <2>1, <2>2, <3>1, <3>2, <3>3, <3>4 DEF SinkInv
  <2>4. CASE ~Idle(s)
    <3>1. buffer'[s] = Append(buffer[s], Head(engine)) /\ writing'[s] = writing[s]
      BY <1>2, <2>4
    <3>2. Follow(buffer'[s], Taken(s)) /\ Len(buffer'[s]) = Len(buffer[s]) + 1
      BY <1>4, <1>5, <2>1, <3>1, FollowAppend
    <3>3. Taken(s)' = Taken(s)
      BY <1>3, <1>6, <2>1, <3>2 DEF Taken
    <3>4. ~Idle(s)'
      BY <2>4, <3>1 DEF Idle
    <3> QED BY <2>1, <2>2, <3>1, <3>2, <3>3, <3>4 DEF SinkInv
  <2> QED BY <2>3, <2>4
<1> QED BY <1>1, <1>2, <1>7, <1>8 DEF OnceInv, IdleInv

(* SinkDone: what the sink was writing is done, and it takes the next ones *)
(* of its buffer, at least one unless that is empty.                       *)
LEMMA SinkDoneOnce ==
  ASSUME OnceInv, phase = "started", NEW s \in SinkSet, NEW ok \in BOOLEAN, SinkDone(s, ok)
  PROVE  OnceInv'
<1>1. PipeInv /\ (\A r \in SinkSet : SinkInv(r)) /\ created \in Nat
  BY DEF OnceInv
<1>2. /\ Len(sourceBuffer) \in Nat /\ Len(engine) \in Nat /\ Delivered \in Int
      /\ created = Delivered + Len(engine) + Len(sourceBuffer)
  BY <1>1 DEF PipeInv, Follow, Pumped, Delivered
<1>3. /\ Follow(buffer[s], Taken(s)) /\ Taken(s) \in Nat
      /\ writing[s] \union DoneBy(s) = 1 .. Taken(s) /\ writing[s] \intersect DoneBy(s) = {}
  BY <1>1 DEF SinkInv
<1>4. Len(buffer[s]) \in Nat /\ Delivered = Taken(s) + Len(buffer[s])
  <2>1. Len(buffer[s]) \in Nat
    BY <1>3 DEF Follow
  <2> QED BY <1>2, <2>1 DEF Taken
<1>5. writing[s] \subseteq Jobs
  <2>1. Taken(s) <= MaxJobs /\ MaxJobs \in Nat
    <3>1. created <= MaxJobs /\ MaxJobs \in Nat
      BY FirehoseAssumption DEF OnceInv
    <3>2. Taken(s) <= Delivered
      BY <1>2, <1>3, <1>4
    <3>3. Delivered <= created
      BY <1>2
    <3> QED BY <1>1, <1>2, <1>3, <3>1, <3>2, <3>3
  <2>2. 1 .. Taken(s) \subseteq 1 .. MaxJobs
    BY <1>3, <2>1
  <2> QED BY <1>3, <2>2 DEF Jobs
<1> DEFINE n == IF s \in Jets /\ Len(buffer[s]) > 1 THEN Len(buffer[s])
                ELSE IF buffer[s] # <<>> THEN 1 ELSE 0
<1>6. /\ writing' = [writing EXCEPT ![s] = ToSet(SubSeq(buffer[s], 1, n))]
      /\ buffer' = [buffer EXCEPT ![s] = SubSeq(buffer[s], n + 1, Len(buffer[s]))]
      /\ confirmed' = [j \in Jobs |-> confirmed[j] \union
                                        (IF j \in writing[s] THEN {s} ELSE {})]
      /\ UNCHANGED <<phase, created, sourceBuffer, engine, piped>>
  BY DEF SinkDone, Confirm, lifeVars, sourceVars
<1>7. n \in 0 .. Len(buffer[s]) /\ (n = 0 => buffer[s] = <<>>)
  <2>1. buffer[s] # <<>> => Len(buffer[s]) >= 1
    BY <1>3 DEF Follow
  <2> QED BY <1>4, <2>1
<1> HIDE DEF n
<1>8. /\ Follow(SubSeq(buffer[s], n + 1, Len(buffer[s])), Taken(s) + n)
      /\ Len(SubSeq(buffer[s], n + 1, Len(buffer[s]))) = Len(buffer[s]) - n
      /\ ToSet(SubSeq(buffer[s], 1, n)) = Taken(s) + 1 .. Taken(s) + n
  BY <1>3, <1>7, FollowRest
<1>9. Pumped' = Pumped /\ Delivered' = Delivered
  BY <1>6 DEF Pumped, Delivered
<1>10. PipeInv'
  BY <1>1, <1>6, <1>9 DEF PipeInv
<1>11. /\ buffer = [r \in SinkSet |-> buffer[r]] /\ writing = [r \in SinkSet |-> writing[r]]
       /\ confirmed = [j \in Jobs |-> confirmed[j]]
  BY DEF OnceInv
<1>12. /\ buffer'[s] = SubSeq(buffer[s], n + 1, Len(buffer[s]))
       /\ writing'[s] = Taken(s) + 1 .. Taken(s) + n
       /\ \A r \in SinkSet \ {s} : buffer'[r] = buffer[r] /\ writing'[r] = writing[r]
       /\ buffer' = [r \in SinkSet |-> buffer'[r]] /\ writing' = [r \in SinkSet |-> writing'[r]]
       /\ confirmed' = [j \in Jobs |-> confirmed'[j]]
  BY <1>6, <1>8, <1>11
<1>13. ASSUME NEW r \in SinkSet PROVE SinkInv(r)'
  <2>1. CASE r # s
    <3>1. DoneBy(r)' = DoneBy(r)
      BY <1>6, <2>1 DEF DoneBy
    <3>2. buffer'[r] = buffer[r] /\ writing'[r] = writing[r]
      BY <1>12, <2>1
    <3>3. Taken(r)' = Taken(r)
      BY <1>9, <3>2 DEF Taken
    <3> QED BY <1>1, <3>1, <3>2, <3>3 DEF SinkInv, Idle
  <2>2. CASE r = s
    <3>1. DoneBy(s)' = writing[s] \union DoneBy(s)
      <4>1. DoneBy(s)' = {j \in Jobs : s \in confirmed'[j]}
        BY DEF DoneBy
      <4>2. \A j \in Jobs : s \in confirmed'[j] <=> s \in confirmed[j] \/ j \in writing[s]
        BY <1>6
      <4> QED BY <1>5, <4>1, <4>2 DEF DoneBy
    <3>2. Taken(s)' = Taken(s) + n
      <4>1. Len(buffer'[s]) = Len(buffer[s]) - n
        BY <1>8, <1>12
      <4>2. Taken(s)' = Delivered - Len(buffer'[s])
        BY <1>9 DEF Taken
      <4> QED BY <1>2, <1>3, <1>4, <1>7, <4>1, <4>2
    <3>3. Taken(s) + n \in Nat
      BY <1>3, <1>4, <1>7
    <3>4. /\ writing'[s] \union (writing[s] \union DoneBy(s)) = 1 .. Taken(s) + n
          /\ writing'[s] \intersect (writing[s] \union DoneBy(s)) = {}
      BY <1>3, <1>4, <1>7, <1>12
    <3>5. writing'[s] = {} => buffer'[s] = <<>>
      <4>1. CASE n = 0
        BY <1>4, <1>7, <1>12, <4>1
      <4>2. CASE n # 0
        <5>1. Taken(s) + 1 \in writing'[s]
          BY <1>3, <1>4, <1>7, <1>12, <4>2
        <5> QED BY <5>1
      <4> QED BY <4>1, <4>2
    <3>6. Follow(buffer'[s], Taken(s) + n)
      BY <1>8, <1>12
    <3> QED BY <2>2, <3>1, <3>2, <3>3, <3>4, <3>5, <3>6 DEF SinkInv, Idle
  <2> QED BY <2>1, <2>2
<1> QED BY <1>1, <1>6, <1>10, <1>12, <1>13 DEF OnceInv, IdleInv

LEMMA NextOnceInv == OnceInv /\ [Next]_vars => OnceInv'
<1> SUFFICES ASSUME OnceInv, [Next]_vars PROVE OnceInv'
  OBVIOUS
<1> DEFINE before == phase \in {"new", "starting", "undoing"}
           data == <<created, sourceBuffer, engine, pendingRequest, plugOn, credits, buffer,
                     writing, confirmed>>
           after == phase' \in {"stopping", "stopped"}
<1>1. CASE UNCHANGED <<phase, piped>> /\ UNCHANGED data
  <2>1. Pumped' = Pumped /\ Delivered' = Delivered
    BY <1>1 DEF Pumped, Delivered
  <2>2. PipeInv => PipeInv'
    BY <1>1, <2>1 DEF PipeInv
  <2>3. \A s \in SinkSet : SinkInv(s) => SinkInv(s)'
    BY <1>1, <2>1, SinksKept
  <2> QED BY <1>1, <2>2, <2>3 DEF OnceInv, IdleInv
<1>2. CASE Start \/ StartFails \/ PlugUndone
  <2>1. before /\ phase' \in {"new", "starting", "undoing"} /\ UNCHANGED data
    BY <1>2 DEF Start, StartFails, PlugUndone, sourceVars, sinkVars, jobVars
  <2> QED BY <2>1 DEF OnceInv, IdleInv
<1>3. CASE PlugStarted
  <2>1. before /\ UNCHANGED data
    BY <1>3 DEF PlugStarted, sourceVars, jobVars
  <2>2. phase' = "starting" \/ (phase' = "started" /\ piped' = SinkSet)
    BY <1>3 DEF PlugStarted
  <2>3. /\ created' = 0 /\ sourceBuffer' = <<>> /\ engine' = <<>>
        /\ buffer' = [s \in SinkSet |-> <<>>] /\ writing' = [s \in SinkSet |-> {}]
        /\ confirmed' = [j \in Jobs |-> {}]
    BY <2>1 DEF OnceInv, IdleInv
  <2>4. Len(<<>>) = 0 /\ \A n : Follow(<<>>, n)
    BY DEF Follow
  <2>5. Pumped' = 0 /\ Delivered' = 0
    <3>1. Pumped' = 0 - 0
      BY <2>3, <2>4 DEF Pumped
    <3>2. Delivered' = Pumped' - 0
      BY <2>3, <2>4 DEF Delivered
    <3> QED BY <3>1, <3>2
  <2>6. ASSUME NEW s \in SinkSet PROVE SinkInv(s)'
    <3>1. buffer'[s] = <<>> /\ writing'[s] = {} /\ DoneBy(s)' = {}
      BY <2>3 DEF DoneBy
    <3>2. Taken(s)' = 0
      <4>1. Taken(s)' = Delivered' - 0
        BY <2>4, <3>1 DEF Taken
      <4> QED BY <2>5, <4>1
    <3> QED BY <2>4, <3>1, <3>2 DEF SinkInv
  <2>7. piped' = SinkSet => PipeInv'
    BY <2>3, <2>4 DEF PipeInv
  <2> QED BY <2>1, <2>2, <2>6, <2>7 DEF OnceInv, IdleInv
<1>4. CASE Stop \/ SinkStopped \/ SourceStopped
  <2>1. after /\ UNCHANGED <<created, writing, confirmed>>
    BY <1>4 DEF Stop, SinkStopped, SourceStopped, sourceVars, sinkVars, jobVars
  <2>2. buffer' = [s \in SinkSet |-> buffer'[s]]
    BY <1>4 DEF OnceInv, Stop, SinkStopped, SourceStopped, sinkVars
  <2> QED BY <2>1, <2>2 DEF OnceInv, IdleInv
<1>5. CASE Read
  <2>1. Flows /\ UNCHANGED <<phase, piped, created, sourceBuffer, engine, buffer, writing,
                             confirmed>>
    BY <1>5 DEF Read, lifeVars, sinkVars, jobVars
  <2>2. Pumped' = Pumped /\ Delivered' = Delivered
    BY <2>1 DEF Pumped, Delivered
  <2>3. PipeInv => PipeInv'
    BY <2>1, <2>2 DEF PipeInv
  <2>4. \A s \in SinkSet : SinkInv(s) => SinkInv(s)'
    BY <2>1, <2>2, SinksKept
  <2> QED BY <2>1, <2>3, <2>4 DEF OnceInv, IdleInv, Flows
(* What needs a job, a request, credits or a plug that is on happens only  *)
(* when the firehose has started; and once stop() was called, only that    *)
(* nobody starts it again matters.                                         *)
<1>6. ASSUME ~before, phase' = phase, phase = "started" => OnceInv',
             created' \in Nat, created' <= MaxJobs,
             buffer' = [s \in SinkSet |-> buffer'[s]],
             writing' = [s \in SinkSet |-> writing'[s]],
             confirmed' = [j \in Jobs |-> confirmed'[j]]
      PROVE  OnceInv'
  BY <1>6 DEF OnceInv, IdleInv
<1>7. ASSUME NEW n \in Nat, Push(n), ~before,
             UNCHANGED <<phase, engine, piped, buffer, writing, confirmed>>
      PROVE  OnceInv'
  <2>1. created' \in Nat /\ created' <= MaxJobs
    BY <1>7, FirehoseAssumption DEF Push, OnceInv
  <2>2. phase = "started" => OnceInv'
    BY <1>7, PushOnce
  <2> QED BY <1>6, <1>7, <2>1, <2>2 DEF OnceInv
<1>8. CASE Data
  <2>1. Push(1) /\ UNCHANGED <<phase, engine, piped, buffer, writing, confirmed>>
    BY <1>8 DEF Data, lifeVars, sinkVars, jobVars
  <2>2. ~before
    BY <1>8 DEF Data, OnceInv, IdleInv
  <2> QED BY <1>7, <2>1, <2>2
<1>9. ASSUME NEW n \in 0 .. SourceHighWater, Ingested(n) PROVE OnceInv'
  <2>1. /\ Push(n) /\ UNCHANGED <<phase, engine, piped, buffer, writing, confirmed>>
        /\ n \in Nat
    BY <1>9, FirehoseAssumption DEF Ingested, lifeVars, sinkVars, jobVars
  <2>2. ~before
    BY <1>9 DEF Ingested, OnceInv, IdleInv
  <2> QED BY <1>7, <2>1, <2>2
<1>10. ASSUME NEW fails \in BOOLEAN, Pump(fails) PROVE OnceInv'
  <2>1. ~before /\ UNCHANGED <<phase, created, buffer, writing, confirmed>>
    BY <1>10 DEF Pump, Flows, lifeVars, sinkVars
  <2>2. phase = "started" => OnceInv'
    BY <1>10, PumpOnce
  <2> QED BY <1>6, <2>1, <2>2 DEF OnceInv
<1>11. CASE Deliver
  <2>1. ~before
    BY <1>11 DEF Deliver, OnceInv, IdleInv
  <2>2. /\ UNCHANGED <<phase, created, confirmed>>
        /\ buffer' = [s \in SinkSet |-> buffer'[s]] /\ writing' = [s \in SinkSet |-> writing'[s]]
    BY <1>11 DEF Deliver, lifeVars, sourceVars, jobVars
  <2>3. phase = "started" => OnceInv'
    BY <1>11, DeliverOnce
  <2> QED BY <1>6, <2>1, <2>2, <2>3 DEF OnceInv
<1>12. ASSUME NEW s \in SinkSet, NEW ok \in BOOLEAN, SinkDone(s, ok) PROVE OnceInv'
  <2>1. ~before
    <3>1. before => writing[s] = {}
      BY DEF OnceInv, IdleInv
    <3> QED BY <1>12, <3>1 DEF SinkDone
  <2>2. UNCHANGED <<phase, created>>
    BY <1>12 DEF SinkDone, lifeVars, sourceVars
  <2>3. /\ buffer' = [r \in SinkSet |-> buffer'[r]] /\ writing' = [r \in SinkSet |-> writing'[r]]
        /\ confirmed' = [j \in Jobs |-> confirmed'[j]]
    BY <1>12 DEF SinkDone, Confirm, OnceInv
  <2>4. phase = "started" => OnceInv'
    BY <1>12, SinkDoneOnce
  <2> QED BY <1>6, <2>1, <2>2, <2>3, <2>4 DEF OnceInv
<1>13. ASSUME NEW j \in Jobs, Cleaned(j) PROVE OnceInv'
  BY <1>1, <1>13 DEF Cleaned, lifeVars, sourceVars, sinkVars, jobVars
<1>14. CASE UNCHANGED vars
  BY <1>1, <1>14 DEF vars, lifeVars, sourceVars, sinkVars, jobVars
<1> QED BY <1>2, <1>3, <1>4, <1>5, <1>8, <1>9, <1>10, <1>11, <1>12, <1>13, <1>14 DEF Next

(* Once, and in order: as long as nobody calls stop(), no speed of the     *)
(* sinks, no moment at which a buffer fills or drains, and no jet that     *)
(* takes several jobs at once has a sink miss a job, get one twice, or get *)
(* it before an earlier one.                                               *)
THEOREM EverySinkOnceAlways == Spec => []EverySinkOnce
<1>1. Spec => []OnceInv
  BY InitOnceInv, NextOnceInv, PTL DEF Spec
<1> QED BY <1>1, OnceIsEverySink, PTL
-----------------------------------------------------------------------------
(***************************************************************************)
(* Backpressure.  A plug of a flow that is on still has room in the        *)
(* readable, and a sink that is full makes the pipe wait.                  *)
(***************************************************************************)
Held(s) ==
  /\ buffer[s] \in Seq(Jobs) /\ IsFiniteSet(writing[s])
  /\ Load(s) <= SinkHighWater
  /\ s \in piped /\ Load(s) >= SinkHighWater => s \in needDrain

BoundInv ==
  /\ sourceBuffer \in Seq(Jobs) /\ engine \in Seq(Jobs) /\ created \in Nat
  /\ Len(engine) <= EngineHighWater
  /\ kind = "flow" => /\ Len(sourceBuffer) <= SourceHighWater
                      /\ plugOn => Len(sourceBuffer) < SourceHighWater
  /\ piped \subseteq SinkSet
  /\ \A s \in SinkSet : Held(s)

LEMMA InitBoundInv == Init => BoundInv
<1> SUFFICES ASSUME Init PROVE BoundInv
  OBVIOUS
<1>1. ASSUME NEW s \in SinkSet PROVE Held(s)
  <2>1. buffer[s] = <<>> /\ writing[s] = {} /\ piped = {}
    BY DEF Init
  <2>2. Load(s) = 0
    BY <2>1, FS_EmptySet DEF Load
  <2> QED BY <2>1, <2>2, FS_EmptySet, FirehoseAssumption DEF Held
<1> QED BY <1>1, FirehoseAssumption DEF Init, BoundInv

LEMMA HeldSame ==
  ASSUME NEW s \in SinkSet, Held(s), UNCHANGED <<buffer, writing>>,
         s \in piped' => s \in piped, s \in needDrain => s \in needDrain'
  PROVE  Held(s)'
BY DEF Held, Load

LEMMA Joined ==
  ASSUME NEW S, NEW q \in Seq(S), NEW r \in Seq(S)
  PROVE  q \o r \in Seq(S) /\ Len(q \o r) = Len(q) + Len(r)
OBVIOUS

LEMMA PushBounded ==
  ASSUME BoundInv, NEW n \in Nat, Push(n)
  PROVE  /\ sourceBuffer' \in Seq(Jobs) /\ Len(sourceBuffer') = Len(sourceBuffer) + n
         /\ created' \in Nat
<1>1. created \in Nat /\ created' = created + n /\ created' <= MaxJobs /\ MaxJobs \in Nat
  BY FirehoseAssumption DEF Push, BoundInv
<1> DEFINE more == [i \in 1 .. n |-> created + i]
<1>2. \A i \in 1 .. n : created + i \in Jobs
  BY <1>1 DEF Jobs
<1>3. more \in Seq(Jobs) /\ Len(more) = n
  BY <1>2
<1>4. sourceBuffer' = sourceBuffer \o more
  BY DEF Push
<1> HIDE DEF more
<1>5. sourceBuffer \in Seq(Jobs)
  BY DEF BoundInv
<1>6. sourceBuffer \o more \in Seq(Jobs) /\ Len(sourceBuffer \o more) = Len(sourceBuffer) + n
  BY <1>3, <1>5, Joined
<1> QED BY <1>1, <1>4, <1>6

(* The head of what waits enters the next buffer. *)
LEMMA HeadTail ==
  ASSUME NEW q \in Seq(Jobs), q # <<>>
  PROVE  Head(q) \in Jobs /\ Tail(q) \in Seq(Jobs) /\ Len(Tail(q)) = Len(q) - 1
OBVIOUS

LEMMA DeliverHeld ==
  ASSUME BoundInv, Deliver, NEW s \in SinkSet
  PROVE  Held(s)'
<1>1. /\ buffer[s] \in Seq(Jobs) /\ Len(buffer[s]) \in Nat
      /\ IsFiniteSet(writing[s]) /\ Cardinality(writing[s]) \in Nat
      /\ Load(s) = Len(buffer[s]) + Cardinality(writing[s])
      /\ Load(s) <= SinkHighWater /\ SinkHighWater \in Nat
      /\ s \in piped /\ Load(s) >= SinkHighWater => s \in needDrain
  BY FS_CardinalityType, FirehoseAssumption DEF BoundInv, Held, Load
<1>2. /\ engine # <<>> /\ piped \intersect needDrain = {} /\ piped' = piped
      /\ writing'[s] = IF s \in piped /\ Idle(s) THEN {Head(engine)} ELSE writing[s]
      /\ buffer'[s] = IF s \in piped /\ ~Idle(s) THEN Append(buffer[s], Head(engine))
                      ELSE buffer[s]
      /\ needDrain' = needDrain \union {r \in piped : Load(r) + 1 >= SinkHighWater}
  BY DEF Deliver
<1>3. Head(engine) \in Jobs
  BY <1>2, HeadTail DEF BoundInv
<1>4. CASE s \notin piped
  BY <1>1, <1>2, <1>4 DEF Held, Load
<1>5. CASE s \in piped
  <2>1. Load(s) < SinkHighWater
    BY <1>1, <1>2, <1>5
  <2>2. /\ buffer'[s] \in Seq(Jobs) /\ IsFiniteSet(writing'[s])
        /\ Load(s)' = Load(s) + 1
    <3>1. CASE Idle(s)
      <4>1. writing'[s] = {Head(engine)} /\ buffer'[s] = buffer[s]
        BY <1>2, <1>5, <3>1
      <4>2. Cardinality(writing[s]) = 0
        BY <3>1, FS_EmptySet DEF Idle
      <4>3. IsFiniteSet(writing'[s]) /\ Cardinality(writing'[s]) = 1
        BY <4>1, FS_Singleton
      <4> QED BY <1>1, <4>1, <4>2, <4>3 DEF Load
    <3>2. CASE ~Idle(s)
      <4>1. writing'[s] = writing[s] /\ buffer'[s] = Append(buffer[s], Head(engine))
        BY <1>2, <1>5, <3>2
      <4>2. buffer'[s] \in Seq(Jobs) /\ Len(buffer'[s]) = Len(buffer[s]) + 1
        BY <1>1, <1>3, <4>1
      <4> QED BY <1>1, <4>1, <4>2 DEF Load
    <3> QED BY <3>1, <3>2
  <2>3. Load(s) + 1 >= SinkHighWater => s \in needDrain'
    BY <1>2, <1>5
  <2>4. Load(s) \in Int
    BY <1>1
  <2> QED BY <1>1, <2>1, <2>2, <2>3, <2>4 DEF Held
<1> QED BY <1>4, <1>5

(* The first n of a buffer are at most n jobs. *)
LEMMA FirstAtMost ==
  ASSUME NEW q \in Seq(Jobs), NEW n \in 0 .. Len(q)
  PROVE  /\ IsFiniteSet(ToSet(SubSeq(q, 1, n))) /\ Cardinality(ToSet(SubSeq(q, 1, n))) <= n
         /\ Cardinality(ToSet(SubSeq(q, 1, n))) \in Nat
         /\ SubSeq(q, n + 1, Len(q)) \in Seq(Jobs) /\ Len(SubSeq(q, n + 1, Len(q))) = Len(q) - n
<1> DEFINE f == SubSeq(q, 1, n)
           S == ToSet(f)
<1>1. DOMAIN f = 1 .. n /\ f \in [1 .. n -> S]
  <2>1. f \in Seq(Jobs) /\ Len(f) = n /\ DOMAIN f = 1 .. n
    OBVIOUS
  <2>2. f = [i \in 1 .. n |-> f[i]]
    BY <2>1
  <2>3. \A i \in 1 .. n : f[i] \in S
    BY <2>1 DEF ToSet
  <2> HIDE DEF f, S
  <2> QED BY <2>1, <2>2, <2>3
<1>2. \A x \in S : \E i \in 1 .. n : f[i] = x
  BY <1>1 DEF ToSet
<1> HIDE DEF f, S
<1>3. f \in Surjection(1 .. n, S)
  BY <1>1, <1>2 DEF Surjection
<1>4. IsFiniteSet(1 .. n) /\ Cardinality(1 .. n) = n
  BY FS_Interval
<1>5. IsFiniteSet(S) /\ Cardinality(S) <= n
  BY <1>3, <1>4, FS_Surjection
<1>6. Cardinality(S) \in Nat
  BY <1>5, FS_CardinalityType
<1>7. SubSeq(q, n + 1, Len(q)) \in Seq(Jobs) /\ Len(SubSeq(q, n + 1, Len(q))) = Len(q) - n
  OBVIOUS
<1> QED BY <1>5, <1>6, <1>7 DEF S, f

LEMMA SinkDoneHeld ==
  ASSUME BoundInv, buffer = [r \in SinkSet |-> buffer[r]], writing = [r \in SinkSet |-> writing[r]],
         NEW s \in SinkSet, NEW ok \in BOOLEAN, SinkDone(s, ok)
  PROVE  \A r \in SinkSet : Held(r)'
<1> DEFINE n == IF s \in Jets /\ Len(buffer[s]) > 1 THEN Len(buffer[s])
                ELSE IF buffer[s] # <<>> THEN 1 ELSE 0
<1>1. /\ writing[s] # {} /\ piped' = piped
      /\ writing' = [writing EXCEPT ![s] = ToSet(SubSeq(buffer[s], 1, n))]
      /\ buffer' = [buffer EXCEPT ![s] = SubSeq(buffer[s], n + 1, Len(buffer[s]))]
      /\ needDrain' = IF n = 0 THEN needDrain \ {s} ELSE needDrain
  BY DEF SinkDone
<1>2. /\ buffer[s] \in Seq(Jobs) /\ Len(buffer[s]) \in Nat
      /\ IsFiniteSet(writing[s]) /\ Cardinality(writing[s]) \in Nat
      /\ Load(s) = Len(buffer[s]) + Cardinality(writing[s])
      /\ Load(s) <= SinkHighWater /\ SinkHighWater \in Nat
  BY FS_CardinalityType, FirehoseAssumption DEF BoundInv, Held, Load
<1>3. n \in 0 .. Len(buffer[s])
  BY <1>2
<1> HIDE DEF n
<1>4. /\ writing'[s] = ToSet(SubSeq(buffer[s], 1, n))
      /\ buffer'[s] = SubSeq(buffer[s], n + 1, Len(buffer[s]))
      /\ \A r \in SinkSet \ {s} : buffer'[r] = buffer[r] /\ writing'[r] = writing[r]
  BY <1>1
<1>5. /\ IsFiniteSet(writing'[s]) /\ Cardinality(writing'[s]) <= n
      /\ Cardinality(writing'[s]) \in Nat
      /\ buffer'[s] \in Seq(Jobs) /\ Len(buffer'[s]) = Len(buffer[s]) - n
  BY <1>2, <1>3, <1>4, FirstAtMost
<1>6. Cardinality(writing[s]) # 0
  BY <1>1, <1>2, FS_EmptySet
<1>7. Load(s)' < SinkHighWater
  <2>1. Load(s)' = Len(buffer'[s]) + Cardinality(writing'[s])
    BY DEF Load
  <2> QED BY <1>2, <1>3, <1>5, <1>6, <2>1
<1>8. Load(s)' \in Int
  BY <1>2, <1>3, <1>5 DEF Load
<1>9. Held(s)'
  BY <1>2, <1>5, <1>7, <1>8 DEF Held
<1>10. ASSUME NEW r \in SinkSet \ {s} PROVE Held(r)'
  <2>1. Held(r) /\ buffer'[r] = buffer[r] /\ writing'[r] = writing[r]
    BY <1>4 DEF BoundInv
  <2>2. r \in needDrain => r \in needDrain'
    BY <1>1
  <2> QED BY <1>1, <2>1, <2>2 DEF Held, Load
<1> QED BY <1>9, <1>10

LEMMA NextBoundInv == OnceInv /\ BoundInv /\ [Next]_vars => BoundInv'
<1> SUFFICES ASSUME OnceInv, BoundInv, [Next]_vars PROVE BoundInv'
  OBVIOUS
<1> DEFINE source == <<kind, created, sourceBuffer, plugOn>>
           sinks == <<piped, buffer, writing, needDrain>>
<1>1. ASSUME UNCHANGED <<buffer, writing, needDrain>>, piped' = piped
      PROVE  \A s \in SinkSet : Held(s)'
  BY <1>1, HeldSame DEF BoundInv
<1>2. CASE UNCHANGED source /\ UNCHANGED sinks /\ UNCHANGED engine
  BY <1>1, <1>2 DEF BoundInv
<1>3. CASE Start \/ StartFails \/ PlugUndone \/ Stop \/ UNCHANGED vars \/ \E j \in Jobs : Cleaned(j)
  BY <1>2, <1>3 DEF Start, StartFails, PlugUndone, Stop, Cleaned, vars, lifeVars, sourceVars,
                    sinkVars
<1>4. CASE PlugStarted
  <2>1. UNCHANGED source /\ UNCHANGED <<engine, buffer, writing, needDrain>>
        /\ (piped' = piped \/ piped' = SinkSet)
    BY <1>4 DEF PlugStarted, sourceVars
  <2>2. ASSUME NEW s \in SinkSet PROVE Held(s)'
    <3>1. buffer[s] = <<>> /\ writing[s] = {}
      BY <1>4 DEF PlugStarted, OnceInv, IdleInv
    <3>2. Load(s)' = 0
      BY <2>1, <3>1, FS_EmptySet DEF Load
    <3>3. buffer'[s] \in Seq(Jobs) /\ IsFiniteSet(writing'[s])
      BY <2>1 DEF BoundInv, Held
    <3>4. SinkHighWater \in Nat /\ SinkHighWater > 0
      BY FirehoseAssumption
    <3> QED BY <3>2, <3>3, <3>4 DEF Held
  <2> QED BY <2>1, <2>2 DEF BoundInv
<1>5. CASE SinkStopped
  <2> DEFINE s == Sinks[step + 1]
  <2>1. /\ UNCHANGED source /\ UNCHANGED <<engine, writing>>
        /\ piped' = piped \ {s} /\ buffer' = [buffer EXCEPT ![s] = <<>>]
        /\ needDrain' = needDrain \ {s}
    BY <1>5 DEF SinkStopped, sourceVars
  <2> HIDE DEF s
  <2>2. ASSUME NEW r \in SinkSet PROVE Held(r)'
    <3>1. /\ Held(r) /\ Len(buffer[r]) \in Nat /\ SinkHighWater \in Nat
          /\ Cardinality(writing[r]) \in Nat
      BY FS_CardinalityType, FirehoseAssumption DEF BoundInv, Held
    <3>2. CASE r = s
      <4>1. buffer'[r] = <<>> /\ r \notin piped'
        BY <2>1, <3>2 DEF OnceInv
      <4>2. Load(r)' = Cardinality(writing[r])
        BY <2>1, <3>1, <4>1 DEF Load
      <4> QED BY <2>1, <3>1, <4>1, <4>2 DEF Held, Load
    <3>3. CASE r # s
      <4>1. buffer'[r] = buffer[r]
        BY <2>1, <3>3 DEF OnceInv
      <4> QED BY <2>1, <3>1, <3>3, <4>1 DEF Held, Load
    <3> QED BY <3>2, <3>3
  <2> QED BY <2>1, <2>2 DEF BoundInv
<1>6. CASE SourceStopped
  <2>1. /\ sourceBuffer' = <<>> /\ plugOn' = FALSE
        /\ UNCHANGED <<kind, created, engine>> /\ UNCHANGED sinks
    BY <1>6 DEF SourceStopped, sinkVars
  <2> QED BY <1>1, <2>1, FirehoseAssumption DEF BoundInv
<1>7. CASE Read
  <2>1. /\ Len(sourceBuffer) < SourceHighWater
        /\ UNCHANGED <<kind, created, sourceBuffer, engine>> /\ UNCHANGED sinks
    BY <1>7 DEF Read, sinkVars
  <2> QED BY <1>1, <2>1 DEF BoundInv
<1>8. CASE Data
  <2>1. Push(1) /\ UNCHANGED <<kind, engine>> /\ UNCHANGED sinks
    BY <1>8 DEF Data, sinkVars
  <2>2. /\ sourceBuffer' \in Seq(Jobs) /\ Len(sourceBuffer') = Len(sourceBuffer) + 1
        /\ created' \in Nat
    BY <2>1, PushBounded
  <2>3. kind = "flow" => plugOn /\ plugOn' = (Len(sourceBuffer') < SourceHighWater)
    BY <1>8 DEF Data
  <2>4. kind' = "flow" => /\ Len(sourceBuffer') <= SourceHighWater
                          /\ plugOn' => Len(sourceBuffer') < SourceHighWater
    <3>1. kind' = "flow" => (plugOn' => Len(sourceBuffer') < SourceHighWater)
      BY <2>1, <2>3
    <3>2. kind = "flow" => Len(sourceBuffer) < SourceHighWater
      BY <2>3 DEF BoundInv
    <3>3. kind' = "flow" => Len(sourceBuffer') <= SourceHighWater
      BY <2>1, <2>2, <3>2, FirehoseAssumption DEF BoundInv
    <3> QED BY <3>1, <3>3
  <2> QED BY <1>1, <2>1, <2>2, <2>4 DEF BoundInv
<1>9. ASSUME NEW n \in 0 .. SourceHighWater, Ingested(n) PROVE BoundInv'
  <2>1. Push(n) /\ kind = "sequence" /\ UNCHANGED <<kind, engine>> /\ UNCHANGED sinks /\ n \in Nat
    BY <1>9, FirehoseAssumption DEF Ingested, sinkVars
  <2>2. sourceBuffer' \in Seq(Jobs) /\ created' \in Nat
    BY <2>1, PushBounded
  <2> QED BY <1>1, <2>1, <2>2 DEF BoundInv
<1>10. ASSUME NEW fails \in BOOLEAN, Pump(fails) PROVE BoundInv'
  <2>1. /\ sourceBuffer # <<>> /\ Len(engine) < EngineHighWater
        /\ sourceBuffer' = Tail(sourceBuffer)
        /\ engine' = Append(engine, Head(sourceBuffer))
        /\ UNCHANGED <<kind, created, plugOn>> /\ UNCHANGED sinks
    BY <1>10 DEF Pump, sinkVars
  <2>2. /\ Head(sourceBuffer) \in Jobs
        /\ sourceBuffer' \in Seq(Jobs) /\ Len(sourceBuffer') = Len(sourceBuffer) - 1
    BY <2>1, HeadTail DEF BoundInv
  <2>3. engine' \in Seq(Jobs) /\ Len(engine') = Len(engine) + 1
    BY <2>1, <2>2 DEF BoundInv
  <2>4. Len(sourceBuffer) \in Nat /\ Len(engine) \in Nat
    BY DEF BoundInv
  <2>5. Len(engine') <= EngineHighWater
    BY <2>1, <2>3, <2>4, FirehoseAssumption
  <2>6. kind' = "flow" => /\ Len(sourceBuffer') <= SourceHighWater
                          /\ plugOn' => Len(sourceBuffer') < SourceHighWater
    BY <2>1, <2>2, <2>4, FirehoseAssumption DEF BoundInv
  <2> QED BY <1>1, <2>1, <2>2, <2>3, <2>5, <2>6 DEF BoundInv
<1>11. CASE Deliver
  <2>1. engine # <<>> /\ engine' = Tail(engine) /\ UNCHANGED source /\ piped' = piped
    BY <1>11 DEF Deliver, sourceVars
  <2>2. engine' \in Seq(Jobs) /\ Len(engine') = Len(engine) - 1 /\ Len(engine) \in Nat
    BY <2>1, HeadTail DEF BoundInv
  <2>3. Len(engine') <= EngineHighWater
    BY <2>2, FirehoseAssumption DEF BoundInv
  <2>4. \A s \in SinkSet : Held(s)'
    BY <1>11, DeliverHeld
  <2> QED BY <2>1, <2>2, <2>3, <2>4 DEF BoundInv
<1>12. ASSUME NEW s \in SinkSet, NEW ok \in BOOLEAN, SinkDone(s, ok) PROVE BoundInv'
  <2>1. UNCHANGED source /\ UNCHANGED engine /\ piped' = piped
    BY <1>12 DEF SinkDone, sourceVars
  <2>2. \A r \in SinkSet : Held(r)'
    BY <1>12, SinkDoneHeld DEF OnceInv
  <2> QED BY <2>1, <2>2 DEF BoundInv
<1> QED BY <1>3, <1>4, <1>5, <1>6, <1>7, <1>8, <1>9, <1>10, <1>11, <1>12 DEF Next

(* Backpressure, with any number of sinks and jobs and buffers of any      *)
(* length: no order in which plugs push, sinks drain and stop() comes      *)
(* fills the engine or a sink beyond its high water, or the source of a    *)
(* flow beyond its own.                                                    *)
THEOREM BuffersAreBoundedAlways == Spec => []BuffersAreBounded
<1>1. Spec => [](OnceInv /\ BoundInv)
  BY InitOnceInv, NextOnceInv, InitBoundInv, NextBoundInv, PTL DEF Spec
<1>2. BoundInv => BuffersAreBounded
  BY DEF BoundInv, Held, BuffersAreBounded
<1> QED BY <1>1, <1>2, PTL
-----------------------------------------------------------------------------
(***************************************************************************)
(* The types.  start() and stop() handle the parts one by one, never more  *)
(* than there are, and a firehose that can be stopped listens.             *)
(***************************************************************************)
LifeInv ==
  /\ phase \in {"new", "starting", "undoing", "started", "stopping", "stopped"}
  /\ step \in 0 .. Parts /\ wraps \in Nat /\ failedStarts \in 0 .. MaxFailedStarts
  /\ phase = "starting" => step < Parts
  /\ phase = "undoing" => step > 0
  /\ phase \in {"starting", "undoing", "started"} => wraps > 0

SourceTypes ==
  /\ kind \in Kinds /\ credits \in 0 .. MaxJobs
  /\ reading \in BOOLEAN /\ pendingRequest \in BOOLEAN /\ emptied \in BOOLEAN
  /\ plugOn \in BOOLEAN

JobTypes ==
  /\ needDrain \subseteq piped /\ \A s \in SinkSet : writing[s] \subseteq Jobs
  /\ errors \subseteq Jobs /\ cleaning \subseteq Jobs
  /\ doneEvents \in [Jobs -> Nat]

TypeInv == LifeInv /\ SourceTypes /\ JobTypes

LEMMA PartsType == Parts \in Nat /\ Parts > 0 /\ Len(Sinks) = Parts - 1
<1>1. Sinks \in Seq(SinkSet) /\ Sinks # <<>>
  BY FirehoseAssumption
<1> QED BY <1>1 DEF Parts

LEMMA InitTypeInv == Init => TypeInv
<1> SUFFICES ASSUME Init PROVE TypeInv
  OBVIOUS
<1>1. LifeInv
  BY PartsType, FirehoseAssumption DEF Init, LifeInv
<1>2. 0 \in 0 .. MaxJobs
  BY FirehoseAssumption
<1>3. SourceTypes
  BY <1>2 DEF Init, SourceTypes
<1>4. JobTypes
  BY DEF Init, JobTypes
<1> QED BY <1>1, <1>3, <1>4 DEF TypeInv

LEMMA NextLifeInv == LifeInv /\ [Next]_vars => LifeInv'
<1> SUFFICES ASSUME LifeInv, [Next]_vars PROVE LifeInv'
  OBVIOUS
<1>1. CASE UNCHANGED lifeVars
  BY <1>1 DEF LifeInv, lifeVars
<1>2. CASE Start
  BY <1>2, PartsType DEF LifeInv, Start
<1>3. CASE PlugStarted
  BY <1>3, PartsType DEF LifeInv, PlugStarted
<1>4. CASE StartFails
  BY <1>4, FirehoseAssumption DEF LifeInv, StartFails
<1>5. CASE PlugUndone
  BY <1>5, PartsType DEF LifeInv, PlugUndone
<1>6. CASE Stop
  BY <1>6, PartsType DEF LifeInv, Stop
<1>7. CASE SinkStopped \/ SourceStopped
  BY <1>7, PartsType DEF LifeInv, SinkStopped, SourceStopped
<1> QED BY <1>1, <1>2, <1>3, <1>4, <1>5, <1>6, <1>7 DEF Next, vars, Read, Data, Deliver, Ingested, Pump, SinkDone, Cleaned

LEMMA NextSourceTypes == SourceTypes /\ [Next]_vars => SourceTypes'
<1> SUFFICES ASSUME SourceTypes, [Next]_vars PROVE SourceTypes'
  OBVIOUS
<1>1. CASE UNCHANGED <<kind, reading, pendingRequest, emptied, plugOn, credits>>
  BY <1>1 DEF SourceTypes
<1>2. CASE SourceStopped
  BY <1>2 DEF SourceTypes, SourceStopped
<1>3. CASE Read
  <2>1. reading' = TRUE /\ UNCHANGED <<kind, emptied>>
    BY <1>3 DEF Read
  <2>2. credits' \in 0 .. MaxJobs
    BY <1>3, FirehoseAssumption DEF Read, SourceTypes
  <2>3. pendingRequest' \in BOOLEAN /\ plugOn' \in BOOLEAN
    BY <1>3 DEF Read, SourceTypes
  <2> QED BY <2>1, <2>2, <2>3 DEF SourceTypes
<1>4. CASE Data
  <2>1. /\ UNCHANGED <<kind, pendingRequest, emptied>>
        /\ reading' = (reading /\ 1 = 0)
    BY <1>4 DEF Data, Push
  <2>2. credits' \in 0 .. MaxJobs
    BY <1>4, FirehoseAssumption DEF Data, SourceTypes
  <2>3. plugOn' = plugOn \/ plugOn' = (Len(sourceBuffer') < SourceHighWater)
    BY <1>4 DEF Data
  <2>4. plugOn' \in BOOLEAN
    <3>1. CASE plugOn' = plugOn
      BY <3>1 DEF SourceTypes
    <3>2. CASE plugOn' = (Len(sourceBuffer') < SourceHighWater)
      BY <3>2
    <3> QED BY <2>3, <3>1, <3>2
  <2>5. reading' \in BOOLEAN
    BY <2>1
  <2> QED BY <2>1, <2>2, <2>4, <2>5 DEF SourceTypes
<1>5. ASSUME NEW n \in 0 .. SourceHighWater, Ingested(n) PROVE SourceTypes'
  <2>1. /\ UNCHANGED <<kind, plugOn, credits>> /\ pendingRequest' = FALSE
        /\ reading' = (reading /\ n = 0) /\ emptied' = (emptied \/ n = 0)
    BY <1>5 DEF Ingested, Push
  <2> QED BY <2>1 DEF SourceTypes
<1>6. CASE ~(SourceStopped \/ Read \/ Data \/ \E n \in 0 .. SourceHighWater : Ingested(n))
  <2>1. UNCHANGED <<kind, reading, pendingRequest, emptied, plugOn, credits>>
    BY <1>6 DEF Next, vars, sourceVars, Start, PlugStarted, StartFails, PlugUndone, Stop,
                SinkStopped, Deliver, Pump, SinkDone, Cleaned
  <2> QED BY <1>1, <2>1
<1> QED BY <1>2, <1>3, <1>4, <1>5, <1>6

LEMMA NextJobTypes == OnceInv /\ BoundInv /\ TypeInv /\ [Next]_vars => JobTypes'
<1> SUFFICES ASSUME OnceInv, BoundInv, TypeInv, [Next]_vars PROVE JobTypes'
  OBVIOUS
<1> DEFINE mine == <<needDrain, writing, errors, cleaning, doneEvents>>
<1>1. ASSUME UNCHANGED mine, piped \subseteq piped' PROVE JobTypes'
  BY <1>1 DEF TypeInv, JobTypes
<1>2. CASE SinkStopped
  BY <1>2 DEF SinkStopped, TypeInv, JobTypes, jobVars, cleanVars
<1>3. CASE PlugStarted
  <2>1. UNCHANGED mine /\ (piped' = piped \/ piped' = SinkSet)
    BY <1>3 DEF PlugStarted, jobVars, cleanVars
  <2> QED BY <1>1, <2>1 DEF BoundInv
<1>4. ASSUME NEW fails \in BOOLEAN, Pump(fails) PROVE JobTypes'
  <2>1. Head(sourceBuffer) \in Jobs
    BY <1>4, HeadTail DEF Pump, BoundInv
  <2> QED BY <1>4, <2>1 DEF Pump, TypeInv, JobTypes, sinkVars, cleanVars
<1>5. CASE Deliver
  <2>1. Head(engine) \in Jobs
    BY <1>5, HeadTail DEF Deliver, BoundInv
  <2>2. /\ \A s \in SinkSet : writing'[s] = {Head(engine)} \/ writing'[s] = writing[s]
        /\ needDrain' \subseteq needDrain \union piped /\ piped' = piped
        /\ UNCHANGED <<errors, cleaning, doneEvents>>
    BY <1>5 DEF Deliver, jobVars, cleanVars
  <2> QED BY <2>1, <2>2 DEF TypeInv, JobTypes
<1>6. ASSUME NEW s \in SinkSet, NEW ok \in BOOLEAN, SinkDone(s, ok) PROVE JobTypes'
  <2> DEFINE n == IF s \in Jets /\ Len(buffer[s]) > 1 THEN Len(buffer[s])
                  ELSE IF buffer[s] # <<>> THEN 1 ELSE 0
  <2>1. /\ writing' = [writing EXCEPT ![s] = ToSet(SubSeq(buffer[s], 1, n))]
        /\ needDrain' \subseteq needDrain /\ piped' = piped /\ doneEvents' = doneEvents
    BY <1>6 DEF SinkDone
  <2>2. Confirm(s, writing[s], ok)
    BY <1>6 DEF SinkDone
  <2>3. errors' \subseteq errors \union writing[s] /\ cleaning' \subseteq cleaning \union writing[s]
    BY <2>2 DEF Confirm
  <2>4. buffer[s] \in Seq(Jobs) /\ n \in 0 .. Len(buffer[s])
    BY DEF BoundInv, Held
  <2> HIDE DEF n
  <2>5. ToSet(SubSeq(buffer[s], 1, n)) \subseteq Jobs
    <3>1. \A i \in DOMAIN SubSeq(buffer[s], 1, n) : SubSeq(buffer[s], 1, n)[i] \in Jobs
      BY <2>4
    <3> QED BY <3>1 DEF ToSet
  <2> QED BY <2>1, <2>3, <2>5 DEF TypeInv, JobTypes
<1>7. ASSUME NEW job \in Jobs, Cleaned(job) PROVE JobTypes'
  <2>1. /\ cleaning' \subseteq cleaning /\ UNCHANGED <<piped, needDrain, writing, errors>>
        /\ doneEvents' = [doneEvents EXCEPT ![job] = @ + wraps]
    BY <1>7 DEF Cleaned, sinkVars, jobVars
  <2>2. wraps \in Nat
    BY DEF TypeInv, LifeInv
  <2> QED BY <2>1, <2>2 DEF TypeInv, JobTypes
<1>8. CASE \/ Start \/ StartFails \/ PlugUndone \/ Stop \/ SourceStopped \/ Read \/ Data
           \/ \E n \in 0 .. SourceHighWater : Ingested(n)
           \/ UNCHANGED vars
  <2>1. UNCHANGED mine /\ piped' = piped
    BY <1>8 DEF Start, StartFails, PlugUndone, Stop, SourceStopped, Read, Data, Ingested, vars,
                sinkVars, jobVars, cleanVars
  <2> QED BY <1>1, <2>1
<1> QED BY <1>2, <1>3, <1>4, <1>5, <1>6, <1>7, <1>8 DEF Next

(* Every variable keeps its type: no call of start() or stop() handles     *)
(* more parts than there are or leaves more often than it listens, and no  *)
(* step gives back a credit that nobody has.                               *)
THEOREM TypeCorrect == Spec => []TypeOK
<1> DEFINE All == IInv /\ OnceInv /\ BoundInv /\ TypeInv
<1>1. Init => All
  BY InitIInv, InitOnceInv, InitBoundInv, InitTypeInv
<1>2. All /\ [Next]_vars => All'
  BY NextIInv, NextOnceInv, NextBoundInv, NextLifeInv, NextSourceTypes, NextJobTypes DEF TypeInv
<1>3. All => TypeOK
  <2> SUFFICES ASSUME All PROVE TypeOK
    OBVIOUS
  <2>1. /\ kind \in Kinds /\ created \in 0 .. MaxJobs /\ credits \in 0 .. MaxJobs
        /\ {reading, pendingRequest, emptied, plugOn} \subseteq BOOLEAN
    BY FirehoseAssumption DEF OnceInv, TypeInv, SourceTypes
  <2>2. /\ {sourceBuffer, engine} \subseteq Seq(Jobs) /\ Len(engine) <= EngineHighWater
        /\ piped \subseteq SinkSet
        /\ \A s \in SinkSet : buffer[s] \in Seq(Jobs) /\ Load(s) <= SinkHighWater
    BY DEF BoundInv, Held
  <2>3. pendingDone \in [Jobs -> Int] /\ status \in [Jobs -> {"pending", "completed", "failed"}]
    BY DEF IInv, ResolvedInv
  <2> QED BY <2>1, <2>2, <2>3 DEF TypeOK, TypeInv, LifeInv, JobTypes
<1> HIDE DEF All
<1> QED BY <1>1, <1>2, <1>3, PTL DEF Spec
=============================================================================
