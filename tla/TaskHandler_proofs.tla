------------------------- MODULE TaskHandler_proofs -------------------------
(***************************************************************************)
(* What holds of a task handler with any number of calls, attempts, tasks  *)
(* of a group and cancels.                                                 *)
(***************************************************************************)
EXTENDS TaskHandler, FiniteSetTheorems, TLAPS

Statuses == {"pending", "running", "completed", "cancelled", "failed"}

(***************************************************************************)
(* Types.  A call counts its attempts, and one that waits has another one. *)
(***************************************************************************)
LastChild == IF kind = "sequence" THEN 4 ELSE Children

CountInv ==
  \A call \in Calls :
    /\ phase[call] = "none" => attempt[call] = 0
    /\ phase[call] = "waiting" => attempt[call] < Attempts
    /\ phase[call] = "trying" => attempt[call] > 0
    /\ late[call] <= attempt[call]
    /\ phase[call] = "running" => child[call] \in 1 .. LastChild

TypeInv == TypeOK /\ CountInv

LEMMA InitTypes == Init => TypeInv
<1> SUFFICES ASSUME Init PROVE TypeInv
  OBVIOUS
<1>1. RetryTypeOK
  <2>1. 0 \in 0..Attempts
    BY RetryAssumption
  <2>2. phase \in [Calls -> Phases]
    BY DEF Init, RetryInit, Phases
  <2>3. attempt \in [Calls -> 0..Attempts] /\ late \in [Calls -> 0..Attempts]
    BY <2>1 DEF Init, RetryInit
  <2> QED BY <2>2, <2>3 DEF Init, RetryInit, RetryTypeOK
<1>2. TypeOK
  BY <1>1, TaskAssumption DEF Init, TypeOK
<1>3. CountInv
  BY RetryAssumption DEF Init, RetryInit, CountInv
<1> QED BY <1>2, <1>3 DEF TypeInv

(* An attempt is counted, and no race begins that is not an attempt.       *)
LEMMA InvokeShape ==
  ASSUME TypeInv, NEW call \in Calls, phase[call] \in {"none", "waiting"}, Invoke(call)
  PROVE  /\ attempt[call] + 1 \in 1 .. Attempts
         /\ attempt' = [attempt EXCEPT ![call] = @ + 1]
         /\ inFlight' \subseteq inFlight \union {<<call, attempt[call] + 1>>}
         /\ \E to \in {"trying", "thrown"} : phase' = [phase EXCEPT ![call] = to]
         /\ \E n \in {late[call], late[call] + 1} : late' = [late EXCEPT ![call] = n]
         /\ aborted' = aborted
<1>1. attempt[call] \in 0 .. (Attempts - 1)
  BY RetryAssumption DEF TypeInv, TypeOK, RetryTypeOK, CountInv
<1>2. \E n \in {late[call], late[call] + 1} : late' = [late EXCEPT ![call] = n]
  BY DEF Invoke, Race, TypeInv, TypeOK, RetryTypeOK
<1>3. \E to \in {"trying", "thrown"} : phase' = [phase EXCEPT ![call] = to]
  BY DEF Invoke, Race, Moves
<1>4. inFlight' \subseteq inFlight \union {<<call, attempt[call] + 1>>}
  BY DEF Invoke, Race
<1>5. attempt[call] + 1 \in 1 .. Attempts
  BY <1>1, RetryAssumption
<1>6. attempt' = [attempt EXCEPT ![call] = @ + 1] /\ aborted' = aborted
  BY DEF Invoke
<1> QED BY <1>2, <1>3, <1>4, <1>5, <1>6

LEMMA InvokeTypes ==
  ASSUME TypeInv, NEW call \in Calls, phase[call] \in {"none", "waiting"}, Invoke(call)
  PROVE  /\ RetryTypeOK'
         /\ (child' = child /\ kind' = kind) => CountInv'
<1>1. PICK to \in {"trying", "thrown"} : phase' = [phase EXCEPT ![call] = to]
  BY InvokeShape
<1>2. PICK n \in {late[call], late[call] + 1} : late' = [late EXCEPT ![call] = n]
  BY InvokeShape
<1>3. /\ attempt[call] + 1 \in 1 .. Attempts
      /\ attempt' = [attempt EXCEPT ![call] = @ + 1]
      /\ inFlight' \subseteq inFlight \union {<<call, attempt[call] + 1>>}
      /\ aborted' = aborted
  BY InvokeShape
<1>4. late[call] \in 0 .. attempt[call] /\ n \in 0 .. (attempt[call] + 1)
  BY RetryAssumption DEF TypeInv, TypeOK, RetryTypeOK, CountInv
<1>5. late' \in [Calls -> 0..Attempts]
  BY <1>2, <1>3, <1>4, RetryAssumption DEF TypeInv, TypeOK, RetryTypeOK
<1>6. RetryTypeOK'
  <2>1. phase' \in [Calls -> Phases]
    BY <1>1 DEF TypeInv, TypeOK, RetryTypeOK, Phases
  <2>2. attempt' \in [Calls -> 0..Attempts]
    BY <1>3, RetryAssumption DEF TypeInv, TypeOK, RetryTypeOK
  <2>3. inFlight' \subseteq Calls \X (1..Attempts)
    BY <1>3 DEF TypeInv, TypeOK, RetryTypeOK
  <2>4. aborted' \in BOOLEAN
    BY <1>3, Zenon DEF TypeInv, TypeOK, RetryTypeOK
  <2> QED BY <1>5, <2>1, <2>2, <2>3, <2>4, Zenon DEF RetryTypeOK
<1>7. ASSUME child' = child, kind' = kind PROVE CountInv'
  BY <1>1, <1>2, <1>3, <1>4, <1>7, RetryAssumption
     DEF TypeInv, TypeOK, RetryTypeOK, CountInv, LastChild
<1> QED BY <1>6, <1>7, Zenon

LEMMA BeginTypes ==
  ASSUME TypeInv, NEW call \in Calls, phase[call] = "none", Begin(call), status' \in Statuses
  PROVE  TypeInv'
<1> USE RetryAssumption, TaskAssumption DEF TypeInv
<1>1. CASE kind = "single"
  <2>1. /\ Invoke(call)
        /\ executed' = [executed EXCEPT ![call] = "open"]
        /\ UNCHANGED <<child, kind, strategy, dones, cancels, results, errors, outcomes>>
    BY <1>1 DEF Begin
  <2>2. RetryTypeOK' /\ CountInv'
    BY <2>1, InvokeTypes
  <2>3. TypeOK'
    BY <2>1, <2>2 DEF TypeOK, Statuses
  <2> QED BY <2>2, <2>3
<1>2. CASE kind # "single"
  <2>1. /\ child' = [child EXCEPT ![call] = 1]
        /\ phase' = [phase EXCEPT ![call] = "running"]
        /\ executed' = [executed EXCEPT ![call] = "open"]
        /\ UNCHANGED <<attempt, inFlight, aborted, late, kind, strategy, dones, cancels,
                       results, errors, outcomes>>
    BY <1>2 DEF Begin, Moves
  <2>2. TypeOK'
    BY <2>1 DEF TypeOK, RetryTypeOK, Phases, Statuses
  <2> QED BY <2>1, <2>2 DEF CountInv, LastChild, TypeOK, RetryTypeOK
<1> QED BY <1>1, <1>2

(* A call ends, or waits, or goes on. *)
LEMMA EndTypes ==
  ASSUME TypeInv, NEW call \in Calls, phase[call] # "none",
         \E to \in {"waiting", "resolved", "rejected"} :
            Moves(call, to) /\ (to = "waiting" => attempt[call] < Attempts),
         inFlight' \subseteq inFlight, status' \in Statuses, dones' \in {dones, dones + 1},
         executed' \in [Calls -> {"no", "open", "success", "failure"}],
         UNCHANGED <<attempt, aborted, late, kind, strategy, cancels, partVars>>
  PROVE  TypeInv'
<1> PICK to \in {"waiting", "resolved", "rejected"} :
      Moves(call, to) /\ (to = "waiting" => attempt[call] < Attempts)
  OBVIOUS
<1>1. RetryTypeOK'
  BY DEF TypeInv, TypeOK, RetryTypeOK, Moves, Phases
<1>2. TypeOK'
  BY <1>1 DEF TypeInv, TypeOK, Statuses, partVars
<1>3. CountInv'
  BY DEF TypeInv, TypeOK, RetryTypeOK, CountInv, Moves, partVars, LastChild
<1> QED BY <1>2, <1>3 DEF TypeInv

(* A task of a group or a sequence ends. *)
LEMMA ChildTypes ==
  ASSUME TypeInv, NEW call \in Calls, NEW ok \in BOOLEAN, NEW next \in 1 .. (LastChild + 1),
         Child(call, ok, next), results' \in Nat, errors' \in Nat,
         \/ next <= LastChild /\ Stays
         \/ \E rejects \in BOOLEAN : Settle(call, rejects)
  PROVE  TypeInv'
<1> USE TaskAssumption
<1>1. /\ phase[call] = "running"
      /\ outcomes' = [outcomes EXCEPT ![call] = @ \union {<<child[call], ok>>}]
      /\ child' = [child EXCEPT ![call] = next]
      /\ UNCHANGED <<attempt, inFlight, aborted, late>>
  BY DEF Child
<1>2. /\ UNCHANGED <<kind, strategy, cancels>>
      /\ status' \in Statuses /\ dones' \in Nat
      /\ executed' \in [Calls -> {"no", "open", "success", "failure"}]
      /\ phase' \in [Calls -> Phases]
      /\ \A other \in Calls \ {call} : phase'[other] = phase[other]
      /\ phase'[call] \in {"running", "resolved", "rejected"}
      /\ phase'[call] = "running" => next <= LastChild
  BY <1>1 DEF Stays, Settle, Fail, Succeed, Moves, handlerVars, TypeInv, TypeOK, RetryTypeOK,
              Statuses, Phases
<1>3. LastChild \in Nat /\ LastChild <= Children + 4
  BY DEF LastChild
<1>4. child[call] \in 1 .. (Children + 4)
  BY <1>1, <1>3 DEF TypeInv, CountInv, TypeOK
<1>5. outcomes' \in [Calls -> SUBSET ((1..(Children + 4)) \X BOOLEAN)]
  BY <1>1, <1>4 DEF TypeInv, TypeOK
<1>6. child' \in [Calls -> 0..(Children + 5)]
  BY <1>1, <1>3 DEF TypeInv, TypeOK
<1>7. TypeOK'
  BY <1>1, <1>2, <1>5, <1>6 DEF TypeInv, TypeOK, RetryTypeOK, Statuses
<1>8. CountInv'
  BY <1>1, <1>2, <1>3 DEF TypeInv, TypeOK, RetryTypeOK, CountInv, LastChild
<1> QED BY <1>7, <1>8 DEF TypeInv

LEMMA NextTypes == TypeInv /\ [Next]_vars => TypeInv'
<1> SUFFICES ASSUME TypeInv, [Next]_vars PROVE TypeInv'
  OBVIOUS
<1>0. CASE UNCHANGED vars
  BY <1>0 DEF vars, retryVars, handlerVars, partVars, TypeInv, TypeOK, RetryTypeOK, CountInv, LastChild
<1>1. ASSUME NEW call \in Calls, ExecutePending(call) \/ ExecuteAgain(call) PROVE TypeInv'
  BY <1>1, BeginTypes DEF ExecutePending, ExecuteAgain, IsNext, Statuses
<1>2. ASSUME NEW call \in Calls, ExecuteRefused(call) \/ ExecuteRemembered(call) PROVE TypeInv'
  <2>1. /\ phase[call] = "none"
        /\ phase' \in {[phase EXCEPT ![call] = "rejected"], [phase EXCEPT ![call] = "resolved"]}
        /\ status' \in Statuses /\ dones' \in Nat
        /\ UNCHANGED <<attempt, inFlight, aborted, late, kind, strategy, cancels,
                       partVars, executed>>
    BY <1>2 DEF ExecuteRefused, ExecuteRemembered, IsNext, Moves, handlerVars, Statuses, TypeInv, TypeOK
  <2>2. TypeOK'
    BY <2>1 DEF TypeInv, TypeOK, RetryTypeOK, Phases, partVars, Statuses
  <2> QED BY <2>1, <2>2 DEF TypeInv, CountInv, TypeOK, RetryTypeOK, LastChild, partVars
<1>3. ASSUME NEW call \in Calls, TrySucceeds(call) PROVE TypeInv'
  <2>1. executed' \in [Calls -> {"no", "open", "success", "failure"}]
    BY <1>3 DEF TrySucceeds, Succeed, TypeInv, TypeOK
  <2> QED BY <1>3, <2>1, EndTypes DEF TrySucceeds, Succeed, Answers, Statuses
<1>4. ASSUME NEW call \in Calls,
             TryFails(call) \/ TryThrows(call) \/ Watchdog(call) \/ SignalWins(call)
      PROVE  TypeInv'
  <2>1. executed' \in [Calls -> {"no", "open", "success", "failure"}]
    BY <1>4 DEF TryFails, TryThrows, ErrorManagement, Watchdog, SignalWins, TryEnds, Fail, TypeInv, TypeOK
  <2>2. /\ phase[call] # "none" /\ inFlight' \subseteq inFlight
        /\ UNCHANGED <<attempt, aborted, late, partVars>>
    BY <1>4 DEF TryFails, TryThrows, ErrorManagement, Watchdog, SignalWins, Answers, Throws, TimesOut,
                IsAborted
  <2>3. status' \in Statuses /\ dones' \in {dones, dones + 1} /\ UNCHANGED <<kind, strategy, cancels>>
    BY <1>4 DEF TryFails, TryThrows, ErrorManagement, Watchdog, SignalWins, TryEnds, Fail, handlerVars,
                Statuses, TypeInv, TypeOK
  <2>4. \E to \in {"waiting", "resolved", "rejected"} :
          Moves(call, to) /\ (to = "waiting" => attempt[call] < Attempts)
    BY <1>4 DEF TryFails, TryThrows, ErrorManagement, Watchdog, SignalWins, TryEnds, Retries, GivesUp,
                IsAborted
  <2> QED BY <2>1, <2>2, <2>3, <2>4, EndTypes
<1>5. ASSUME NEW call \in Calls, TryNext(call) PROVE TypeInv'
  <2>1. /\ phase[call] = "waiting" /\ Invoke(call)
        /\ UNCHANGED <<handlerVars, partVars, executed>>
    BY <1>5 DEF TryNext, WaitOver
  <2>2. RetryTypeOK' /\ CountInv'
    BY <2>1, InvokeTypes DEF handlerVars, partVars
  <2>3. TypeOK'
    BY <2>1, <2>2 DEF TypeInv, TypeOK, handlerVars, partVars
  <2> QED BY <2>2, <2>3 DEF TypeInv
<1>6. ASSUME NEW call \in Calls, TryStraggles(call) PROVE TypeInv'
  <2>1. inFlight' \subseteq inFlight
        /\ UNCHANGED <<phase, attempt, aborted, late, handlerVars, partVars, executed>>
    BY <1>6 DEF TryStraggles, Straggle
  <2> QED BY <2>1 DEF TypeInv, TypeOK, RetryTypeOK, CountInv, LastChild, handlerVars, partVars
<1>7. CASE Cancel
  BY <1>7, TaskAssumption
     DEF Cancel, TypeInv, TypeOK, RetryTypeOK, CountInv, LastChild, retryVars, partVars
<1>8. CASE RaiseSignal
  BY <1>8 DEF RaiseSignal, Abort, TypeInv, TypeOK, RetryTypeOK, CountInv, LastChild, handlerVars, partVars
<1>9. ASSUME NEW call \in Calls, NEW ok \in BOOLEAN, GroupChild(call, ok) PROVE TypeInv'
  <2>1. /\ kind # "sequence" /\ phase[call] = "running"
        /\ Child(call, ok, child[call] + 1)
        /\ results' \in Nat /\ errors' \in Nat
    BY <1>9 DEF GroupChild, Child, TypeInv, TypeOK
  <2>2. LastChild = Children /\ child[call] \in 1 .. Children
    BY <2>1 DEF LastChild, TypeInv, CountInv
  <2>3. child[call] + 1 \in 1 .. (LastChild + 1)
    BY <2>2, TaskAssumption
  <2>4. GroupRejects(errors') \in BOOLEAN
    <3>1. CASE kind = "group"
      BY <2>1, <3>1 DEF GroupRejects
    <3>2. CASE kind # "group"
      BY <2>1, <3>2 DEF GroupRejects
    <3> QED BY <3>1, <3>2
  <2>5. \/ child[call] + 1 <= LastChild /\ Stays
        \/ \E rejects \in BOOLEAN : Settle(call, rejects)
    BY <1>9, <2>2, <2>4, TaskAssumption DEF GroupChild
  <2> QED BY <2>1, <2>3, <2>5, ChildTypes
<1>10. ASSUME NEW call \in Calls, NEW ok \in BOOLEAN, SequenceChild(call, ok) PROVE TypeInv'
  <2> DEFINE next == NextPhase(child[call], ok)
  <2>1. /\ kind = "sequence" /\ phase[call] = "running"
        /\ Child(call, ok, next)
        /\ UNCHANGED <<results, errors>>
    BY <1>10 DEF SequenceChild, Child
  <2>2. LastChild = 4 /\ child[call] \in 1 .. 4
    BY <2>1 DEF LastChild, TypeInv, CountInv
  <2>3. next \in 1 .. (LastChild + 1)
    BY <2>2 DEF NextPhase
  <2>4. child'[call] = next
    BY <2>1 DEF Child, TypeInv, TypeOK
  <2>5. (Failures(call)' # {}) \in BOOLEAN
    OBVIOUS
  <2> HIDE DEF next
  <2>6. \/ next <= LastChild /\ Stays
        \/ \E rejects \in BOOLEAN : Settle(call, rejects)
    BY <1>10, <2>2, <2>4, <2>5 DEF SequenceChild
  <2>7. results' \in Nat /\ errors' \in Nat
    BY <2>1 DEF TypeInv, TypeOK
  <2> QED BY <2>1, <2>3, <2>6, <2>7, ChildTypes
<1> QED BY <1>0, <1>1, <1>2, <1>3, <1>4, <1>5, <1>6, <1>7, <1>8, <1>9, <1>10 DEF Next

LEMMA AlwaysTypes == Spec => []TypeInv
BY InitTypes, NextTypes, PTL DEF Spec

(* Types and counters of a task handler: no call makes more attempts than  *)
(* it may, and none goes past its last task.                               *)
THEOREM TypeCorrect == Spec => []TypeOK
<1>1. TypeInv => TypeOK
  BY DEF TypeInv
<1> QED BY <1>1, AlwaysTypes, PTL
-----------------------------------------------------------------------------
(***************************************************************************)
(* The abort signal.  A call that has entered a race since it was raised   *)
(* is in that race, or over.                                               *)
(***************************************************************************)
RaceInv(call) ==
  \/ late[call] = 0
  \/ aborted /\ late[call] = 1 /\ phase[call] \notin {"none", "waiting", "thrown"}

AbortInv == \A call \in Calls : RaceInv(call)

(* A step that comes to no wait after the signal was raised.               *)
LEMMA AbortStays ==
  ASSUME TypeInv, AbortInv, UNCHANGED <<late, aborted>>,
         NEW call \in Calls, \A other \in Calls \ {call} : phase'[other] = phase[other],
         \/ ~aborted \/ phase[call] \in {"none", "waiting", "thrown"}
         \/ phase'[call] = phase[call] \/ phase'[call] \notin {"none", "waiting", "thrown"}
  PROVE  AbortInv'
BY DEF AbortInv, RaceInv

(* Another race, or a function that throws at once and enters none.        *)
LEMMA AbortInvokes ==
  ASSUME TypeInv, AbortInv, NEW call \in Calls, phase[call] \in {"none", "waiting"}, Invoke(call)
  PROVE  AbortInv'
<1>1. late[call] = 0 /\ aborted' = aborted
  BY DEF AbortInv, RaceInv, Invoke
<1>2. \A other \in Calls \ {call} : late'[other] = late[other] /\ phase'[other] = phase[other]
  BY DEF Invoke, Race, Moves, TypeInv, TypeOK, RetryTypeOK
<1>3. \/ late'[call] = 0
      \/ aborted /\ late'[call] = 1 /\ phase'[call] = "trying"
  BY <1>1 DEF Invoke, Race, Moves, TypeInv, TypeOK, RetryTypeOK
<1> QED BY <1>1, <1>2, <1>3 DEF AbortInv, RaceInv

LEMMA NextAbort == TypeInv /\ AbortInv /\ [Next]_vars => AbortInv'
<1> SUFFICES ASSUME TypeInv, AbortInv, [Next]_vars PROVE AbortInv'
  OBVIOUS
<1>0. CASE UNCHANGED vars \/ Cancel
  BY <1>0 DEF Cancel, vars, retryVars, AbortInv, RaceInv
<1>1. ASSUME NEW call \in Calls, ExecutePending(call) \/ ExecuteAgain(call) PROVE AbortInv'
  <2>1. phase[call] = "none" /\ Begin(call)
    BY <1>1 DEF ExecutePending, ExecuteAgain, IsNext
  <2>2. CASE kind = "single"
    BY <2>1, <2>2, AbortInvokes DEF Begin
  <2>3. CASE kind # "single"
    <3>1. /\ Moves(call, "running")
          /\ UNCHANGED <<attempt, aborted, late>>
      BY <2>1, <2>3 DEF Begin
    <3> QED BY <3>1, AbortStays DEF Moves, TypeInv, TypeOK, RetryTypeOK
  <2> QED BY <2>2, <2>3
<1>2. ASSUME NEW call \in Calls, ExecuteRefused(call) \/ ExecuteRemembered(call) PROVE AbortInv'
  BY <1>2, AbortStays
     DEF ExecuteRefused, ExecuteRemembered, Moves, TypeInv, TypeOK, RetryTypeOK
<1>3. ASSUME NEW call \in Calls, TrySucceeds(call) \/ TryFails(call) \/ Watchdog(call)
      PROVE  AbortInv'
  <2>1. ~aborted /\ UNCHANGED <<aborted, late>>
    BY <1>3 DEF TrySucceeds, TryFails, Watchdog, Answers, TimesOut
  <2> QED BY <2>1 DEF AbortInv, RaceInv
<1>4. ASSUME NEW call \in Calls, TryThrows(call) PROVE AbortInv'
  <2>1. phase[call] = "thrown" /\ UNCHANGED <<aborted, late>>
    BY <1>4 DEF TryThrows, Throws
  <2>2. \A other \in Calls \ {call} : phase'[other] = phase[other]
    BY <1>4 DEF TryThrows, ErrorManagement, TryEnds, Retries, GivesUp, Moves, TypeInv, TypeOK, RetryTypeOK
  <2> QED BY <2>1, <2>2, AbortStays
<1>5. ASSUME NEW call \in Calls, SignalWins(call) PROVE AbortInv'
  BY <1>5, AbortStays DEF SignalWins, IsAborted, Moves, TypeInv, TypeOK, RetryTypeOK
<1>6. ASSUME NEW call \in Calls, TryNext(call) PROVE AbortInv'
  BY <1>6, AbortInvokes DEF TryNext, WaitOver
<1>7. ASSUME NEW call \in Calls, TryStraggles(call) PROVE AbortInv'
  BY <1>7 DEF TryStraggles, Straggle, AbortInv, RaceInv
<1>8. ASSUME NEW call \in Calls, NEW ok \in BOOLEAN, GroupChild(call, ok) \/ SequenceChild(call, ok)
      PROVE  AbortInv'
  <2>1. /\ UNCHANGED <<aborted, late>>
        /\ phase' \in {phase, [phase EXCEPT ![call] = "rejected"], [phase EXCEPT ![call] = "resolved"]}
    BY <1>8 DEF GroupChild, SequenceChild, Child, Settle, Stays, Moves
  <2> QED BY <2>1, AbortStays DEF TypeInv, TypeOK, RetryTypeOK
<1>9. CASE RaiseSignal
  BY <1>9 DEF RaiseSignal, Abort, AbortInv, RaceInv
<1> QED BY <1>0, <1>1, <1>2, <1>3, <1>4, <1>5, <1>6, <1>7, <1>8, <1>9 DEF Next

(* No call makes more attempts than it may, nor enters more than one race  *)
(* after the abort signal, whatever was pending when it was raised.  What  *)
(* throws before it returns a promise is not raced, and is only bounded by *)
(* the attempts.                                                           *)
THEOREM AttemptsBoundAlways == Spec => []AttemptsBound
<1>1. Init => AbortInv
  BY DEF Init, RetryInit, AbortInv, RaceInv
<1>2. TypeInv /\ AbortInv => AttemptsBound
  BY RetryAssumption DEF TypeInv, TypeOK, RetryTypeOK, AbortInv, RaceInv, AttemptsBound
<1> QED BY <1>1, <1>2, NextAbort, AlwaysTypes, PTL DEF Spec
-----------------------------------------------------------------------------
(***************************************************************************)
(* What a step does to a call, of all kinds.                               *)
(***************************************************************************)
Others(call) ==
  \A other \in Calls \ {call} : phase'[other] = phase[other] /\ executed'[other] = executed[other]

Opens(call) ==
  /\ Others(call)
  /\ phase[call] = "none" /\ phase'[call] \in {"trying", "thrown", "running"} /\ executed'[call] = "open"
  /\ UNCHANGED <<strategy, dones, cancels>>
  /\ \/ status = "pending" /\ status' = "running"
     \/ strategy # "failAfterExecuted" /\ status' = "pending"

Closes(call) ==
  /\ Others(call)
  /\ InProgress(call) /\ phase'[call] \in {"resolved", "rejected"}
  /\ executed'[call] \in {"success", "failure"}
  /\ UNCHANGED <<strategy, cancels>> /\ dones' = dones + 1
  /\ status' \in {"completed", "failed", "cancelled"}

GoesOn(call) ==
  /\ Others(call)
  /\ InProgress(call) /\ phase'[call] \in {"trying", "thrown", "waiting", "running"}
  /\ executed'[call] = executed[call]
  /\ UNCHANGED <<strategy, status, dones, cancels>>

IsRefused(call) ==
  /\ Others(call)
  /\ phase[call] = "none" /\ phase'[call] = "rejected" /\ executed'[call] = executed[call]
  /\ UNCHANGED <<strategy, cancels>> /\ dones' = dones + 1
  /\ status' = "failed"

IsRemembered(call) ==
  /\ Others(call)
  /\ phase[call] = "none" /\ phase'[call] = "resolved" /\ executed'[call] = executed[call]
  /\ UNCHANGED <<strategy, dones, cancels, status>> /\ status = "completed"

IsCancelled ==
  /\ UNCHANGED <<phase, executed, strategy>>
  /\ dones' = dones + 1 /\ cancels' = cancels + 1 /\ status' = "cancelled"

CallsStay == UNCHANGED <<phase, executed, strategy, dones, cancels, status>>

LEMMA StepShapes ==
  ASSUME TypeInv, [Next]_vars
  PROVE  \/ CallsStay \/ IsCancelled
         \/ \E call \in Calls : \/ Opens(call) \/ Closes(call) \/ GoesOn(call)
                                \/ IsRefused(call) \/ IsRemembered(call)
<1> USE DEF TypeInv, TypeOK, RetryTypeOK, Others, InProgress
<1>0. CASE UNCHANGED vars \/ Cancel \/ RaiseSignal
  BY <1>0 DEF Cancel, RaiseSignal, Abort, vars, retryVars, handlerVars, CallsStay, IsCancelled
<1>1. ASSUME NEW call \in Calls, ExecutePending(call) \/ ExecuteAgain(call) PROVE Opens(call)
  <2>1. /\ phase[call] = "none" /\ Begin(call)
        /\ \/ status = "pending" /\ status' = "running"
           \/ strategy # "failAfterExecuted" /\ status' = "pending"
    BY <1>1 DEF ExecutePending, ExecuteAgain, IsNext, Refuses
  <2>2. /\ \E to \in {"trying", "thrown", "running"} : phase' = [phase EXCEPT ![call] = to]
        /\ executed' = [executed EXCEPT ![call] = "open"]
        /\ UNCHANGED <<strategy, dones, cancels>>
    BY <2>1 DEF Begin, Invoke, Race, Moves
  <2> QED BY <2>1, <2>2 DEF Opens
<1>2. ASSUME NEW call \in Calls, ExecuteRefused(call) PROVE IsRefused(call)
  BY <1>2 DEF ExecuteRefused, IsNext, Moves, IsRefused
<1>3. ASSUME NEW call \in Calls, ExecuteRemembered(call) PROVE IsRemembered(call)
  BY <1>3 DEF ExecuteRemembered, IsNext, Moves, IsRemembered, Remembers, handlerVars
<1>4. ASSUME NEW call \in Calls, TrySucceeds(call) PROVE Closes(call)
  BY <1>4 DEF TrySucceeds, Answers, Moves, Succeed, Closes
<1>5. ASSUME NEW call \in Calls,
             TryFails(call) \/ TryThrows(call) \/ Watchdog(call) \/ SignalWins(call)
      PROVE  Closes(call) \/ GoesOn(call)
  <2>1. phase[call] \in {"trying", "thrown"}
    BY <1>5 DEF TryFails, TryThrows, Watchdog, SignalWins, Answers, Throws, TimesOut, IsAborted
  <2>2. \/ Moves(call, "waiting") /\ UNCHANGED <<handlerVars, executed>>
        \/ Moves(call, "rejected") /\ (Fail(call, "failed") \/ Fail(call, "cancelled"))
    BY <1>5 DEF TryFails, TryThrows, ErrorManagement, Watchdog, SignalWins, TryEnds, Retries, GivesUp,
                IsAborted
  <2> QED BY <2>1, <2>2 DEF Moves, Fail, handlerVars, Closes, GoesOn
<1>6. ASSUME NEW call \in Calls, TryNext(call) PROVE GoesOn(call)
  BY <1>6 DEF TryNext, WaitOver, Invoke, Race, Moves, handlerVars, GoesOn
<1>7. ASSUME NEW call \in Calls, TryStraggles(call) PROVE CallsStay
  BY <1>7 DEF TryStraggles, Straggle, handlerVars, CallsStay
<1>8. ASSUME NEW call \in Calls, NEW ok \in BOOLEAN, GroupChild(call, ok) \/ SequenceChild(call, ok)
      PROVE  Closes(call) \/ CallsStay
  <2>1. /\ phase[call] = "running"
        /\ \/ Stays
           \/ Moves(call, "rejected") /\ Fail(call, "failed")
           \/ Moves(call, "resolved") /\ Succeed(call)
    BY <1>8 DEF GroupChild, SequenceChild, Child, Settle
  <2> QED BY <2>1 DEF Stays, Moves, Fail, Succeed, handlerVars, Closes, CallsStay
<1> QED BY <1>0, <1>1, <1>2, <1>3, <1>4, <1>5, <1>6, <1>7, <1>8 DEF Next
-----------------------------------------------------------------------------
(***************************************************************************)
(* An execution is open as long as its call is in progress.                *)
(***************************************************************************)
ExecInv ==
  \A call \in Calls :
    /\ InProgress(call) <=> executed[call] = "open"
    /\ phase[call] = "none" => executed[call] = "no"

LEMMA NextExec == TypeInv /\ ExecInv /\ [Next]_vars => ExecInv'
<1> SUFFICES ASSUME TypeInv, ExecInv, [Next]_vars PROVE ExecInv'
  OBVIOUS
<1> USE DEF ExecInv, InProgress, Others
<1>1. CASE CallsStay \/ IsCancelled
  BY <1>1 DEF CallsStay, IsCancelled
<1>2. ASSUME NEW call \in Calls, Opens(call) \/ Closes(call) \/ GoesOn(call) PROVE ExecInv'
  BY <1>2 DEF Opens, Closes, GoesOn
<1>3. ASSUME NEW call \in Calls, IsRefused(call) \/ IsRemembered(call) PROVE ExecInv'
  BY <1>3 DEF IsRefused, IsRemembered
<1> QED BY <1>1, <1>2, <1>3, StepShapes

LEMMA AlwaysExec == Spec => [](TypeInv /\ ExecInv)
<1>1. Init => ExecInv
  BY DEF Init, RetryInit, ExecInv, InProgress
<1> QED BY <1>1, NextExec, AlwaysTypes, PTL DEF Spec

(***************************************************************************)
(* One execution.  With failAfterExecuted no call makes the task pending   *)
(* again.                                                                  *)
(***************************************************************************)
OnceInv ==
  strategy = "failAfterExecuted" =>
    /\ status = "pending" => Executed = {}
    /\ \A c, d \in Executed : c = d

LEMMA NextOnce == TypeInv /\ ExecInv /\ OnceInv /\ [Next]_vars => OnceInv'
<1> SUFFICES ASSUME TypeInv, ExecInv, OnceInv, [Next]_vars, strategy' = "failAfterExecuted"
             PROVE  (status' = "pending" => Executed' = {}) /\ \A c, d \in Executed' : c = d
  BY DEF OnceInv
<1> USE DEF Executed, Others
<1>1. CASE CallsStay \/ IsCancelled
  BY <1>1 DEF CallsStay, IsCancelled, OnceInv
<1>2. ASSUME NEW call \in Calls, Opens(call)
      PROVE  (status' = "pending" => Executed' = {}) /\ \A c, d \in Executed' : c = d
  <2>1. status' = "running" /\ Executed = {}
    BY <1>2 DEF Opens, OnceInv
  <2> QED BY <1>2, <2>1 DEF Opens
<1>3. ASSUME NEW call \in Calls,
             Closes(call) \/ GoesOn(call) \/ IsRefused(call) \/ IsRemembered(call)
      PROVE  (status' = "pending" => Executed' = {}) /\ \A c, d \in Executed' : c = d
  <2>1. strategy' = strategy /\ (status' = "pending" => status = "pending")
    BY <1>3 DEF Closes, GoesOn, IsRefused, IsRemembered
  <2>2. executed'[call] # "no" => executed[call] # "no"
    BY <1>3 DEF Closes, GoesOn, IsRefused, IsRemembered, ExecInv
  <2>3. \A other \in Calls \ {call} : executed'[other] = executed[other]
    BY <1>3 DEF Closes, GoesOn, IsRefused, IsRemembered
  <2>4. Executed' \subseteq Executed
    BY <2>2, <2>3
  <2> QED BY <2>1, <2>4 DEF OnceInv
<1> QED BY <1>1, <1>2, <1>3, StepShapes

(* A task that allows one execution is executed once, whatever its calls   *)
(* and cancels are and when they come.                                     *)
THEOREM OneExecutionAlways == Spec => []OneExecution
<1>1. Init => OnceInv
  BY DEF Init, OnceInv, Executed
<1>2. OnceInv => OneExecution
  <2> SUFFICES ASSUME OnceInv, strategy = "failAfterExecuted" PROVE Cardinality(Executed) <= 1
    BY DEF OneExecution
  <2>1. CASE Executed = {}
    BY <2>1, FS_EmptySet
  <2>2. ASSUME NEW c \in Executed PROVE Cardinality(Executed) <= 1
    <3>1. Executed = {c}
      BY DEF OnceInv
    <3> QED BY <3>1, FS_Singleton
  <2> QED BY <2>1, <2>2
<1> QED BY <1>1, <1>2, NextOnce, AlwaysExec, PTL DEF Spec
-----------------------------------------------------------------------------
(***************************************************************************)
(* Every end is told.                                                      *)
(***************************************************************************)
OverCalls == {call \in Calls : Over(call)}
RefusedCalls == {call \in Calls : phase[call] = "rejected" /\ call \notin Executed}

TellInv ==
  /\ IsFiniteSet(OverCalls) /\ IsFiniteSet(RefusedCalls)
  /\ dones = cancels + Cardinality(OverCalls) + Cardinality(RefusedCalls)

(* An unfinished status has a call in progress, if there was any call.     *)
StatusInv ==
  status \in {"pending", "running"} =>
    \/ \A call \in Calls : phase[call] = "none"
    \/ \E call \in Calls : InProgress(call)

LEMMA NextStatus == TypeInv /\ StatusInv /\ [Next]_vars => StatusInv'
<1> SUFFICES ASSUME TypeInv, StatusInv, [Next]_vars PROVE StatusInv'
  OBVIOUS
<1> USE DEF StatusInv, InProgress, Others
<1>1. CASE CallsStay \/ IsCancelled
  BY <1>1 DEF CallsStay, IsCancelled
<1>2. ASSUME NEW call \in Calls, Opens(call) \/ Closes(call) \/ GoesOn(call) PROVE StatusInv'
  BY <1>2 DEF Opens, Closes, GoesOn
<1>3. ASSUME NEW call \in Calls, IsRefused(call) \/ IsRemembered(call) PROVE StatusInv'
  BY <1>3 DEF IsRefused, IsRemembered
<1> QED BY <1>1, <1>2, <1>3, StepShapes

LEMMA NextTell == TypeInv /\ ExecInv /\ TellInv /\ [Next]_vars => TellInv'
<1> SUFFICES ASSUME TypeInv, ExecInv, TellInv, [Next]_vars PROVE TellInv'
  OBVIOUS
<1> USE DEF Others, Over, Executed
<1>0. /\ dones \in Nat /\ cancels \in Nat
      /\ Cardinality(OverCalls) \in Nat /\ Cardinality(RefusedCalls) \in Nat
  BY FS_CardinalityType DEF TellInv, TypeInv, TypeOK
<1>1. CASE CallsStay \/ IsCancelled
  <2>1. OverCalls' = OverCalls /\ RefusedCalls' = RefusedCalls
    BY <1>1 DEF CallsStay, IsCancelled, OverCalls, RefusedCalls
  <2>2. dones' - cancels' = dones - cancels /\ cancels' \in Nat /\ dones' \in Nat
    BY <1>0, <1>1 DEF CallsStay, IsCancelled
  <2> QED BY <1>0, <2>1, <2>2 DEF TellInv
<1>2. ASSUME NEW call \in Calls, Opens(call) \/ GoesOn(call) \/ IsRemembered(call) PROVE TellInv'
  <2>1. \A other \in Calls \ {call} : phase'[other] = phase[other] /\ executed'[other] = executed[other]
    BY <1>2 DEF Opens, GoesOn, IsRemembered
  <2>2. /\ executed[call] \notin {"success", "failure"} /\ executed'[call] \notin {"success", "failure"}
        /\ phase[call] # "rejected" /\ phase'[call] # "rejected"
    BY <1>2 DEF Opens, GoesOn, IsRemembered, ExecInv, InProgress
  <2>3. OverCalls' = OverCalls /\ RefusedCalls' = RefusedCalls
    BY <2>1, <2>2 DEF OverCalls, RefusedCalls
  <2>4. UNCHANGED <<dones, cancels>>
    BY <1>2 DEF Opens, GoesOn, IsRemembered
  <2> QED BY <2>3, <2>4 DEF TellInv
<1>3. ASSUME NEW call \in Calls, Closes(call) PROVE TellInv'
  <2>1. OverCalls' = OverCalls \union {call} /\ call \notin OverCalls
    BY <1>3 DEF Closes, OverCalls, ExecInv
  <2>2. RefusedCalls' = RefusedCalls
    BY <1>3 DEF Closes, RefusedCalls, ExecInv, InProgress
  <2>3. IsFiniteSet(OverCalls') /\ Cardinality(OverCalls') = Cardinality(OverCalls) + 1
    BY <2>1, FS_AddElement DEF TellInv
  <2>4. dones' = dones + 1 /\ cancels' = cancels
    BY <1>3 DEF Closes
  <2> QED BY <1>0, <2>2, <2>3, <2>4 DEF TellInv
<1>4. ASSUME NEW call \in Calls, IsRefused(call) PROVE TellInv'
  <2>1. RefusedCalls' = RefusedCalls \union {call} /\ call \notin RefusedCalls
    BY <1>4 DEF IsRefused, RefusedCalls, ExecInv
  <2>2. OverCalls' = OverCalls
    BY <1>4 DEF IsRefused, OverCalls
  <2>3. IsFiniteSet(RefusedCalls') /\ Cardinality(RefusedCalls') = Cardinality(RefusedCalls) + 1
    BY <2>1, FS_AddElement DEF TellInv
  <2>4. dones' = dones + 1 /\ cancels' = cancels
    BY <1>4 DEF IsRefused
  <2> QED BY <1>0, <2>2, <2>3, <2>4 DEF TellInv
<1> QED BY <1>1, <1>2, <1>3, <1>4, StepShapes

(* A limiter that runs a handler gets back one slot for every execution,   *)
(* refusal and cancel(), and no order of them leaves a task pending for    *)
(* ever: for any number of calls.                                          *)
THEOREM EveryEndIsToldAlways == Spec => []EveryEndIsTold
<1>1. Init => TellInv /\ StatusInv
  <2> SUFFICES ASSUME Init PROVE TellInv /\ StatusInv
    OBVIOUS
  <2>1. OverCalls = {} /\ RefusedCalls = {}
    BY DEF Init, RetryInit, OverCalls, RefusedCalls, Over
  <2> QED BY <2>1, FS_EmptySet DEF Init, RetryInit, TellInv, StatusInv
<1>2. TypeInv /\ TellInv /\ StatusInv => EveryEndIsTold
  BY DEF TellInv, StatusInv, EveryEndIsTold, OverCalls, RefusedCalls, TypeInv, TypeOK
<1> QED BY <1>1, <1>2, NextTell, NextStatus, AlwaysExec, PTL DEF Spec
-----------------------------------------------------------------------------
(***************************************************************************)
(* Groups and sequences: what a call has done of its tasks.                *)
(***************************************************************************)
CallInv(call) ==
  /\ phase[call] \notin {"trying", "thrown", "waiting"}
  /\ phase[call] = "none" => outcomes[call] = {}
  /\ phase[call] = "running" => \A n, ok : <<n, ok>> \in outcomes[call] => n < child[call]
  /\ Failures(call) \subseteq 1 .. LastChild

(* Of a sequence: nothing has failed before finally is reached. *)
SequenceInv(call) ==
  /\ phase[call] = "running" /\ child[call] < 4 => Failures(call) = {}
  /\ 1 \in Failures(call) => \A ok \in BOOLEAN : <<2, ok>> \notin outcomes[call]
  /\ Over(call) =>
       /\ \E ok \in BOOLEAN : <<4, ok>> \in outcomes[call]
       /\ executed[call] = "success" <=> Failures(call) = {}

(* Of a group: the errors that all executions share are those of the call, *)
(* as long as no other call executes it.                                   *)
GroupInv(call) ==
  Executed \subseteq {call} =>
    /\ errors = Cardinality(Failures(call))
    /\ Over(call) => (executed[call] = "failure" <=> GroupRejects(errors))

OutcomeInv ==
  kind # "single" =>
    /\ IsFiniteSet(Executed)
    /\ \A call \in Calls :
         /\ CallInv(call)
         /\ kind = "sequence" => SequenceInv(call)
         /\ kind # "sequence" => GroupInv(call)

(* A step that executes no task of any call leaves a call alone, opens it, *)
(* or answers it at once.                                                  *)
Same(call) ==
  phase'[call] = phase[call] /\ executed'[call] = executed[call] /\ child'[call] = child[call]

Opened(call) ==
  phase[call] = "none" /\ phase'[call] = "running" /\ executed'[call] = "open" /\ child'[call] = 1

Answered(call) ==
  /\ phase[call] = "none" /\ phase'[call] \in {"resolved", "rejected"}
  /\ executed'[call] = executed[call]

LEMMA OutcomeShapes ==
  ASSUME TypeInv, OutcomeInv, kind # "single", [Next]_vars
  PROVE  \/ /\ UNCHANGED <<kind, outcomes, errors>>
            /\ \E call \in Calls : \A other \in Calls \ {call} : Same(other)
            /\ \A call \in Calls : Same(call) \/ Opened(call) \/ Answered(call)
         \/ UNCHANGED <<kind, outcomes, errors, phase, executed, child>>
         \/ \E call \in Calls, ok \in BOOLEAN : GroupChild(call, ok) \/ SequenceChild(call, ok)
<1> DEFINE Quiet == UNCHANGED <<kind, outcomes, errors, phase, executed, child>>
           One(call) == /\ UNCHANGED <<kind, outcomes, errors>>
                        /\ \A other \in Calls \ {call} : Same(other)
                        /\ Opened(call) \/ Answered(call)
<1> USE DEF TypeInv, TypeOK, RetryTypeOK
<1>1. CASE UNCHANGED vars \/ Cancel \/ RaiseSignal
  BY <1>1 DEF Cancel, RaiseSignal, vars, retryVars, handlerVars, partVars
<1>2. ASSUME NEW call \in Calls, ExecutePending(call) \/ ExecuteAgain(call) PROVE One(call)
  <2>1. phase[call] = "none" /\ Begin(call)
    BY <1>2 DEF ExecutePending, ExecuteAgain, IsNext
  <2>2. /\ phase' = [phase EXCEPT ![call] = "running"] /\ child' = [child EXCEPT ![call] = 1]
        /\ executed' = [executed EXCEPT ![call] = "open"] /\ UNCHANGED <<kind, outcomes, errors>>
    BY <2>1 DEF Begin, Moves
  <2> QED BY <2>1, <2>2 DEF Same, Opened
<1>3. ASSUME NEW call \in Calls, ExecuteRefused(call) \/ ExecuteRemembered(call) PROVE One(call)
  BY <1>3 DEF ExecuteRefused, ExecuteRemembered, IsNext, Moves, handlerVars, partVars, Same, Answered
<1>4. ASSUME NEW call \in Calls,
             TrySucceeds(call) \/ TryFails(call) \/ TryThrows(call) \/ Watchdog(call)
             \/ SignalWins(call) \/ TryNext(call)
      PROVE  FALSE
  <2>1. phase[call] \in {"trying", "thrown", "waiting"}
    BY <1>4 DEF TrySucceeds, TryFails, TryThrows, Watchdog, SignalWins, TryNext, Answers, Throws, TimesOut,
                IsAborted, WaitOver
  <2> QED BY <2>1 DEF OutcomeInv, CallInv
<1>5. ASSUME NEW call \in Calls, TryStraggles(call) PROVE Quiet
  BY <1>5 DEF TryStraggles, Straggle, handlerVars, partVars
<1>6. ASSUME NEW call \in Calls, One(call)
      PROVE  /\ UNCHANGED <<kind, outcomes, errors>>
             /\ \E c \in Calls : \A other \in Calls \ {c} : Same(other)
             /\ \A c \in Calls : Same(c) \/ Opened(c) \/ Answered(c)
  BY <1>6
<1> HIDE DEF One
<1> QED BY <1>1, <1>2, <1>3, <1>4, <1>5, <1>6 DEF Next

(* The end of one task of a group or a sequence. *)
LEMMA ChildStep ==
  ASSUME TypeInv, ExecInv, OutcomeInv, NEW call \in Calls, NEW ok \in BOOLEAN,
         GroupChild(call, ok) \/ SequenceChild(call, ok)
  PROVE  /\ kind # "single" /\ kind' = kind
         /\ phase[call] = "running" /\ executed[call] = "open" /\ Executed' = Executed
         /\ child[call] \in 1 .. LastChild /\ child[call] \notin Failures(call)
         /\ outcomes'[call] = outcomes[call] \union {<<child[call], ok>>}
         /\ Failures(call)' = IF ok THEN Failures(call) ELSE Failures(call) \union {child[call]}
         /\ \A other \in Calls \ {call} : Same(other) /\ outcomes'[other] = outcomes[other]
         /\ \A other \in Calls \ {call} : Failures(other)' = Failures(other)
<1> USE TaskAssumption DEF TypeInv, TypeOK, RetryTypeOK
<1>1. /\ kind # "single" /\ phase[call] = "running"
      /\ outcomes' = [outcomes EXCEPT ![call] = @ \union {<<child[call], ok>>}]
      /\ \E next : child' = [child EXCEPT ![call] = next]
  BY DEF GroupChild, SequenceChild, Child
<1>2. \/ Stays
      \/ Moves(call, "rejected") /\ Fail(call, "failed")
      \/ Moves(call, "resolved") /\ Succeed(call)
  BY DEF GroupChild, SequenceChild, Settle
<1>3. executed[call] = "open"
  BY <1>1 DEF ExecInv, InProgress
<1>4. /\ kind' = kind
      /\ \A other \in Calls \ {call} : phase'[other] = phase[other] /\ executed'[other] = executed[other]
      /\ executed'[call] # "no"
  BY <1>2, <1>3 DEF Stays, Moves, Fail, Succeed, handlerVars
<1>5. Executed' = Executed
  BY <1>3, <1>4 DEF Executed
<1>6. child[call] \in 1 .. LastChild /\ LastChild \in 1 .. (Children + 4)
  BY <1>1 DEF CountInv, LastChild
<1>7. child[call] \notin Failures(call)
  <2>1. \A n, o : <<n, o>> \in outcomes[call] => n < child[call]
    BY <1>1 DEF OutcomeInv, CallInv
  <2> QED BY <2>1, <1>6 DEF Failures
<1>8. /\ outcomes'[call] = outcomes[call] \union {<<child[call], ok>>}
      /\ \A other \in Calls \ {call} : outcomes'[other] = outcomes[other]
  BY <1>1
<1>9. Failures(call)' = IF ok THEN Failures(call) ELSE Failures(call) \union {child[call]}
  <2>1. ASSUME NEW n \in 1 .. (Children + 4)
        PROVE  <<n, FALSE>> \in outcomes'[call] <=>
                 <<n, FALSE>> \in outcomes[call] \/ (n = child[call] /\ ~ok)
    BY <1>8
  <2>2. child[call] \in 1 .. (Children + 4)
    BY <1>6
  <2>3. CASE ok
    BY <2>1, <2>3 DEF Failures
  <2>4. CASE ~ok
    BY <2>1, <2>2, <2>4 DEF Failures
  <2> QED BY <2>3, <2>4
<1>10. \A other \in Calls \ {call} : Failures(other)' = Failures(other)
  BY <1>8 DEF Failures
<1> QED BY <1>1, <1>3, <1>4, <1>5, <1>6, <1>7, <1>8, <1>9, <1>10 DEF Same

LEMMA SequenceStep ==
  ASSUME TypeInv, ExecInv, OutcomeInv, NEW call \in Calls, NEW ok \in BOOLEAN, SequenceChild(call, ok)
  PROVE  OutcomeInv'
<1> DEFINE n == child[call]
<1>1. /\ kind = "sequence" /\ kind' = kind /\ LastChild = 4 /\ LastChild' = 4
      /\ phase[call] = "running" /\ executed[call] = "open" /\ Executed' = Executed
      /\ n \in 1 .. 4 /\ n \notin Failures(call)
      /\ outcomes'[call] = outcomes[call] \union {<<n, ok>>}
      /\ Failures(call)' = IF ok THEN Failures(call) ELSE Failures(call) \union {n}
      /\ \A other \in Calls \ {call} : Same(other) /\ outcomes'[other] = outcomes[other]
      /\ \A other \in Calls \ {call} : Failures(other)' = Failures(other)
  <2>1. kind = "sequence"
    BY DEF SequenceChild
  <2>2. LastChild = 4 /\ (kind' = kind => LastChild' = 4)
    BY <2>1 DEF LastChild
  <2> QED BY <2>1, <2>2, ChildStep
<1>2. child'[call] = NextPhase(n, ok) /\ NextPhase(n, ok) \in 2 .. 5 /\ n < NextPhase(n, ok)
  BY <1>1 DEF SequenceChild, Child, TypeInv, TypeOK, NextPhase
<1>3. CallInv(call) /\ SequenceInv(call) /\ IsFiniteSet(Executed)
  BY <1>1 DEF OutcomeInv
<1>4. \/ /\ child'[call] <= 4 /\ phase'[call] = "running" /\ executed'[call] = "open"
      \/ /\ child'[call] = 5 /\ phase'[call] \in {"resolved", "rejected"}
         /\ executed'[call] = IF Failures(call)' # {} THEN "failure" ELSE "success"
  BY <1>1, <1>2 DEF SequenceChild, Stays, Settle, Moves, Fail, Succeed, TypeInv, TypeOK, RetryTypeOK
<1>5. CallInv(call)'
  <2>1. Failures(call)' \subseteq 1 .. LastChild'
    BY <1>1, <1>3 DEF CallInv
  <2>2. \A m, o : <<m, o>> \in outcomes'[call] => m < child'[call]
    <3>1. \A m, o : <<m, o>> \in outcomes[call] => m \in Nat /\ m < n
      BY <1>1, <1>3 DEF CallInv, TypeInv, TypeOK
    <3>2. ASSUME NEW m, NEW o, <<m, o>> \in outcomes'[call] PROVE m < child'[call]
      <4>1. m = n \/ (m \in Nat /\ m < n)
        BY <1>1, <3>1, <3>2
      <4> QED BY <4>1, <1>1, <1>2
    <3> QED BY <3>2
  <2> QED BY <1>4, <2>1, <2>2 DEF CallInv
<1>6. SequenceInv(call)'
  <2>1. phase'[call] = "running" /\ child'[call] < 4 => Failures(call)' = {}
    BY <1>1, <1>2, <1>3 DEF SequenceInv, NextPhase
  <2>2. ASSUME 1 \in Failures(call)', NEW o \in BOOLEAN PROVE <<2, o>> \notin outcomes'[call]
    <3>1. CASE n = 1
      BY <1>1, <1>3, <2>2, <3>1 DEF CallInv
    <3>2. CASE n # 1
      <4>1. 1 \in Failures(call)
        BY <1>1, <2>2, <3>2
      <4>2. n = 4
        BY <1>1, <1>3, <4>1 DEF SequenceInv
      <4> QED BY <1>1, <1>3, <4>1, <4>2 DEF SequenceInv
    <3> QED BY <3>1, <3>2
  <2>3. ASSUME Over(call)'
        PROVE  /\ \E o \in BOOLEAN : <<4, o>> \in outcomes'[call]
               /\ executed'[call] = "success" <=> Failures(call)' = {}
    <3>1. child'[call] = 5
      BY <1>4, <2>3 DEF Over
    <3>2. n = 4
      BY <1>1, <1>2, <3>1 DEF NextPhase
    <3> QED BY <1>1, <1>4, <3>1, <3>2
  <2> QED BY <2>1, <2>2, <2>3 DEF SequenceInv
<1>7. ASSUME NEW other \in Calls \ {call} PROVE CallInv(other)' /\ SequenceInv(other)'
  <2>1. CallInv(other) /\ SequenceInv(other)
    BY <1>1 DEF OutcomeInv
  <2>2. Same(other) /\ outcomes'[other] = outcomes[other] /\ Failures(other)' = Failures(other)
    BY <1>1
  <2> QED BY <1>1, <2>1, <2>2 DEF CallInv, SequenceInv, Same, Over
<1> QED BY <1>1, <1>3, <1>5, <1>6, <1>7 DEF OutcomeInv

LEMMA GroupStep ==
  ASSUME TypeInv, ExecInv, OutcomeInv, NEW call \in Calls, NEW ok \in BOOLEAN, GroupChild(call, ok)
  PROVE  OutcomeInv'
<1> DEFINE n == child[call]
<1>1. /\ kind \in {"group", "groupAtLeastOne"} /\ kind' = kind
      /\ LastChild = Children /\ LastChild' = Children /\ Children \in Nat \ {0}
      /\ phase[call] = "running" /\ executed[call] = "open" /\ Executed' = Executed
      /\ n \in 1 .. Children /\ n \notin Failures(call)
      /\ outcomes'[call] = outcomes[call] \union {<<n, ok>>}
      /\ Failures(call)' = IF ok THEN Failures(call) ELSE Failures(call) \union {n}
      /\ \A other \in Calls \ {call} : Same(other) /\ outcomes'[other] = outcomes[other]
      /\ \A other \in Calls \ {call} : Failures(other)' = Failures(other)
  <2>1. kind \in {"group", "groupAtLeastOne"}
    BY DEF GroupChild
  <2>2. LastChild = Children /\ (kind' = kind => LastChild' = Children)
    BY <2>1 DEF LastChild
  <2> QED BY <2>1, <2>2, ChildStep, TaskAssumption
<1>2. child'[call] = n + 1 /\ errors' = IF ok THEN errors ELSE errors + 1
  BY <1>1 DEF GroupChild, Child, TypeInv, TypeOK
<1>3. CallInv(call) /\ GroupInv(call) /\ IsFiniteSet(Executed) /\ call \in Executed
  BY <1>1 DEF OutcomeInv, Executed
<1>4. \/ phase'[call] = "running" /\ executed'[call] = "open"
      \/ /\ phase'[call] \in {"resolved", "rejected"}
         /\ executed'[call] = IF GroupRejects(errors)' THEN "failure" ELSE "success"
  <2>1. GroupRejects(errors') <=> GroupRejects(errors)'
    BY <1>1 DEF GroupRejects
  <2> QED BY <1>1, <2>1 DEF GroupChild, Stays, Settle, Moves, Fail, Succeed, TypeInv, TypeOK, RetryTypeOK
<1>5. CallInv(call)'
  <2>1. Failures(call)' \subseteq 1 .. LastChild'
    BY <1>1, <1>3 DEF CallInv
  <2>2. \A m, o : <<m, o>> \in outcomes'[call] => m < child'[call]
    <3>1. \A m, o : <<m, o>> \in outcomes[call] => m \in Nat /\ m < n
      BY <1>1, <1>3 DEF CallInv, TypeInv, TypeOK
    <3>2. ASSUME NEW m, NEW o, <<m, o>> \in outcomes'[call] PROVE m < child'[call]
      <4>1. m = n \/ (m \in Nat /\ m < n)
        BY <1>1, <3>1, <3>2
      <4> QED BY <4>1, <1>1, <1>2
    <3> QED BY <3>2
  <2> QED BY <1>4, <2>1, <2>2 DEF CallInv
<1>6. GroupInv(call)'
  <2> SUFFICES ASSUME Executed \subseteq {call}
               PROVE  /\ errors' = Cardinality(Failures(call)')
                      /\ Over(call)' => (executed'[call] = "failure" <=> GroupRejects(errors)')
    BY <1>1 DEF GroupInv
  <2>1. errors = Cardinality(Failures(call)) /\ errors \in Nat
    BY <1>3 DEF GroupInv, TypeInv, TypeOK
  <2>2. IsFiniteSet(Failures(call))
    <3>1. Failures(call) \subseteq 1 .. Children /\ IsFiniteSet(1 .. Children)
      BY <1>1, <1>3, FS_Interval DEF CallInv
    <3> QED BY <3>1, FS_Subset
  <2>3. errors' = Cardinality(Failures(call)')
    <3>1. CASE ok
      BY <1>1, <1>2, <2>1, <3>1
    <3>2. CASE ~ok
      <4>1. Cardinality(Failures(call) \union {n}) = Cardinality(Failures(call)) + 1
        BY <1>1, <2>2, FS_AddElement
      <4> QED BY <1>1, <1>2, <2>1, <3>2, <4>1
    <3> QED BY <3>1, <3>2
  <2> QED BY <1>4, <2>3 DEF Over
<1>7. ASSUME NEW other \in Calls \ {call} PROVE CallInv(other)' /\ GroupInv(other)'
  <2>1. CallInv(other)
    BY <1>1 DEF OutcomeInv
  <2>2. Same(other) /\ outcomes'[other] = outcomes[other] /\ Failures(other)' = Failures(other)
    BY <1>1
  <2>3. ~(Executed' \subseteq {other})
    BY <1>1, <1>3
  <2> QED BY <1>1, <2>1, <2>2, <2>3 DEF CallInv, GroupInv, Same
<1> QED BY <1>1, <1>3, <1>5, <1>6, <1>7 DEF OutcomeInv

LEMMA QuietStep ==
  ASSUME TypeInv, ExecInv, OutcomeInv, kind # "single", UNCHANGED <<kind, outcomes, errors>>,
         IsFiniteSet(Executed'),
         \A call \in Calls : Same(call) \/ Opened(call) \/ Answered(call)
  PROVE  OutcomeInv'
<1>1. LastChild' = LastChild /\ \A call \in Calls : Failures(call)' = Failures(call)
  BY DEF LastChild, Failures
<1>2. Executed \subseteq Executed'
  BY DEF Executed, Same, Opened, Answered, ExecInv
<1>3. ASSUME NEW call \in Calls PROVE CallInv(call)'
  <2>1. CallInv(call)
    BY DEF OutcomeInv
  <2> QED BY <1>1, <2>1 DEF CallInv, Same, Opened, Answered
<1>4. ASSUME NEW call \in Calls, phase[call] = "none"
      PROVE  outcomes[call] = {} /\ Failures(call) = {} /\ executed[call] = "no"
  <2>1. outcomes[call] = {} /\ executed[call] = "no"
    BY <1>4 DEF OutcomeInv, CallInv, ExecInv
  <2> QED BY <2>1 DEF Failures
<1>5. ASSUME NEW call \in Calls PROVE Over(call)' <=> Over(call)
  BY <1>4 DEF Over, Same, Opened, Answered
<1>6. ASSUME NEW call \in Calls, kind = "sequence" PROVE SequenceInv(call)'
  <2>1. SequenceInv(call)
    BY <1>6 DEF OutcomeInv
  <2> QED BY <1>1, <1>4, <1>5, <2>1 DEF SequenceInv, Same, Opened, Answered, Over
<1>7. ASSUME NEW call \in Calls, kind # "sequence" PROVE GroupInv(call)'
  <2>1. GroupInv(call)
    BY <1>7 DEF OutcomeInv
  <2>2. GroupRejects(errors)' <=> GroupRejects(errors)
    BY DEF GroupRejects
  <2> QED BY <1>1, <1>2, <1>4, <1>5, <2>1, <2>2 DEF GroupInv, Same, Opened, Answered, Over
<1> QED BY <1>3, <1>6, <1>7 DEF OutcomeInv

LEMMA NextOutcome == TypeInv /\ ExecInv /\ OutcomeInv /\ [Next]_vars => OutcomeInv'
<1> SUFFICES ASSUME TypeInv, ExecInv, OutcomeInv, [Next]_vars PROVE OutcomeInv'
  OBVIOUS
<1>1. CASE kind = "single"
  <2>1. kind' = kind
    <3>1. ASSUME NEW call \in Calls,
                 \/ ExecutePending(call) \/ ExecuteAgain(call)
                 \/ ExecuteRefused(call) \/ ExecuteRemembered(call)
          PROVE  kind' = kind
      BY <3>1 DEF ExecutePending, ExecuteAgain, ExecuteRefused, ExecuteRemembered, Begin, handlerVars
    <3>2. ASSUME NEW call \in Calls,
                 \/ TrySucceeds(call) \/ TryFails(call) \/ TryThrows(call) \/ Watchdog(call)
                 \/ SignalWins(call) \/ TryNext(call) \/ TryStraggles(call)
          PROVE  kind' = kind
      BY <3>2 DEF TrySucceeds, TryFails, TryThrows, ErrorManagement, Watchdog, SignalWins, TryNext, TryStraggles, TryEnds, Fail,
                  Succeed, handlerVars
    <3>3. ASSUME NEW call \in Calls, NEW ok \in BOOLEAN, GroupChild(call, ok) \/ SequenceChild(call, ok)
          PROVE  kind' = kind
      BY <1>1, <3>3 DEF GroupChild, SequenceChild
    <3>4. CASE Cancel \/ RaiseSignal \/ UNCHANGED vars
      BY <3>4 DEF Cancel, RaiseSignal, vars, handlerVars
    <3> QED BY <3>1, <3>2, <3>3, <3>4 DEF Next
  <2> QED BY <1>1, <2>1 DEF OutcomeInv
<1>2. CASE kind # "single"
  <2>1. ASSUME NEW call \in Calls, NEW ok \in BOOLEAN, GroupChild(call, ok) \/ SequenceChild(call, ok)
        PROVE  OutcomeInv'
    BY <2>1, GroupStep, SequenceStep
  <2>2. CASE UNCHANGED <<kind, outcomes, errors, phase, executed, child>>
    <3>1. Executed' = Executed /\ \A call \in Calls : Same(call)
      BY <2>2 DEF Executed, Same
    <3> QED BY <1>2, <2>2, <3>1, QuietStep DEF OutcomeInv
  <2>3. ASSUME UNCHANGED <<kind, outcomes, errors>>,
               NEW call \in Calls, \A other \in Calls \ {call} : Same(other),
               \A c \in Calls : Same(c) \/ Opened(c) \/ Answered(c)
        PROVE  OutcomeInv'
    <3>1. Executed' \subseteq Executed \union {call}
      BY <2>3 DEF Executed, Same
    <3>2. IsFiniteSet(Executed \union {call})
      BY <1>2, FS_AddElement DEF OutcomeInv
    <3> QED BY <1>2, <2>3, <3>1, <3>2, FS_Subset, QuietStep
  <2> QED BY <1>2, <2>1, <2>2, <2>3, OutcomeShapes
<1> QED BY <1>1, <1>2

LEMMA InitOutcome == Init => OutcomeInv
<1> SUFFICES ASSUME Init PROVE OutcomeInv
  OBVIOUS
<1>1. /\ Executed = {} /\ errors = 0
      /\ \A call \in Calls : /\ phase[call] = "none" /\ outcomes[call] = {} /\ ~Over(call)
                             /\ Failures(call) = {}
  BY DEF Init, RetryInit, Executed, Over, Failures
<1> QED BY <1>1, FS_EmptySet DEF OutcomeInv, CallInv, SequenceInv, GroupInv

(* A group that is executed once rejects exactly when it should, although  *)
(* its executions share their errors; and a sequence, executed any number  *)
(* of times, keeps the order of its phases and never leaves finally out.   *)
THEOREM OutcomeContractAlways == Spec => []OutcomeContract
<1>1. TypeInv /\ OutcomeInv => OutcomeContract
  <2> SUFFICES ASSUME TypeInv, OutcomeInv PROVE OutcomeContract
    OBVIOUS
  <2>1. SequenceContract
    BY DEF OutcomeInv, SequenceInv, SequenceContract
  <2>2. ASSUME Cardinality(Executed) <= 1, NEW call \in Calls,
               kind \in {"group", "groupAtLeastOne"}, Over(call)
        PROVE  executed[call] = "failure" <=>
                 IF kind = "group" THEN Failures(call) # {} ELSE Failures(call) = 1..Children
    <3>1. Executed \subseteq {call}
      <4>1. IsFiniteSet(Executed) /\ call \in Executed
        BY <2>2 DEF OutcomeInv, Over, Executed
      <4>2. IsFiniteSet(Executed \ {call}) /\ Cardinality(Executed \ {call}) = Cardinality(Executed) - 1
        BY <4>1, FS_RemoveElement
      <4>3. Cardinality(Executed \ {call}) \in Nat /\ Cardinality(Executed) \in Nat
        BY <4>1, <4>2, FS_CardinalityType
      <4>4. Executed \ {call} = {}
        BY <2>2, <4>2, <4>3, FS_EmptySet
      <4> QED BY <4>4
    <3>2. /\ errors = Cardinality(Failures(call))
          /\ executed[call] = "failure" <=> GroupRejects(errors)
          /\ Failures(call) \subseteq 1 .. Children
      BY <2>2, <3>1 DEF OutcomeInv, GroupInv, CallInv, LastChild
    <3>3. IsFiniteSet(1 .. Children) /\ Cardinality(1 .. Children) = Children /\ Children \in Nat
      BY FS_Interval, TaskAssumption
    <3>4. IsFiniteSet(Failures(call)) /\ Cardinality(Failures(call)) \in Nat
      BY <3>2, <3>3, FS_Subset, FS_CardinalityType
    <3>5. Cardinality(Failures(call)) > 0 <=> Failures(call) # {}
      BY <3>4, FS_EmptySet
    <3>6. Cardinality(Failures(call)) = Children <=> Failures(call) = 1 .. Children
      BY <3>2, <3>3, FS_Subset
    <3> QED BY <3>2, <3>5, <3>6 DEF GroupRejects
  <2> QED BY <2>1, <2>2 DEF OutcomeContract, GroupOutcome
<1> QED BY <1>1, InitOutcome, NextOutcome, AlwaysExec, PTL DEF Spec
=============================================================================
