---------------------------- MODULE TaskHandler -----------------------------
(***************************************************************************)
(* A task handler, packages/api/tasks/src/Tasks: the class TaskHandler and *)
(* its three kinds.  The handler is executed by several calls, one after   *)
(* the other or together, and may be cancelled; its retry strategy says    *)
(* what a call does to a task that was executed before.                    *)
(*                                                                         *)
(*   - a single task runs a function with retry (module Retry);            *)
(*   - a group runs its tasks in order, whatever becomes of them;          *)
(*   - a sequence runs the phases pre, task, post and finally, of one task *)
(*     each here; a failure skips to finally.                              *)
(*                                                                         *)
(* The tasks of a group or a sequence are handlers themselves; here each   *)
(* one succeeds or fails as it likes, in every execution.                  *)
(***************************************************************************)
EXTENDS Retry

CONSTANTS
  Children,        \* number of tasks of a group
  MaxCancels,      \* bound on the calls of cancel()
  KindChoice,      \* the kinds that are looked at
  StrategyChoice   \* the retry strategies that are looked at

Kinds == {"single", "group", "groupAtLeastOne", "sequence"}
Strategies == {"retry", "failAfterSuccess", "failAfterExecuted", "notExecAfterSuccess"}

ASSUME TaskAssumption ==
  /\ Calls \subseteq Nat
  /\ Children \in Nat \ {0}
  /\ MaxCancels \in Nat
  /\ KindChoice \subseteq Kinds
  /\ StrategyChoice \subseteq Strategies

VARIABLES
  kind,       \* the class of the handler
  strategy,   \* options.retryStrategy
  status,     \* status
  child,      \* the task of a group, or the phase of a sequence, a call is at
  results,    \* length of Group.results, which all the executions share
  errors,     \* length of Group.error.causes, which they share too
  dones,      \* number of 'done' events
  cancels,    \* number of calls of cancel()
  outcomes,   \* history: the tasks that a call executed, and whether they succeeded
  executed    \* history: the calls that executed something, and their outcome

handlerVars == <<kind, strategy, status, dones, cancels>>
partVars == <<child, results, errors, outcomes>>
vars == <<retryVars, handlerVars, partVars, executed>>

InProgress(call) == phase[call] \in {"trying", "thrown", "waiting", "running"}

TypeOK ==
  /\ RetryTypeOK
  /\ kind \in Kinds /\ strategy \in Strategies
  /\ status \in {"pending", "running", "completed", "cancelled", "failed"}
  /\ child \in [Calls -> 0..(Children + 5)]
  /\ results \in Nat /\ errors \in Nat /\ dones \in Nat
  /\ cancels \in 0..MaxCancels
  /\ outcomes \in [Calls -> SUBSET ((1..(Children + 4)) \X BOOLEAN)]
  /\ executed \in [Calls -> {"no", "open", "success", "failure"}]

Init ==
  /\ RetryInit
  /\ kind \in KindChoice /\ strategy \in StrategyChoice
  /\ status = "pending"
  /\ child = [call \in Calls |-> 0]
  /\ results = 0 /\ errors = 0 /\ dones = 0 /\ cancels = 0
  /\ outcomes = [call \in Calls |-> {}]
  /\ executed = [call \in Calls |-> "no"]
-----------------------------------------------------------------------------
(* Mutants: onSuccess forgets the status; a task that is cancelled tells   *)
(* nobody.                                                                 *)
SucceedSilently(call) ==
  /\ dones' = dones + 1
  /\ executed' = [executed EXCEPT ![call] = "success"]
  /\ UNCHANGED <<status, kind, strategy, cancels>>

FailQuietly(call, as) ==
  /\ status' = as
  /\ dones' = IF as = "cancelled" THEN dones ELSE dones + 1
  /\ executed' = [executed EXCEPT ![call] = "failure"]
  /\ UNCHANGED <<kind, strategy, cancels>>

(* onSuccess and onError, whose 'done' a limiter waits for. *)
Succeed(call) ==
  /\ status' = "completed"
  /\ dones' = dones + 1
  /\ executed' = [executed EXCEPT ![call] = "success"]
  /\ UNCHANGED <<kind, strategy, cancels>>

Fail(call, as) ==
  /\ status' = as
  /\ dones' = dones + 1
  /\ executed' = [executed EXCEPT ![call] = "failure"]
  /\ UNCHANGED <<kind, strategy, cancels>>

(* _execute() of the three kinds. *)
Begin(call) ==
  /\ executed' = [executed EXCEPT ![call] = "open"]
  /\ IF kind = "single"
     THEN Invoke(call) /\ UNCHANGED child
     ELSE /\ child' = [child EXCEPT ![call] = 1]
          /\ Moves(call, "running")
          /\ UNCHANGED <<attempt, inFlight, aborted, late>>
  /\ UNCHANGED <<kind, strategy, dones, cancels, results, errors, outcomes>>

(* The calls are made in their order. *)
IsNext(call) ==
  /\ phase[call] = "none"
  /\ \A other \in Calls : other < call => phase[other] # "none"

(* execute() of a task that was not executed, or that waits for its end in *)
(* a further execution: onRetry makes a task pending again.                *)
ExecutePending(call) ==
  /\ IsNext(call)
  /\ status = "pending"
  /\ status' = "running"
  /\ Begin(call)

(* Mutant: a task that failed may be executed again. *)
RefusesSuccess ==
  strategy \in {"failAfterExecuted", "failAfterSuccess"} /\ status = "completed"

(* shouldBeExecuted: what the strategy refuses, answers from memory, or    *)
(* lets run again.                                                         *)
Refuses ==
  \/ strategy = "failAfterExecuted"
  \/ strategy = "failAfterSuccess" /\ status = "completed"

Remembers == strategy = "notExecAfterSuccess" /\ status = "completed"

ExecuteRefused(call) ==
  /\ IsNext(call)
  /\ status # "pending" /\ Refuses
  /\ status' = "failed"
  /\ dones' = dones + 1
  /\ Moves(call, "rejected")
  /\ UNCHANGED <<attempt, inFlight, aborted, late, kind, strategy,
                 cancels, partVars, executed>>

ExecuteRemembered(call) ==
  /\ IsNext(call)
  /\ status # "pending" /\ Remembers
  /\ Moves(call, "resolved")
  /\ UNCHANGED <<attempt, inFlight, aborted, late, handlerVars,
                 partVars, executed>>

ExecuteAgain(call) ==
  /\ IsNext(call)
  /\ status # "pending" /\ ~Refuses /\ ~Remembers
  /\ status' = "pending"
  /\ Begin(call)

(* cancel() tells that the task is cancelled, and stops nothing. *)
Cancel ==
  /\ cancels < MaxCancels
  /\ cancels' = cancels + 1
  /\ status' = "cancelled"
  /\ dones' = dones + 1
  /\ UNCHANGED <<retryVars, kind, strategy, partVars, executed>>
-----------------------------------------------------------------------------
(* A single task. *)
TrySucceeds(call) ==
  /\ Answers(call)
  /\ Moves(call, "resolved")
  /\ Succeed(call)
  /\ UNCHANGED partVars

(* Another attempt, or none because the attempts are used up. *)
TryEnds(call) ==
  \/ Retries(call) /\ UNCHANGED <<handlerVars, executed>>
  \/ GivesUp(call) /\ Fail(call, "failed")

(* Some errors allow no other attempt; 'AbortError' cancels the task. *)
ErrorManagement(call) ==
  /\ \/ TryEnds(call)
     \/ Moves(call, "rejected") /\ (Fail(call, "failed") \/ Fail(call, "cancelled"))
  /\ UNCHANGED partVars

TryFails(call) == Answers(call) /\ ErrorManagement(call)

TryThrows(call) == Throws(call) /\ ErrorManagement(call)

Watchdog(call) ==
  /\ TimesOut(call)
  /\ TryEnds(call)
  /\ UNCHANGED partVars

SignalWins(call) ==
  /\ IsAborted(call)
  /\ Fail(call, "cancelled")
  /\ UNCHANGED partVars

TryNext(call) ==
  /\ WaitOver(call)
  /\ UNCHANGED <<handlerVars, partVars, executed>>

TryStraggles(call) ==
  /\ Straggle(call)
  /\ UNCHANGED <<handlerVars, partVars, executed>>

RaiseSignal ==
  /\ kind = "single"
  /\ Abort
  /\ UNCHANGED <<handlerVars, partVars, executed>>
-----------------------------------------------------------------------------
(* The next task of a group or of a sequence, and its outcome. *)
Child(call, ok, next) ==
  /\ phase[call] = "running"
  /\ outcomes' = [outcomes EXCEPT ![call] = @ \union {<<child[call], ok>>}]
  /\ child' = [child EXCEPT ![call] = next]
  /\ UNCHANGED <<attempt, inFlight, aborted, late>>

Settle(call, rejects) ==
  IF rejects
  THEN Moves(call, "rejected") /\ Fail(call, "failed")
  ELSE Moves(call, "resolved") /\ Succeed(call)

Stays == UNCHANGED <<phase, handlerVars, executed>>

(* Mutant: one success is not enough. *)
GroupRejectsAny(n) == n > 0

(* With n errors collected the group rejects. *)
GroupRejects(n) == IF kind = "group" THEN n > 0 ELSE n = Children

GroupChild(call, ok) ==
  /\ kind \in {"group", "groupAtLeastOne"}
  /\ Child(call, ok, child[call] + 1)
  /\ results' = results + 1
  /\ errors' = IF ok THEN errors ELSE errors + 1
  /\ IF child[call] < Children THEN Stays ELSE Settle(call, GroupRejects(errors'))

Failures(call) == {n \in 1..(Children + 4) : <<n, FALSE>> \in outcomes[call]}

(* Mutant: finally is left out when something failed. *)
NextPhaseSkips(n, ok) == IF ok THEN n + 1 ELSE 5

(* The phases are numbered; one that fails skips to finally, the fourth. *)
NextPhase(n, ok) == IF ok \/ n = 4 THEN n + 1 ELSE 4

SequenceChild(call, ok) ==
  /\ kind = "sequence"
  /\ Child(call, ok, NextPhase(child[call], ok))
  /\ UNCHANGED <<results, errors>>
  /\ IF child'[call] <= 4 THEN Stays ELSE Settle(call, Failures(call)' # {})
-----------------------------------------------------------------------------
Next ==
  \/ \E call \in Calls :
       \/ ExecutePending(call) \/ ExecuteAgain(call)
       \/ ExecuteRefused(call) \/ ExecuteRemembered(call)
       \/ TrySucceeds(call) \/ TryFails(call) \/ TryThrows(call)
       \/ Watchdog(call) \/ SignalWins(call) \/ TryNext(call) \/ TryStraggles(call)
       \/ \E ok \in BOOLEAN : GroupChild(call, ok) \/ SequenceChild(call, ok)
  \/ Cancel
  \/ RaiseSignal

(* The timers of retry fire, what is thrown is managed at once, and the    *)
(* tasks of a group or a sequence settle, as bounded as this one.  A       *)
(* function need not settle, nor does anybody have to call execute() or    *)
(* cancel().                                                               *)
Fairness ==
  \A call \in Calls :
    /\ WF_vars(Watchdog(call))
    /\ WF_vars(SignalWins(call))
    /\ WF_vars(TryThrows(call))
    /\ WF_vars(TryNext(call))
    /\ WF_vars(\E ok \in BOOLEAN : GroupChild(call, ok) \/ SequenceChild(call, ok))

Spec == Init /\ [][Next]_vars
FairSpec == Spec /\ Fairness
-----------------------------------------------------------------------------
(***************************************************************************)
(* Properties.                                                             *)
(***************************************************************************)

Executed == {call \in Calls : executed[call] # "no"}
Over(call) == executed[call] \in {"success", "failure"}

(* README.md: with failAfterExecuted "the task will allow only one         *)
(* execution", also while the first one is under way.                      *)
OneExecution == strategy = "failAfterExecuted" => Cardinality(Executed) <= 1

(* Every execution, every refusal and every cancel() tells its end once:   *)
(* a limiter gives a slot back at each 'done'.  Only a call that is        *)
(* answered from memory tells nothing.  And when nothing is in progress    *)
(* the status is a final one: no order of the calls, and no cancel()       *)
(* between them, leaves a task pending or running for ever, which          *)
(* shouldBeExecuted would take for one never executed.                     *)
EveryEndIsTold ==
  /\ dones = cancels
             + Cardinality({call \in Calls : Over(call)})
             + Cardinality({call \in Calls : phase[call] = "rejected" /\ call \notin Executed})
  /\ (/\ \A call \in Calls : ~InProgress(call)
      /\ \E call \in Calls : phase[call] # "none")
     => status \in {"completed", "failed", "cancelled"}

(* An execution of a group fails when one of its tasks failed in it, or,   *)
(* with atLeastOne, when all of them did.                                  *)
GroupOutcome ==
  \A call \in Calls :
    (kind \in {"group", "groupAtLeastOne"} /\ Over(call)) =>
      (executed[call] = "failure" <=>
         IF kind = "group" THEN Failures(call) # {} ELSE Failures(call) = 1..Children)

(* A sequence executes finally whatever failed before, its task only after *)
(* a successful pre, and it succeeds when nothing failed.                  *)
SequenceContract ==
  \A call \in Calls :
    (kind = "sequence" /\ Over(call)) =>
      /\ \E ok \in BOOLEAN : <<4, ok>> \in outcomes[call]
      /\ 1 \in Failures(call) => \A ok \in BOOLEAN : <<2, ok>> \notin outcomes[call]
      /\ executed[call] = "success" <=> Failures(call) = {}

(* Both hold, the first one as long as the group is executed once. *)
OutcomeContract ==
  /\ Cardinality(Executed) <= 1 => GroupOutcome
  /\ SequenceContract

(* The attempts and the watchdog bound every call: it settles, even if no  *)
(* function ever does.                                                     *)
EveryCallSettles ==
  HasTimeout => \A call \in Calls : InProgress(call) ~> ~InProgress(call)

(* RetryStrategy.t.ts says of failAfterSuccess that the task "will rejects *)
(* if there are more retries" after the success: nothing is executed when  *)
(* an execution has succeeded.                                             *)
FailsAfterSuccess ==
  [][strategy = "failAfterSuccess" =>
       \A call \in Calls : executed'[call] = "open" =>
         \/ executed[call] = "open"
         \/ \A other \in Calls : executed[other] # "success"]_vars
=============================================================================
