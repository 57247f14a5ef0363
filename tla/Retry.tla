------------------------------- MODULE Retry --------------------------------
(***************************************************************************)
(* retry and retryBind: packages/api/utils/src/retry/retry.ts.  A call     *)
(* invokes a function until it succeeds, at most Attempts times, and waits *)
(* between the attempts.  An attempt is a race of the function with a      *)
(* watchdog and with an abort signal that all the calls share.  The loser  *)
(* of a race goes on: a function that timed out or was aborted still runs, *)
(* and nobody looks at what becomes of it.                                 *)
(*                                                                         *)
(* The functions answer in three ways when they fail: with an error that   *)
(* is worth another attempt, with one that is not ('IrresolvableError' or  *)
(* 'InterruptionError'), or with an 'AbortError'.  A function that throws  *)
(* before it returns a promise comes to no race: neither the watchdog nor  *)
(* the signal is looked at.  How long a wait takes is left out.            *)
(***************************************************************************)
EXTENDS Integers, FiniteSets

CONSTANTS
  Calls,       \* the calls
  Attempts,    \* options.attempts
  HasTimeout,  \* is options.timeout set?
  CanAbort     \* is there an options.abortSignal that somebody may raise?

ASSUME RetryAssumption ==
  /\ Attempts \in Nat \ {0}
  /\ HasTimeout \in BOOLEAN
  /\ CanAbort \in BOOLEAN

VARIABLES
  phase,     \* of every call; "running" is used by who calls without retry
  attempt,   \* actualAttempt of every call, 0 before the first one
  inFlight,  \* <<call, attempt>> of the functions that still run
  aborted,   \* options.abortSignal.aborted
  late       \* history: the races of every call that began after the signal

retryVars == <<phase, attempt, inFlight, aborted, late>>

Phases == {"none", "trying", "thrown", "waiting", "running", "resolved", "rejected"}

RetryTypeOK ==
  /\ phase \in [Calls -> Phases]
  /\ attempt \in [Calls -> 0..Attempts]
  /\ inFlight \subseteq Calls \X (1..Attempts)
  /\ aborted \in BOOLEAN
  /\ late \in [Calls -> 0..Attempts]

RetryInit ==
  /\ phase = [call \in Calls |-> "none"]
  /\ attempt = [call \in Calls |-> 0]
  /\ inFlight = {}
  /\ aborted = FALSE
  /\ late = [call \in Calls |-> 0]

Moves(call, to) == phase' = [phase EXCEPT ![call] = to]
-----------------------------------------------------------------------------
(* An attempt starts.  The function is invoked even when the signal was    *)
(* raised before; it returns a promise, and the race begins, or it throws. *)
Race(call, n) ==
  /\ inFlight' = inFlight \union {<<call, n>>}
  /\ late' = [late EXCEPT ![call] = IF aborted THEN @ + 1 ELSE @]
  /\ Moves(call, "trying")

Invoke(call) ==
  /\ attempt' = [attempt EXCEPT ![call] = @ + 1]
  /\ \/ Race(call, attempt[call] + 1)
     \/ Moves(call, "thrown") /\ UNCHANGED <<inFlight, late>>
  /\ UNCHANGED aborted

(* The function of the attempt answers before the watchdog and the signal. *)
Answers(call) ==
  /\ phase[call] = "trying"
  /\ <<call, attempt[call]>> \in inFlight
  /\ ~aborted
  /\ inFlight' = inFlight \ {<<call, attempt[call]>>}
  /\ UNCHANGED <<attempt, aborted, late>>

(* What was thrown is managed at once, whether or not the signal was       *)
(* raised.                                                                 *)
Throws(call) ==
  /\ phase[call] = "thrown"
  /\ UNCHANGED <<attempt, inFlight, aborted, late>>

(* The watchdog is first. *)
TimesOut(call) ==
  /\ HasTimeout
  /\ phase[call] = "trying"
  /\ ~aborted
  /\ UNCHANGED <<attempt, inFlight, aborted, late>>

(* Mutant: an abort is an error like any other. *)
IsAbortedOnce(call) ==
  /\ phase[call] = "trying"
  /\ aborted
  /\ Moves(call, IF attempt[call] < Attempts THEN "waiting" ELSE "rejected")
  /\ UNCHANGED <<attempt, inFlight, aborted, late>>

(* The signal is first; the call is over. *)
IsAborted(call) ==
  /\ phase[call] = "trying"
  /\ aborted
  /\ Moves(call, "rejected")
  /\ UNCHANGED <<attempt, inFlight, aborted, late>>

(* Mutant: one attempt too many. *)
RetriesOnceMore(call) == attempt[call] <= Attempts /\ Moves(call, "waiting")

(* errorManagement: the call waits for the next attempt or gives up. *)
Retries(call) == attempt[call] < Attempts /\ Moves(call, "waiting")

GivesUp(call) == attempt[call] >= Attempts /\ Moves(call, "rejected")

(* Mutant: the attempts are not counted. *)
WaitOverUncounted(call) ==
  /\ phase[call] = "waiting"
  /\ Race(call, attempt[call])
  /\ UNCHANGED <<attempt, aborted>>

WaitOver(call) == phase[call] = "waiting" /\ Invoke(call)

(* A function whose attempt lost the race settles; nobody listens. *)
Straggle(call) ==
  \E n \in 1..attempt[call] :
    /\ <<call, n>> \in inFlight
    /\ n < attempt[call] \/ phase[call] # "trying"
    /\ inFlight' = inFlight \ {<<call, n>>}
    /\ UNCHANGED <<phase, attempt, aborted, late>>

Abort ==
  /\ CanAbort /\ ~aborted
  /\ aborted' = TRUE
  /\ UNCHANGED <<phase, attempt, inFlight, late>>
-----------------------------------------------------------------------------
(* A call invokes its function at most as often as its options allow, and  *)
(* after the signal was raised it enters at most one race, which it loses  *)
(* before the function can answer.  (The signal does not stop a function   *)
(* that throws at once: it is invoked as often as the options allow.)      *)
AttemptsBound ==
  \A call \in Calls : attempt[call] <= Attempts /\ late[call] <= 1
=============================================================================
