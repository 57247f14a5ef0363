----------------------------- MODULE PlugWrapper -----------------------------
(***************************************************************************)
(* How the wrapper of a source's plug cleans resolved jobs                 *)
(* (packages/api/firehose, Source/core/PlugWrapper.ts): postConsume() is   *)
(* tried once when a job is done (module Firehose), and the jobs for which *)
(* it failed are tried again by a timer.                                   *)
(*                                                                         *)
(* The plug settles every try, at any time.  It finds a job that it has,   *)
(* which it then has no more, does not find one that it has not, and until *)
(* it recovers it may fail.                                                *)
(***************************************************************************)
EXTENDS Integers, Sequences, FiniteSets, SequencesExt

CONSTANTS
  Jobs,           \* the jobs that are resolved, each at some time
  MaxUnknownJobs, \* postConsumeOptions.maxUnknownJobs
  MaxChecks,      \* bound: checks that run together
  MaxUncleaned    \* bound: length of the list when a check begins, unless the
                  \* plug has recovered and no checks ran together

ASSUME PlugWrapperAssumption ==
  /\ IsFiniteSet(Jobs)
  /\ MaxUnknownJobs \in Nat /\ MaxChecks \in Nat /\ MaxUncleaned \in Nat

VARIABLES
  waiting,    \* the jobs that are not resolved yet
  cleaning,   \* the jobs whose first try runs
  checks,     \* the checks that run: for each entry its job, and what came of it
  uncleaned, unknown,  \* uncleanedEntries and unknownEntries
  interval,   \* is the timer armed?
  known,      \* of the plug: the jobs that it has
  recovered,  \* of the plug: does it never fail any more?
  failing,    \* history: the jobs whose last try failed
  overlapped  \* history: did a check begin while another one ran?

plugVars == <<known, recovered>>
historyVars == <<failing, overlapped>>
vars == <<waiting, cleaning, checks, uncleaned, unknown, interval, plugVars, historyVars>>

Outcomes == {"found", "notFound", "failed"}

TypeOK ==
  /\ waiting \subseteq Jobs /\ cleaning \subseteq Jobs \ waiting
  /\ checks \in Seq(Seq([job : Jobs, outcome : Outcomes \union {"running"}]))
  /\ uncleaned \in Seq(Jobs)
  /\ unknown \in Seq(Jobs) /\ Len(unknown) <= MaxUnknownJobs
  /\ interval \in BOOLEAN
  /\ known \subseteq Jobs /\ failing \subseteq Jobs /\ recovered \in BOOLEAN
  /\ overlapped \in BOOLEAN

Init ==
  /\ waiting = Jobs /\ cleaning = {} /\ checks = <<>>
  /\ uncleaned = <<>> /\ unknown = <<>> /\ interval = FALSE
  /\ known = Jobs /\ recovered = FALSE
  /\ failing = {} /\ overlapped = FALSE
-----------------------------------------------------------------------------
(* A job is done: the first try begins. *)
JobDone(job) ==
  /\ job \in waiting
  /\ waiting' = waiting \ {job}
  /\ cleaning' = cleaning \union {job}
  /\ UNCHANGED <<checks, uncleaned, unknown, interval, plugVars, historyVars>>

(* What a try leaves in the list of unknown jobs, of bounded length, ... *)
Unknown(job, outcome) ==
  IF outcome # "notFound" THEN unknown
  ELSE IF Len(unknown) < MaxUnknownJobs THEN Append(unknown, job)
  ELSE Tail(Append(unknown, job))

(* ... and in that of the uncleaned ones. *)
Uncleaned(job, outcome) ==
  IF outcome = "failed" THEN Append(uncleaned, job) ELSE uncleaned

(* The plug answers. *)
Answers(job, outcome) ==
  /\ \/ outcome = "failed" /\ ~recovered
     \/ outcome = IF job \in known THEN "found" ELSE "notFound"
  /\ known' = IF outcome = "found" THEN known \ {job} ELSE known
  /\ UNCHANGED recovered

Recover ==
  /\ ~recovered /\ recovered' = TRUE
  /\ UNCHANGED <<waiting, cleaning, checks, uncleaned, unknown, interval, known, historyVars>>

PostConsume(job, outcome) ==
  /\ unknown' = Unknown(job, outcome)
  /\ interval' = (interval \/ outcome = "failed")
  /\ failing' = IF outcome = "failed" THEN failing \union {job} ELSE failing \ {job}

(* The first try of a job ends. *)
Cleaned(job, outcome) ==
  /\ job \in cleaning
  /\ cleaning' = cleaning \ {job}
  /\ Answers(job, outcome)
  /\ PostConsume(job, outcome)
  /\ uncleaned' = Uncleaned(job, outcome)
  /\ UNCHANGED <<waiting, checks, overlapped>>

(* The timer: every entry of the list is tried, and the timer is given up  *)
(* when there is none.                                                     *)
CheckPendingJobs ==
  /\ interval /\ Len(checks) < MaxChecks
  /\ Len(uncleaned) <= MaxUncleaned \/ (recovered /\ ~overlapped)
  /\ checks' = IF uncleaned = <<>> THEN checks
               ELSE Append(checks, [i \in DOMAIN uncleaned |->
                                      [job |-> uncleaned[i], outcome |-> "running"]])
  /\ interval' = (uncleaned # <<>>)
  /\ overlapped' = (overlapped \/ checks # <<>>)
  /\ UNCHANGED <<waiting, cleaning, uncleaned, unknown, plugVars, failing>>

(* Mutant: only the last entry leaves, and only its own list. *)
SpliceLast(list, entry) ==
  IF list # <<>> /\ Last(list) = entry.job /\ entry.outcome = "found" THEN Front(list) ELSE list

(* splice() without a count takes the entry and all that follow it; an     *)
(* index of -1 is the last one.                                            *)
Splice(list, entry) ==
  IF entry.outcome # "found" \/ list = <<>> THEN list
  ELSE IF Contains(list, entry.job)
       THEN SubSeq(list, 1, SelectInSeq(list, LAMBDA job : job = entry.job) - 1)
       ELSE Front(list)

(* A try of a check ends; after the last one the list is brought up to date. *)
Checked(c, i, outcome) ==
  /\ c \in DOMAIN checks /\ i \in DOMAIN checks[c] /\ checks[c][i].outcome = "running"
  /\ LET job == checks[c][i].job
         check == [checks[c] EXCEPT ![i].outcome = outcome]
         settled == \A k \in DOMAIN check : check[k].outcome # "running"
     IN  /\ Answers(job, outcome)
         /\ PostConsume(job, outcome)
         /\ checks' = IF settled THEN RemoveAt(checks, c) ELSE [checks EXCEPT ![c] = check]
         /\ uncleaned' = IF settled THEN FoldLeft(Splice, Uncleaned(job, outcome), check)
                         ELSE Uncleaned(job, outcome)
  /\ UNCHANGED <<waiting, cleaning, overlapped>>

Next ==
  \/ \E job \in Jobs : JobDone(job)
  \/ \E job \in Jobs, outcome \in Outcomes : Cleaned(job, outcome)
  \/ CheckPendingJobs \/ Recover
  \/ \E c \in DOMAIN checks : \E i \in DOMAIN checks[c], outcome \in Outcomes : Checked(c, i, outcome)

Tries ==
  \/ \E job \in Jobs, outcome \in Outcomes : Cleaned(job, outcome)
  \/ \E c \in DOMAIN checks : \E i \in DOMAIN checks[c], outcome \in Outcomes : Checked(c, i, outcome)

(* The timer fires and every try ends. *)
Fairness == WF_vars(CheckPendingJobs) /\ WF_vars(Tries)

Spec == Init /\ [][Next]_vars
FairSpec == Spec /\ Fairness
-----------------------------------------------------------------------------
(* Jobs whose cleaning failed are tried again: the timer runs as long as   *)
(* the list has any, whatever tries and checks end in whatever order.      *)
UncleanedIsWatched == uncleaned # <<>> => interval

(* A job that is in the list more than once, or that left it with others,  *)
(* does not keep the wrapper busy for ever: when the plug has recovered,   *)
(* the list drains and the timer ends, unless two checks ran together.     *)
Recovers == []~overlapped => (recovered ~> [](uncleaned = <<>> /\ ~interval))

(* A comment of postConsume() says of a job for which it fails that it "is *)
(* registered as uncleaned and will be removed in the next check": when no *)
(* check runs, the list has every job whose last try failed.               *)
UncleanedIsRegistered == checks = <<>> => failing \subseteq ToSet(uncleaned)
=============================================================================
