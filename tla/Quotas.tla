------------------------------- MODULE Quotas -------------------------------
(***************************************************************************)
(* The limits that are checked first and counted later, with an await in   *)
(* between: the targets of a plan (web/app.py target_add: count, insert),  *)
(* the reports of a user (web/routers/bug_bounty.py: count, send, record), *)
(* the failed logins of an address (web/auth.py, in the memory of one      *)
(* worker: check, look up and hash, record), and the daily tokens of a     *)
(* process (modules/ai/groq_analyzer.py: would_exceed, call, record).      *)
(* A meter is one counter: one user's targets, one user's reports, one     *)
(* worker's list for one address, one process's token window.              *)
(***************************************************************************)
EXTENDS FiniteSets, Naturals

CONSTANTS
  TargetMeters, ReportMeters, LoginMeters, TokenMeters,
  QuotaCap,       \* the limit of each meter
  Requesters    \* the requests that may be under way together

Meters == TargetMeters \cup ReportMeters \cup LoginMeters \cup TokenMeters

ASSUME QuotaAssumption ==
  /\ ReportMeters \cap (TargetMeters \cup LoginMeters \cup TokenMeters) = {}
  /\ QuotaCap \in [Meters -> Nat \ {0}]
  /\ IsFiniteSet(Requesters) /\ Requesters # {}

VARIABLES
  used,     \* what each meter counts
  passed,   \* the meter whose check each request has passed, or Waiting
  confirmed \* the requests whose report carries the token of its preview

quotaVars == <<used, passed, confirmed>>

CONSTANT Waiting
ASSUME WaitingAssumption == Waiting \notin Meters

QuotaInit ==
  /\ used = [m \in Meters |-> 0]
  /\ passed = [r \in Requesters |-> Waiting]
  /\ confirmed = {}

-----------------------------------------------------------------------------

\* Mutant of Free.
FreeAtLimit(m) == used[m] <= QuotaCap[m]

\* Every check compares what is counted now; what is in flight is not.
Free(m) == used[m] < QuotaCap[m]

Passes(r, m) ==
  /\ passed[r] = Waiting
  /\ Free(m)
  /\ passed' = [passed EXCEPT ![r] = m]
  /\ UNCHANGED used

Settles(r, n) ==
  /\ used' = [used EXCEPT ![passed[r]] = n]
  /\ passed' = [passed EXCEPT ![r] = Waiting]

CountTargets(r) == \E m \in TargetMeters : Passes(r, m) /\ UNCHANGED confirmed
CheckRateLimit(r) == \E m \in LoginMeters : Passes(r, m) /\ UNCHANGED confirmed
WouldExceed(r) == \E m \in TokenMeters : Passes(r, m) /\ UNCHANGED confirmed

\* h1_submit, bc_submit: the quota comes first, then the confirmation.
EnforceSubmissionQuota(r) ==
  \E m \in ReportMeters : Passes(r, m) /\ UNCHANGED confirmed

\* _require_confirmation: the token of h1_submit_preview or bc_submit_preview
\* for this very report; anything else is answered 400.
RequireConfirmation(r) ==
  /\ passed[r] \in ReportMeters
  /\ r \notin confirmed
  /\ confirmed' = confirmed \cup {r}
  /\ UNCHANGED <<used, passed>>

InsertTarget(r) ==
  /\ passed[r] \in TargetMeters
  /\ Settles(r, used[passed[r]] + 1)
  /\ UNCHANGED confirmed

\* _record_submission: whatever the platform answered, an error included.
RecordSubmission(r) ==
  /\ passed[r] \in ReportMeters
  /\ r \in confirmed
  /\ Settles(r, used[passed[r]] + 1)
  /\ confirmed' = confirmed \ {r}

RecordFailedAttempt(r) ==
  /\ passed[r] \in LoginMeters
  /\ Settles(r, used[passed[r]] + 1)
  /\ UNCHANGED confirmed

\* A login that succeeds forgets the failures, those recorded since its check too.
ClearAttempts(r) ==
  /\ passed[r] \in LoginMeters
  /\ Settles(r, 0)
  /\ UNCHANGED confirmed

\* analyze_findings: the estimate is recorded once the answer is here.
RecordTokens(r) ==
  /\ passed[r] \in TokenMeters
  /\ Settles(r, used[passed[r]] + 1)
  /\ UNCHANGED confirmed

\* The request ends without a record: an invalid body, a failed commit, a
\* model call that raised, a process that died.
Abandon(r) ==
  /\ passed[r] # Waiting
  /\ Settles(r, used[passed[r]])
  /\ confirmed' = confirmed \ {r}

\* A target is deleted, or an entry grows older than the window.
OneLess(m) ==
  /\ used[m] > 0
  /\ used' = [used EXCEPT ![m] = @ - 1]
  /\ UNCHANGED <<passed, confirmed>>

DeleteTarget(m) == m \in TargetMeters /\ OneLess(m)
WindowPasses(m) == m \in Meters \ TargetMeters /\ OneLess(m)

QuotaNext ==
  \/ \E r \in Requesters :
       \/ CountTargets(r) \/ CheckRateLimit(r) \/ WouldExceed(r)
       \/ EnforceSubmissionQuota(r) \/ RequireConfirmation(r)
       \/ InsertTarget(r) \/ RecordSubmission(r) \/ RecordFailedAttempt(r)
       \/ ClearAttempts(r) \/ RecordTokens(r) \/ Abandon(r)
  \/ \E m \in Meters : DeleteTarget(m) \/ WindowPasses(m)

QuotaSpec == QuotaInit /\ [][QuotaNext]_quotaVars

-----------------------------------------------------------------------------

QuotaTypeOK ==
  /\ used \in [Meters -> Nat]
  /\ passed \in [Requesters -> Meters \cup {Waiting}]
  /\ confirmed \subseteq {r \in Requesters : passed[r] \in ReportMeters}

InFlight(m) == {r \in Requesters : passed[r] = m}

\* A limit is overshot by no more than the requests that can be between
\* their check and their record: what is counted, together with what is in
\* flight, stays below the limit plus the number of requests.  (Nothing in
\* the code makes it the limit itself.)
OvershootIsInFlight ==
  \A m \in Meters :
    used[m] + Cardinality(InFlight(m)) < QuotaCap[m] + Cardinality(Requesters)
=============================================================================
