---------------------------- MODULE TriageBatch ----------------------------
(***************************************************************************)
(* The AI triage of one scan: classify_findings_batch of                   *)
(* modules/ai/triage_engine.py with the TokenBucketLimiter of              *)
(* modules/ai/rate_limiter.py.  One task per finding; a semaphore lets     *)
(* Concurrency of them in; each takes its tokens under the limiter's lock, *)
(* where it may sleep for the minute to pass with the lock in its hand;    *)
(* then it calls the model in a thread.  A spent day ends the batch: it is *)
(* found out by the local window, or from the model's own refusal, which   *)
(* replaces the window (under the same lock) by what the provider reports. *)
(***************************************************************************)
EXTENDS FiniteSets, FiniteSetsExt, Naturals, Sequences, SequencesExt

CONSTANTS
  Findings,
  Tokens,        \* estimate_tokens of each
  Concurrency,   \* GROQ_CONCURRENCY_LIMIT
  TpmLimit,      \* GROQ_TPM_LIMIT
  TpdLimit,      \* GROQ_TPD_LIMIT
  RealUsed       \* what a refusal may report as used of TpdLimit

ASSUME TriageAssumption ==
  /\ IsFiniteSet(Findings) /\ Tokens \in [Findings -> Nat \ {0}]
  /\ Concurrency \in Nat \ {0} /\ TpmLimit \in Nat /\ TpdLimit \in Nat
  /\ RealUsed \subseteq Nat /\ RealUsed # {}

VARIABLES
  task,       \* "waiting", "acquiring", "calling", "seeding", "done"
  verdict,    \* "none", "model", "fallback", "deferred"
  lockQueue,  \* the limiter's lock: its holder, then those who wait for it
  minute,     \* _events, oldest first
  day,        \* _tpd_events: what each entry counts
  exhausted,  \* tpd_exhausted
  counts,     \* succeeded and deferred_tpd
  lateCalls   \* history: calls of the model begun after exhausted was set

triageVars ==
  <<task, verdict, lockQueue, minute, day, exhausted, counts, lateCalls>>

TriageTypeOK ==
  /\ task \in [Findings -> {"waiting", "acquiring", "calling", "seeding", "done"}]
  /\ verdict \in [Findings -> {"none", "model", "fallback", "deferred"}]
  /\ ToSet(lockQueue) = {f \in Findings : task[f] \in {"acquiring", "seeding"}}
  /\ minute \in Seq(Findings)
  /\ day \in Seq(Nat)
  /\ exhausted \in BOOLEAN
  /\ counts \in [succeeded : 0..Cardinality(Findings), deferred_tpd : 0..Cardinality(Findings)]
  /\ lateCalls \in 0..Cardinality(Findings)

TriageInit ==
  /\ task = [f \in Findings |-> "waiting"]
  /\ verdict = [f \in Findings |-> "none"]
  /\ lockQueue = <<>> /\ minute = <<>> /\ day = <<>>
  /\ exhausted = FALSE
  /\ counts = [succeeded |-> 0, deferred_tpd |-> 0]
  /\ lateCalls = 0

-----------------------------------------------------------------------------

Inside == {f \in Findings : task[f] \in {"acquiring", "calling", "seeding"}}

Ends(f, v) ==
  /\ task' = [task EXCEPT ![f] = "done"]
  /\ verdict' = [verdict EXCEPT ![f] = v]

\* _tpd_fallback, and its count.
Deferred(f) ==
  /\ Ends(f, "deferred")
  /\ counts' = [counts EXCEPT !.deferred_tpd = @ + 1]

\* Mutant of StopsAtTheEvent.
StopsNever == FALSE

\* Inside the semaphore, the event is looked at once, before the lock.
StopsAtTheEvent == exhausted

EnterDeferred(f) ==
  /\ task[f] = "waiting" /\ Cardinality(Inside) < Concurrency
  /\ StopsAtTheEvent
  /\ Deferred(f)
  /\ UNCHANGED <<lockQueue, minute, day, exhausted, lateCalls>>

EnterToAcquire(f) ==
  /\ task[f] = "waiting" /\ Cardinality(Inside) < Concurrency
  /\ ~StopsAtTheEvent
  /\ task' = [task EXCEPT ![f] = "acquiring"]
  /\ lockQueue' = Append(lockQueue, f)
  /\ UNCHANGED <<verdict, minute, day, exhausted, counts, lateCalls>>

HasLock(f) == lockQueue # <<>> /\ Head(lockQueue) = f

Sum(s) == FoldSeq(LAMBDA x, y : x + y, 0, s)

\* The day's window is compared only once something is in it.
DaySpent(f) == day # <<>> /\ Sum(day) + Tokens[f] > TpdLimit

\* Mutant of MinuteAdmits.
MinuteAdmitsExactly(f) ==
  Sum([i \in DOMAIN minute |-> Tokens[minute[i]]]) + Tokens[f] <= TpmLimit

\* An empty minute admits a request that is larger than the limit.
MinuteAdmits(f) ==
  minute = <<>> \/ Sum([i \in DOMAIN minute |-> Tokens[minute[i]]]) + Tokens[f] <= TpmLimit

\* TPDExhaustedException: at once, with the lock released.
AcquireRaises(f) ==
  /\ HasLock(f) /\ task[f] = "acquiring" /\ DaySpent(f)
  /\ lockQueue' = Tail(lockQueue)
  /\ exhausted' = TRUE
  /\ Deferred(f)
  /\ UNCHANGED <<minute, day, lateCalls>>

\* Granted, and called.  (A task that MinuteAdmits refuses sleeps where it
\* is, and keeps the lock.)
AcquireGrants(f) ==
  /\ HasLock(f) /\ task[f] = "acquiring" /\ ~DaySpent(f) /\ MinuteAdmits(f)
  /\ lockQueue' = Tail(lockQueue)
  /\ minute' = Append(minute, f)
  /\ day' = Append(day, Tokens[f])
  /\ task' = [task EXCEPT ![f] = "calling"]
  /\ lateCalls' = lateCalls + (IF exhausted THEN 1 ELSE 0)
  /\ UNCHANGED <<verdict, exhausted, counts>>

\* The oldest entry of the minute is pruned.
MinutePasses ==
  /\ minute # <<>>
  /\ minute' = Tail(minute)
  /\ UNCHANGED <<task, verdict, lockQueue, day, exhausted, counts, lateCalls>>

\* The provider's retry-after is over: the seeded entry ages out first.  (The
\* batch's own entries would take a day.)
SeedAges ==
  /\ day # <<>> /\ Head(day) \in RealUsed /\ exhausted
  /\ day' = Tail(day)
  /\ UNCHANGED <<task, verdict, lockQueue, minute, exhausted, counts, lateCalls>>

\* classify_finding never raises: an answer it cannot use, or any other
\* failure of the call, is a fallback, which counts as a success.
CallReturns(f) ==
  /\ task[f] = "calling"
  /\ \E v \in {"model", "fallback"} : Ends(f, v)
  /\ counts' = [counts EXCEPT !.succeeded = @ + 1]
  /\ UNCHANGED <<lockQueue, minute, day, exhausted, lateCalls>>

\* The captured exception is the provider's refusal for the day: the seed
\* needs the lock.
CallRefused(f) ==
  /\ task[f] = "calling"
  /\ task' = [task EXCEPT ![f] = "seeding"]
  /\ lockQueue' = Append(lockQueue, f)
  /\ UNCHANGED <<verdict, minute, day, exhausted, counts, lateCalls>>

\* Mutant of Seed.
SeedUncounted(f) ==
  /\ HasLock(f) /\ task[f] = "seeding"
  /\ lockQueue' = Tail(lockQueue)
  /\ \E real \in RealUsed : day' = <<real>>
  /\ exhausted' = TRUE
  /\ Ends(f, "deferred")
  /\ UNCHANGED <<minute, counts, lateCalls>>

\* seed_real_tpd_usage, and what follows it without an await.
Seed(f) ==
  /\ HasLock(f) /\ task[f] = "seeding"
  /\ lockQueue' = Tail(lockQueue)
  /\ \E real \in RealUsed : day' = <<real>>
  /\ exhausted' = TRUE
  /\ Deferred(f)
  /\ UNCHANGED <<minute, lateCalls>>

TaskStep(f) ==
  \/ EnterDeferred(f) \/ EnterToAcquire(f)
  \/ AcquireRaises(f) \/ AcquireGrants(f)
  \/ CallReturns(f) \/ CallRefused(f) \/ Seed(f)

TriageNext == (\E f \in Findings : TaskStep(f)) \/ MinutePasses \/ SeedAges

TriageSpec == TriageInit /\ [][TriageNext]_triageVars

\* Every task is scheduled, every call ends (its retries are bounded), and
\* minutes pass.
TriageFairness ==
  /\ \A f \in Findings : WF_triageVars(TaskStep(f))
  /\ WF_triageVars(MinutePasses)

-----------------------------------------------------------------------------

Having(v) == {f \in Findings : verdict[f] = v}

\* Every finding that is done has exactly one result, and the summary adds
\* up: a deferral is counted once, whichever of the three places found the
\* day spent; whoever is deferred has a reset time to report.
BatchAccounted ==
  /\ Cardinality(Having("deferred")) = counts.deferred_tpd
  /\ Cardinality(Having("model") \cup Having("fallback")) = counts.succeeded
  /\ Having("none") = {f \in Findings : task[f] # "done"}
  /\ Having("deferred") # {} => exhausted

\* A spent day stops the batch: from then on only those already past the
\* semaphore and the event still reach the model.
SpentDayStops == lateCalls < Concurrency

\* What the batch has left to do: the stations its tasks have before them, and the
\* entries of the two windows, which pass.
Before(stations) == {f \in Findings : task[f] \notin stations}
Work ==
  3 * (  Cardinality(Before({"acquiring", "calling", "seeding", "done"}))
       + Cardinality(Before({"calling", "seeding", "done"}))
       + Cardinality(Before({"seeding", "done"}))
       + Cardinality(Before({"done"})))
  + Len(minute) + Len(day)

\* Every step leaves less to do: no task goes back or tries again, a call enters each
\* window once, and a seed replaces what it finds.  So no batch goes on for ever.
WorkFalls == Work' < Work

\* While a task is not done, something can happen: whoever has the lock can use it, or
\* sleeps for a minute that has entries left to pass, and behind nobody's lock a task
\* is calling or the semaphore is free.  With WorkFalls, what BatchEnds rests on.
BatchCanGoOn ==
  Before({"done"}) # {} =>
    \/ \E f \in Findings : task[f] = "waiting" /\ Cardinality(Inside) < Concurrency
    \/ \E f \in Findings : task[f] = "calling"
    \/ \E f \in Findings : HasLock(f) /\ task[f] = "seeding" /\ RealUsed # {}
    \/ \E f \in Findings : HasLock(f) /\ task[f] = "acquiring" /\ (DaySpent(f) \/ MinuteAdmits(f))
    \/ \E f \in Findings : HasLock(f) /\ task[f] = "acquiring" /\ minute # <<>>

\* Nobody waits for ever, though a task may sleep with the lock that the
\* others, and the seed, wait for.
BatchEnds == \A f \in Findings : <>(task[f] = "done")
=============================================================================
