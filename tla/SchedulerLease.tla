---------------------------- MODULE SchedulerLease ----------------------------
(***************************************************************************)
(* The database lock behind every periodic job of the application          *)
(* (modules/scan_watchdog/scheduler.py; modules/darkweb/scheduler.py and   *)
(* modules/ioc/scheduler.py hold copies of the same code).                 *)
(*                                                                         *)
(* Two worker processes fire the same job on their own timers.  A firing   *)
(* SELECTs the job's SchedulerLock row, INSERTs it when there is none,     *)
(* reads its own clock, and then tries to take the lock with one           *)
(* conditional UPDATE.  Each of these is a round trip to the database, so  *)
(* the other worker, the clock and a crash may come in between.            *)
(*                                                                         *)
(* Time is relative: an age counts the ticks since a clock reading and is  *)
(* capped at Horizon, beyond which larger ages need not be told apart.     *)
(***************************************************************************)
EXTENDS Naturals, FiniteSets

CONSTANTS
  Workers,    \* WORKER_IDs; a restarted process has a new one
  NoOne,      \* locked_by is NULL
  LockStale,  \* SCAN_WATCHDOG_LOCK_STALE_HOURS, in ticks
  MaxLag,     \* bound: ticks a firing may spend between its clock reading
              \* and its UPDATE (a statement that takes longer has failed)
  DbMayFail   \* whether a database call may raise, done or not

ASSUME LeaseAssumption ==
  /\ NoOne \notin Workers
  /\ LockStale \in Nat
  /\ MaxLag \in Nat
  /\ DbMayFail \in BOOLEAN

VARIABLES
  rowExists,  \* the job's scheduler_locks row has been inserted
  lockedBy,   \* its locked_by; locked_at is NULL exactly when this is NoOne
  lockAge,    \* ticks since its locked_at
  pc,         \* what each worker process is doing about the job
  since       \* since[w]: ticks since w last read its clock into `now`

leaseVars == <<rowExists, lockedBy, lockAge, pc, since>>

\* The largest age worth telling apart from a larger one.
Horizon == LockStale + MaxLag + 1

Older(age) == IF age < Horizon THEN age + 1 ELSE Horizon

Stages == {"off", "idle", "insert", "claim", "body", "release", "raised",
           "dead"}

LeaseInit ==
  /\ rowExists = FALSE
  /\ lockedBy = NoOne
  /\ lockAge = 0
  /\ pc = [w \in Workers |-> "off"]
  /\ since = [w \in Workers |-> 0]

-----------------------------------------------------------------------------
\* The stages in which w believes that it holds the lock.
InCritical(w) == pc[w] \in {"body", "release"}

Alive(w) == pc[w] \notin {"off", "dead"}

Move(w, from, to) ==
  /\ pc[w] = from
  /\ pc' = [pc EXCEPT ![w] = to]

\* now = datetime.utcnow()
ReadClock(w) == since' = [since EXCEPT ![w] = 0]

\* Mutants of the UPDATE's WHERE: no staleness at all; anybody's lock; the time
\* since the reading of `now' subtracted on the wrong side; <= instead of <.
ClaimableIfFree(w) == rowExists /\ lockedBy = NoOne
ClaimableAlways(w) == rowExists
ClaimableEarly(w) ==
  /\ rowExists
  /\ lockedBy = NoOne \/ lockAge + since[w] > LockStale
ClaimableAtEdge(w) ==
  /\ rowExists
  /\ lockedBy = NoOne \/ lockAge >= since[w] + LockStale

\* The UPDATE's WHERE: the row exists, and locked_at IS NULL or
\* locked_at < now - stale_after.
Claimable(w) ==
  /\ rowExists
  /\ lockedBy = NoOne \/ lockAge > since[w] + LockStale

\* What the three transactions on the row write.
Inserts ==
  /\ ~rowExists
  /\ rowExists' = TRUE
  /\ lockedBy' = NoOne
  /\ UNCHANGED lockAge

Claims(w) ==
  /\ Claimable(w)
  /\ lockedBy' = w
  /\ lockAge' = since[w]
  /\ UNCHANGED rowExists

\* Mutant: the row itself is deleted.
ReleasesByDelete(w) ==
  /\ lockedBy' = IF lockedBy = w THEN NoOne ELSE lockedBy
  /\ rowExists' = (rowExists /\ lockedBy # w)
  /\ UNCHANGED lockAge

Releases(w) ==
  /\ lockedBy' = IF lockedBy = w THEN NoOne ELSE lockedBy
  /\ UNCHANGED <<rowExists, lockAge>>

-----------------------------------------------------------------------------
\* start_scheduler in a freshly started process.
Start(w) ==
  /\ Move(w, "off", "idle")
  /\ UNCHANGED <<rowExists, lockedBy, lockAge, since>>

\* The timer fires; max_instances=1, so never on top of an earlier firing of
\* the same process.  _acquire_lock SELECTs the row.
SelectRow(w) ==
  /\ IF rowExists
     THEN Move(w, "idle", "claim") /\ ReadClock(w)
     ELSE Move(w, "idle", "insert") /\ UNCHANGED since
  /\ UNCHANGED <<rowExists, lockedBy, lockAge>>

\* No row was seen: INSERT one and commit, then read the clock.
InsertRow(w) ==
  /\ Move(w, "insert", "claim")
  /\ Inserts
  /\ ReadClock(w)

\* The other worker inserted it first: job_name is the primary key, and the
\* IntegrityError leaves run_scan_watchdog_sweep.
InsertConflict(w) ==
  /\ rowExists
  /\ Move(w, "insert", "raised")
  /\ UNCHANGED <<rowExists, lockedBy, lockAge, since>>

\* The conditional UPDATE matches one row.
ClaimLock(w) ==
  /\ Move(w, "claim", "body")
  /\ Claims(w)
  /\ UNCHANGED since

\* Mutant: run_scan_watchdog_sweep goes on whatever _acquire_lock returned.
LockIgnored(w) ==
  /\ ~Claimable(w)
  /\ Move(w, "claim", "body")
  /\ UNCHANGED <<rowExists, lockedBy, lockAge, since>>

\* It matches none: the firing is skipped.
LockHeld(w) ==
  /\ ~Claimable(w)
  /\ Move(w, "claim", "idle")
  /\ UNCHANGED <<rowExists, lockedBy, lockAge, since>>

\* The job's own work ends, by returning or by an exception: the finally
\* clause comes next either way.
FinishBody(w) ==
  /\ Move(w, "body", "release")
  /\ UNCHANGED <<rowExists, lockedBy, lockAge, since>>

\* _release_lock clears the row only if w is still named in it.
ReleaseLock(w) ==
  /\ Move(w, "release", "idle")
  /\ Releases(w)
  /\ UNCHANGED since

\* A database call outside the try block raises before it has taken effect:
\* the SELECT, the INSERT, the UPDATE of the claim, or the release.
DbError(w) ==
  /\ DbMayFail
  /\ pc[w] \in {"idle", "insert", "claim", "release"}
  /\ pc' = [pc EXCEPT ![w] = "raised"]
  /\ UNCHANGED <<rowExists, lockedBy, lockAge, since>>

\* The transaction takes effect, but the connection is lost before its COMMIT is
\* acknowledged, and the call raises all the same.
LostAck(w) ==
  /\ DbMayFail
  /\ \/ pc[w] = "insert" /\ Inserts
     \/ pc[w] = "claim" /\ Claims(w)
     \/ pc[w] = "release" /\ Releases(w)
  /\ pc' = [pc EXCEPT ![w] = "raised"]
  /\ UNCHANGED since

\* The exception has left the job; its wrapper on the scheduler's thread logs
\* it, and the timer will fire again.
LogCrash(w) ==
  /\ Move(w, "raised", "idle")
  /\ UNCHANGED <<rowExists, lockedBy, lockAge, since>>

\* The process is killed, between any two database calls.
Crash(w) ==
  /\ Alive(w)
  /\ pc' = [pc EXCEPT ![w] = "dead"]
  /\ UNCHANGED <<rowExists, lockedBy, lockAge, since>>

\* Time passes, but not beyond what a claim under way may take.
Tick ==
  /\ \A w \in Workers : pc[w] = "claim" => since[w] < MaxLag
  /\ lockAge' = Older(lockAge)
  /\ since' = [w \in Workers |-> Older(since[w])]
  /\ UNCHANGED <<rowExists, lockedBy, pc>>

-----------------------------------------------------------------------------
Acquire(w) ==
  \/ SelectRow(w) \/ InsertRow(w) \/ InsertConflict(w)
  \/ ClaimLock(w) \/ LockHeld(w)

Work(w) == Acquire(w) \/ FinishBody(w) \/ ReleaseLock(w) \/ LogCrash(w)

LeaseNext ==
  \/ \E w \in Workers :
       Start(w) \/ Work(w) \/ DbError(w) \/ LostAck(w) \/ Crash(w)
  \/ Tick

LeaseSpec == LeaseInit /\ [][LeaseNext]_leaseVars

-----------------------------------------------------------------------------
\* Fairness.  The clock runs, the timers keep firing, and a database call that
\* is tried over and over does not fail every time; the job's own work comes
\* to an end, for its network calls have timeouts.  Nothing makes a process
\* start, and nothing prevents its crash.
LeaseFairness ==
  /\ SF_leaseVars(Tick)
  /\ \A w \in Workers :
       /\ SF_leaseVars(SelectRow(w))
       /\ WF_leaseVars(InsertConflict(w))
       /\ WF_leaseVars(LockHeld(w))
       /\ WF_leaseVars(LogCrash(w))
       /\ SF_leaseVars(InsertRow(w))
       /\ SF_leaseVars(ClaimLock(w))
       /\ WF_leaseVars(FinishBody(w))
       /\ SF_leaseVars(ReleaseLock(w))

FairLeaseSpec == LeaseSpec /\ LeaseFairness

-----------------------------------------------------------------------------
\* The types; and a worker on its way to the UPDATE, or past it, has its row to
\* update and release, though others release it meanwhile: rows are not deleted.
LeaseTypeOK ==
  /\ rowExists \in BOOLEAN
  /\ lockedBy \in Workers \cup {NoOne}
  /\ lockAge \in 0..Horizon
  /\ pc \in [Workers -> Stages]
  /\ since \in [Workers -> 0..Horizon]
  /\ \A w \in Workers : pc[w] \in {"claim", "body", "release"} => rowExists
  /\ lockedBy # NoOne => rowExists

\* A worker that believes it holds the lock, while the row names another one
\* or nobody, has overstayed its lease.
OnlyLapsedLosesLock ==
  \A w \in Workers :
    InCritical(w) /\ lockedBy # w => since[w] > LockStale

\* Two workers run the job at a time only if the lease of one has lapsed.
NoOverlapWithinLease ==
  \A v, w \in Workers :
    v # w /\ InCritical(v) /\ InCritical(w) =>
      since[v] > LockStale \/ since[w] > LockStale

\* The lock is taken from its holder only by the holder's own release, or
\* once it is stale; a late release never frees another worker's lock.
OnlyReleasedOrStale ==
  [][lockedBy # NoOne /\ lockedBy' # lockedBy =>
       \/ pc[lockedBy] = "release" /\ pc'[lockedBy] \in {"idle", "raised"}
       \/ lockAge > LockStale]_leaseVars

\* run_scan_watchdog_sweep: never raises.
NeverRaises == \A w \in Workers : pc[w] # "raised"

\* A lock whose holder died, or failed to release it, does not stay so for
\* ever while there are workers to take it.
Abandoned(w) == lockedBy = w /\ ~InCritical(w)

NeverWedged ==
  \A w \in Workers :
    Abandoned(w) ~> (~Abandoned(w) \/ \A v \in Workers : ~Alive(v))

\* The job as others see it.
Job == INSTANCE LeasedJob WITH
         runners <- {w \in Workers : InCritical(w)},
         runFor  <- since

ImplementsLeasedJob == Job!JobSpec
=============================================================================
