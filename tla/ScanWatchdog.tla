----------------------------- MODULE ScanWatchdog -----------------------------
(***************************************************************************)
(* The whole of modules/scan_watchdog at work: the scans of ScanLifecycle, *)
(* and the sweep that closes the orphaned ones, run by whichever process   *)
(* holds the lock of SchedulerLease.  The processes that serve requests    *)
(* and run scans are the ones whose timers fire the sweep, so one crash    *)
(* loses the scan tasks of a process and leaves its lock behind at once.   *)
(***************************************************************************)
EXTENDS ScanLifecycle

CONSTANTS NoOne, LockStale, MaxLag, DbMayFail

\* What SchedulerLease assumes of its constants.
ASSUME WatchdogAssumption ==
  /\ NoOne \notin Procs
  /\ LockStale \in Nat /\ MaxLag \in Nat
  /\ DbMayFail \in BOOLEAN

VARIABLES rowExists, lockedBy, lockAge, pc, since

Lock == INSTANCE SchedulerLease WITH Workers <- Procs

lockVars == <<rowExists, lockedBy, lockAge, pc, since>>
sysVars  == <<scanVars, lockVars>>

SysInit == ScanInit /\ Lock!LeaseInit

\* One sweep: its UPDATEs commit, and the finally clause comes next.
Sweep(p) == Reap /\ Lock!FinishBody(p)

\* The sweep's session raises and is rolled back: logged, and released too.
SweepFails(p) == Lock!FinishBody(p) /\ UNCHANGED scanVars

\* Taking and giving back the lock leaves the scans alone.
LockStep(p) ==
  /\ \/ Lock!Start(p) \/ Lock!Acquire(p) \/ Lock!ReleaseLock(p)
     \/ Lock!LogCrash(p) \/ Lock!DbError(p) \/ Lock!LostAck(p)
  /\ UNCHANGED scanVars

\* A request is served by a process that is up.
Serve(s, p) == Lock!Alive(p) /\ Request(s, p) /\ UNCHANGED lockVars

RunTask(s) == TaskStep(s) /\ UNCHANGED lockVars

Delete(s) == DeleteScan(s) /\ UNCHANGED lockVars

CrashProcess(p) == CrashTasks(p) /\ Lock!Crash(p)

Clock == TickScans /\ Lock!Tick

SysNext ==
  \/ \E p \in Procs :
       \/ Sweep(p) \/ SweepFails(p) \/ LockStep(p) \/ CrashProcess(p)
       \/ \E s \in Scans : Serve(s, p)
  \/ \E s \in Scans : RunTask(s) \/ Delete(s)
  \/ Clock

SysSpec == SysInit /\ [][SysNext]_sysVars

-----------------------------------------------------------------------------
\* Fairness: the clock never stops for good, a process goes on with its timers
\* and its sweep, and a task's steps and transactions come to an end.  Triage
\* alone may wait for ever.  A sweep that is tried over and over does not fail
\* every time; calls about the lock that fail now and then are the subject of
\* SchedulerLease's own fairness, and excluded here by DbMayFail = FALSE.
SysFairness ==
  /\ SF_sysVars(Clock)
  /\ \A p \in Procs :
       /\ SF_sysVars(Sweep(p))
       /\ WF_sysVars(/\ Lock!Acquire(p) \/ Lock!ReleaseLock(p) \/ Lock!LogCrash(p)
                     /\ UNCHANGED scanVars)
  /\ \A s \in Scans :
       WF_sysVars(stage[s] # "triage" /\ RunTask(s))

FairSysSpec == SysSpec /\ SysFairness

\* Every scan that was accepted is closed in the end, though its process dies
\* at the worst moment and takes the sweep's lock with it, as long as some
\* process is left to sweep.
EveryScanCloses ==
  \A s \in Scans :
    status[s] \in {"pending", "running"} ~>
      \/ status[s] \in {"done", "failed", "deleted"}
      \/ \A p \in Procs : ~Lock!Alive(p)

\* Closed by the watchdog in this step; and p ending its sweep in this step, named
\* by the lock's row or past its lease.
Reaped(s) ==
  /\ status[s] \in {"pending", "running"}
  /\ status'[s] = "failed"
  /\ error'[s] = "watchdog"

LeasedSweep(p) ==
  /\ pc[p] = "body" /\ pc'[p] = "release"
  /\ lockedBy = p \/ since[p] > LockStale

\* A scan is closed as orphaned only by a process whose claim of the lock still
\* stands, or that has overstayed its lease; and only past the watchdog's patience,
\* when no bounded step of its task goes on: whatever died before, on either side,
\* and left its lock or its scan behind.
OnlyLeasedSweepsClose ==
  [][\A s \in Scans : Reaped(s) =>
       /\ age[s] > ScanStale /\ stage[s] \notin Bounded
       /\ \E p \in Procs : LeasedSweep(p)]_sysVars
=============================================================================
