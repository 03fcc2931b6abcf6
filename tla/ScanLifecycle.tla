---------------------------- MODULE ScanLifecycle ----------------------------
(***************************************************************************)
(* The life of a scan (web/app.py: run_scan and _run_scan_task; the        *)
(* UPDATE of modules/scan_watchdog/scheduler.py).                          *)
(*                                                                         *)
(* A request inserts a Scan row and starts a background task in its own    *)
(* process.  The task walks through the authorized steps, after each one   *)
(* opening a session that reads the row (db.get) and later commits; in the *)
(* end one transaction stores the findings and closes the row.  Meanwhile  *)
(* the watchdog of any process may mark the row failed, an administrator   *)
(* may delete the scan with its user, and the process may be killed.       *)
(*                                                                         *)
(* The ORM writes only the columns whose value differs from what the       *)
(* session read: `seen' is what the task's open session read as status.    *)
(* The thirteen steps of the code are 1..NSteps, in order, of which        *)
(* VulnSteps are the vulnerability scanners; progress is the number of the *)
(* last step pushed.                                                       *)
(***************************************************************************)
EXTENDS Naturals, FiniteSets

CONSTANTS
  Scans, Procs,
  NSteps, VulnSteps,
  ScanStale,    \* SCAN_WATCHDOG_STALE_TIMEOUT_HOURS, in ticks
  ActiveBound   \* bound: ticks that the steps before triage may take, the sum
                \* of their wait_for timeouts (740 s) rounded up to a tick

Steps == 1..NSteps

ASSUME ScanAssumption ==
  /\ NSteps \in Nat
  /\ VulnSteps \subseteq Steps
  /\ ScanStale \in Nat
  /\ ActiveBound \in 0..ScanStale

VARIABLES
  \* the Scan row and its Finding rows
  status, progress, started, error, completed, results, findings,
  age,          \* ticks since coalesce(started_at, created_at)
  authorized,   \* authz_checks
  \* the background task
  proc,         \* the process that runs it
  stage,        \* how far it is
  step,         \* the step it is in
  how,          \* how that step ended
  seen,         \* the status its open session has read
  gathered      \* its `results' dictionary and `all_vulns' list

rowVars  == <<status, progress, started, error, completed, results, findings,
              age, authorized>>
taskVars == <<proc, stage, step, how, seen, gathered>>
scanVars == <<rowVars, taskVars>>

Statuses == {"none", "pending", "running", "done", "failed", "deleted"}
Stages   == {"none", "queued", "starting", "work", "push", "triage",
             "saving", "failing", "over"}
Entries  == {"none", "data", "timeout"}
Nothing  == [k \in Steps |-> "none"]
Finished == NSteps + 1          \* progress = 100

\* The stages that asyncio.wait_for bounds, step by step.
Bounded == {"queued", "starting", "work", "push"}
Live    == Stages \ {"none", "over"}

Older(a) == IF a <= ScanStale THEN a + 1 ELSE a

ScanInit ==
  /\ status = [s \in Scans |-> "none"]
  /\ progress = [s \in Scans |-> 0]
  /\ started = [s \in Scans |-> FALSE]
  /\ error = [s \in Scans |-> "none"]
  /\ completed = [s \in Scans |-> FALSE]
  /\ results = [s \in Scans |-> Nothing]
  /\ findings = [s \in Scans |-> FALSE]
  /\ age = [s \in Scans |-> 0]
  /\ authorized = [s \in Scans |-> {}]
  /\ proc \in [Scans -> Procs]
  /\ stage = [s \in Scans |-> "none"]
  /\ step = [s \in Scans |-> 0]
  /\ how = [s \in Scans |-> "none"]
  /\ seen = [s \in Scans |-> "none"]
  /\ gathered = [s \in Scans |-> Nothing]

-----------------------------------------------------------------------------
Exists(s) == status[s] \notin {"none", "deleted"}

Goto(s, from, to) ==
  /\ stage[s] = from
  /\ stage' = [stage EXCEPT ![s] = to]

\* db.get(Scan, scan_id) in a new session.
ReadRow(s) == seen' = [seen EXCEPT ![s] = status[s]]

\* Assigning to a column writes it only if the value read was another one.
WriteStatus(s, new) ==
  status' = [status EXCEPT ![s] = IF seen[s] = new THEN status[s] ELSE new]

\* The session read the row, and the row is still there to be updated.
RowKept(s)   == seen[s] # "deleted" /\ Exists(s)
RowMissed(s) == seen[s] = "deleted"

\* Mutant: the steps are not looked up among the authorized ones.
AdvanceUnchecked(s) ==
  LET rest == {k \in Steps : k > step[s]}
  IN  /\ \/ /\ rest = {}
            /\ stage' = [stage EXCEPT ![s] = "triage"]
            /\ UNCHANGED step
         \/ \E k \in rest :
              /\ \A j \in rest : k <= j
              /\ step' = [step EXCEPT ![s] = k]
              /\ stage' = [stage EXCEPT ![s] = "work"]
      /\ how' = [how EXCEPT ![s] = "none"]
      /\ seen' = [seen EXCEPT ![s] = "none"]
      /\ UNCHANGED <<proc, gathered>>

\* The session is closed; on to the next authorized step, or to triage after
\* the last one.
Advance(s) ==
  LET rest == {k \in authorized[s] : k > step[s]}
  IN  /\ \/ /\ rest = {}
            /\ stage' = [stage EXCEPT ![s] = "triage"]
            /\ UNCHANGED step
         \/ \E k \in rest :
              /\ \A j \in rest : k <= j
              /\ step' = [step EXCEPT ![s] = k]
              /\ stage' = [stage EXCEPT ![s] = "work"]
      /\ how' = [how EXCEPT ![s] = "none"]
      /\ seen' = [seen EXCEPT ![s] = "none"]
      /\ UNCHANGED <<proc, gathered>>

\* The task is over; what it held in memory is gone.
Forget(S) ==
  /\ stage' = [s \in Scans |-> IF s \in S THEN "over" ELSE stage[s]]
  /\ step' = [s \in Scans |-> IF s \in S THEN 0 ELSE step[s]]
  /\ how' = [s \in Scans |-> IF s \in S THEN "none" ELSE how[s]]
  /\ seen' = [s \in Scans |-> IF s \in S THEN "none" ELSE seen[s]]
  /\ gathered' = [s \in Scans |-> IF s \in S THEN Nothing ELSE gathered[s]]
  /\ UNCHANGED proc

-----------------------------------------------------------------------------
\* POST /api/scan: authorization, INSERT of a pending row, and a task that
\* waits until the response has been sent.
RunScan(s, p, checks) ==
  /\ status[s] = "none"
  /\ Goto(s, "none", "queued")
  /\ status' = [status EXCEPT ![s] = "pending"]
  /\ age' = [age EXCEPT ![s] = 0]
  /\ authorized' = [authorized EXCEPT ![s] = checks]
  /\ proc' = [proc EXCEPT ![s] = p]
  /\ UNCHANGED <<progress, started, error, completed, results, findings,
                 step, how, seen, gathered>>

\* The task begins: it reads its row ...
BeginTask(s) ==
  /\ Goto(s, "queued", "starting")
  /\ ReadRow(s)
  /\ UNCHANGED <<rowVars, proc, step, how, gathered>>

\* ... and commits status running with a fresh started_at.
CommitStart(s) ==
  /\ stage[s] = "starting"
  /\ RowKept(s)
  /\ WriteStatus(s, "running")
  /\ started' = [started EXCEPT ![s] = TRUE]
  /\ age' = [age EXCEPT ![s] = 0]
  /\ Advance(s)
  /\ UNCHANGED <<progress, error, completed, results, findings, authorized>>

\* `if scan:' found no row; the task goes on all the same.
SkipStart(s) ==
  /\ stage[s] = "starting"
  /\ RowMissed(s)
  /\ Advance(s)
  /\ UNCHANGED rowVars

\* Mutant: no step keeps its timeout.
FinishStepForgetful(s, outcome) ==
  /\ Goto(s, "work", "push")
  /\ how' = [how EXCEPT ![s] = outcome]
  /\ gathered' = IF outcome = "timeout" THEN gathered
                 ELSE [gathered EXCEPT ![s][step[s]] = outcome]
  /\ ReadRow(s)
  /\ UNCHANGED <<rowVars, proc, step>>

\* A step returns or is cut off by its timeout, its outcome is kept in memory
\* (not the timeout of a vulnerability scanner), and push reads the row.
FinishStep(s, outcome) ==
  /\ Goto(s, "work", "push")
  /\ how' = [how EXCEPT ![s] = outcome]
  /\ gathered' =
       IF outcome = "timeout" /\ step[s] \in VulnSteps THEN gathered
       ELSE [gathered EXCEPT ![s][step[s]] = outcome]
  /\ ReadRow(s)
  /\ UNCHANGED <<rowVars, proc, step>>

\* push commits; a scanner that found its way to the end pushes no data.
CommitPush(s) ==
  /\ stage[s] = "push"
  /\ RowKept(s)
  /\ WriteStatus(s, "running")
  /\ progress' = [progress EXCEPT ![s] = step[s]]
  /\ started' = [started EXCEPT ![s] = TRUE]
  /\ results' =
       IF how[s] = "data" /\ step[s] \in VulnSteps THEN results
       ELSE [results EXCEPT ![s][step[s]] = how[s]]
  /\ Advance(s)
  /\ UNCHANGED <<error, completed, findings, age, authorized>>

SkipPush(s) ==
  /\ stage[s] = "push"
  /\ RowMissed(s)
  /\ Advance(s)
  /\ UNCHANGED rowVars

\* Mutant: the findings are committed before the row is closed.
BeginSaveEager(s) ==
  /\ Exists(s)
  /\ Goto(s, "triage", "saving")
  /\ ReadRow(s)
  /\ findings' = [findings EXCEPT ![s] = TRUE]
  /\ UNCHANGED <<status, progress, started, error, completed, results, age,
                 authorized, proc, step, how, gathered>>

\* After the attack path and the AI triage, whose failures are swallowed, one
\* session inserts the findings, mines them for IOCs and reads the row ...
BeginSave(s) ==
  /\ Exists(s)
  /\ Goto(s, "triage", "saving")
  /\ ReadRow(s)
  /\ UNCHANGED <<rowVars, proc, step, how, gathered>>

\* ... and commits the findings together with the closed row.
CommitSave(s) ==
  /\ stage[s] = "saving"
  /\ RowKept(s)
  /\ WriteStatus(s, "done")
  /\ progress' = [progress EXCEPT ![s] = Finished]
  /\ results' = [results EXCEPT ![s] = gathered[s]]
  /\ completed' = [completed EXCEPT ![s] = TRUE]
  /\ findings' = [findings EXCEPT ![s] = TRUE]
  /\ Forget({s})
  /\ UNCHANGED <<started, error, age, authorized>>

\* A deleted scan without findings has nothing to save.
SkipSave(s) ==
  /\ stage[s] = "triage"
  /\ ~Exists(s)
  /\ Forget({s})
  /\ UNCHANGED rowVars

\* Anything raised in the task, by a module, by the database, or by an UPDATE
\* of a row that is gone, ends in the except clause, which reads the row ...
RaiseInTask(s) ==
  /\ stage[s] \in {"starting", "work", "push", "triage", "saving"}
  /\ stage' = [stage EXCEPT ![s] = "failing"]
  /\ ReadRow(s)
  /\ UNCHANGED <<rowVars, proc, step, how, gathered>>

\* ... and closes it as failed.
CommitFail(s) ==
  /\ stage[s] = "failing"
  /\ RowKept(s)
  /\ WriteStatus(s, "failed")
  /\ error' = [error EXCEPT ![s] = "task"]
  /\ completed' = [completed EXCEPT ![s] = TRUE]
  /\ Forget({s})
  /\ UNCHANGED <<progress, started, results, findings, age, authorized>>

\* The handler finds no row, or raises in turn: the task just ends.
HandlerEnds(s) ==
  /\ stage[s] = "failing"
  /\ Forget({s})
  /\ UNCHANGED rowVars

\* The request fails after its INSERT, resolving the scan's network scope:
\* the background task never starts.
LoseTask(s) ==
  /\ stage[s] = "queued"
  /\ Forget({s})
  /\ UNCHANGED rowVars

\* The process dies with the tasks in its memory.
CrashTasks(p) ==
  /\ Forget({s \in Scans : proc[s] = p /\ stage[s] \in Live})
  /\ UNCHANGED rowVars

-----------------------------------------------------------------------------
\* Mutant: scans are orphaned whatever their age.
OrphanedAtOnce(s) == status[s] \in {"pending", "running"}

Orphaned(s) == status[s] \in {"pending", "running"} /\ age[s] > ScanStale

\* The watchdog's UPDATE, for both statuses in one transaction.
Reap ==
  LET stale == {s \in Scans : Orphaned(s)}
  IN  /\ status' = [s \in Scans |->
                      IF s \in stale THEN "failed" ELSE status[s]]
      /\ error' = [s \in Scans |->
                      IF s \in stale THEN "watchdog" ELSE error[s]]
      /\ completed' = [s \in Scans |-> s \in stale \/ completed[s]]
      /\ UNCHANGED <<progress, started, results, findings, age, authorized,
                     taskVars>>

\* An administrator deletes the user: the scan and its findings go with them.
DeleteScan(s) ==
  /\ Exists(s)
  /\ status' = [status EXCEPT ![s] = "deleted"]
  /\ findings' = [findings EXCEPT ![s] = FALSE]
  /\ UNCHANGED <<progress, started, error, completed, results, age,
                 authorized, taskVars>>

\* Mutant: steps without timeouts.
TickScansFreely ==
  /\ age' = [s \in Scans |-> Older(age[s])]
  /\ UNCHANGED <<status, progress, started, error, completed, results,
                 findings, authorized, taskVars>>

\* Time passes, but no further than a task before triage may last, and not
\* within the short transactions that close a scan.
TickScans ==
  /\ \A s \in Scans : stage[s] \notin {"saving", "failing"}
  /\ \A s \in Scans : stage[s] \in Bounded => age[s] < ActiveBound
  /\ age' = [s \in Scans |-> Older(age[s])]
  /\ UNCHANGED <<status, progress, started, error, completed, results,
                 findings, authorized, taskVars>>

-----------------------------------------------------------------------------
TaskStep(s) ==
  \/ LoseTask(s) \/ BeginTask(s) \/ CommitStart(s) \/ SkipStart(s)
  \/ \E outcome \in {"data", "timeout"} : FinishStep(s, outcome)
  \/ CommitPush(s) \/ SkipPush(s)
  \/ BeginSave(s) \/ CommitSave(s) \/ SkipSave(s)
  \/ RaiseInTask(s) \/ CommitFail(s) \/ HandlerEnds(s)

Request(s, p) == \E checks \in (SUBSET Steps) \ {{}} : RunScan(s, p, checks)

ScanNext ==
  \/ \E s \in Scans : TaskStep(s) \/ DeleteScan(s)
  \/ \E s \in Scans, p \in Procs : Request(s, p)
  \/ \E p \in Procs : CrashTasks(p)
  \/ Reap
  \/ TickScans

ScanSpec == ScanInit /\ [][ScanNext]_scanVars

-----------------------------------------------------------------------------
ScanTypes ==
  /\ status \in [Scans -> Statuses]
  /\ progress \in [Scans -> 0..Finished]
  /\ started \in [Scans -> BOOLEAN]
  /\ error \in [Scans -> {"none", "task", "watchdog"}]
  /\ completed \in [Scans -> BOOLEAN]
  /\ results \in [Scans -> [Steps -> Entries]]
  /\ findings \in [Scans -> BOOLEAN]
  /\ age \in [Scans -> 0..(ScanStale + 1)]
  /\ authorized \in [Scans -> SUBSET Steps]
  /\ proc \in [Scans -> Procs]
  /\ stage \in [Scans -> Stages]
  /\ step \in [Scans -> 0..NSteps]
  /\ how \in [Scans -> Entries]
  /\ seen \in [Scans -> Statuses]
  /\ gathered \in [Scans -> [Steps -> Entries]]

\* A task is in a step that its scan was authorized for, and neither it nor the row
\* holds an outcome of any other: not of a step skipped, and not after a session
\* that found the row changed under it.
Sanctioned(s) ==
  /\ status[s] = "none" => authorized[s] = {}
  /\ step[s] \in authorized[s] \cup {0}
  /\ progress[s] \in authorized[s] \cup {0, Finished}
  /\ \A k \in Steps :
       results[s][k] # "none" \/ gathered[s][k] # "none" => k \in authorized[s]

ScanTypeOK == ScanTypes /\ \A s \in Scans : Sanctioned(s)

\* Only these changes of status ever happen.  In particular a scan that was
\* closed never runs again, although every push writes status running over
\* whatever it read: the watchdog cannot close a scan under a task that has
\* pushes to come.
Moves == {<<"none", "pending">>, <<"pending", "running">>,
          <<"pending", "failed">>, <<"running", "failed">>,
          <<"running", "done">>, <<"failed", "done">>}

StatusMovesForward ==
  [][\A s \in Scans :
       \/ status'[s] = status[s]
       \/ status'[s] = "deleted"
       \/ <<status[s], status'[s]>> \in Moves]_scanVars

\* A task before triage finds its scan open: its steps' timeouts add up to
\* less than the watchdog's patience.
OpenWhileActive ==
  \A s \in Scans :
    stage[s] \in Bounded => status[s] \in {"pending", "running", "deleted"}

\* A done scan is at 100 %, has its time of completion, and reports each of
\* its authorized reconnaissance steps.
DoneIsComplete ==
  \A s \in Scans : status[s] = "done" =>
    /\ progress[s] = Finished
    /\ completed[s]
    /\ \A k \in authorized[s] \ VulnSteps : results[s][k] # "none"

\* The findings are stored by the very transaction that closes the scan: no
\* failed or open scan has any, and no done scan lacks them.
FindingsIffDone == \A s \in Scans : findings[s] <=> status[s] = "done"

\* A failed scan says why, and when, whoever closed it.
FailedHasReason ==
  \A s \in Scans : status[s] = "failed" => error[s] # "none" /\ completed[s]

\* The steps that a task has before it, at most.
TaskLeft(s) ==
  CASE stage[s] = "queued"   -> 2 * NSteps + 5
    [] stage[s] = "starting" -> 2 * NSteps + 4
    [] stage[s] = "work"     -> 2 * (NSteps - step[s]) + 5
    [] stage[s] = "push"     -> 2 * (NSteps - step[s]) + 4
    [] stage[s] = "triage"   -> 3
    [] stage[s] = "saving"   -> 2
    [] stage[s] = "failing"  -> 1
    [] OTHER                 -> 0

\* A task is over after a bounded number of its own steps, whatever raises or is deleted
\* meanwhile: it never does a step again, and nothing that the watchdog, the
\* administrator or another task does gives it more to do.
TaskRunsDown ==
  [][\A s \in Scans : stage[s] # "none" =>
       /\ TaskLeft(s)' <= TaskLeft(s)
       /\ TaskStep(s) => TaskLeft(s)' < TaskLeft(s)]_scanVars

\* tests/test_scan_task_module_timeout.py: on timeout the step's stored result
\* becomes module_timeout, for each of the steps.
TimeoutsReported ==
  \A s \in Scans : status[s] = "done" =>
    \A k \in authorized[s] : results[s][k] # "none"
=============================================================================
