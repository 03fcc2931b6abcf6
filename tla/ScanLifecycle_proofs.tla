------------------------- MODULE ScanLifecycle_proofs -------------------------
(***************************************************************************)
(* Theorems about ScanLifecycle, for any number of scans, processes and    *)
(* steps, and any patience of the watchdog that covers the bounded steps;  *)
(* and about ScanWatchdog, where the sweep runs under the lock of          *)
(* SchedulerLease, for any lease and lag.                                  *)
(***************************************************************************)
EXTENDS ScanWatchdog, TLAPS

\* Every variable keeps its type.
LEMMA ForgetType ==
  ASSUME ScanTypes, NEW S, Forget(S)
  PROVE  /\ stage' \in [Scans -> Stages]
         /\ step' \in [Scans -> 0..NSteps]
         /\ how' \in [Scans -> Entries]
         /\ seen' \in [Scans -> Statuses]
         /\ gathered' \in [Scans -> [Steps -> Entries]]
         /\ proc' = proc
<1>1. 0 \in 0..NSteps
  BY ScanAssumption
<1>2. Nothing \in [Steps -> Entries]
  BY DEF Nothing, Entries
<1>3. QED
  BY <1>1, <1>2 DEF ScanTypes, Forget, Stages, Entries, Statuses

LEMMA AdvanceType ==
  ASSUME ScanTypes, NEW s \in Scans, Advance(s)
  PROVE  /\ stage' \in [Scans -> Stages]
         /\ step' \in [Scans -> 0..NSteps]
         /\ how' \in [Scans -> Entries]
         /\ seen' \in [Scans -> Statuses]
         /\ gathered' = gathered
         /\ proc' = proc
<1>1. \A k \in authorized[s] : k \in 0..NSteps
  BY ScanAssumption DEF ScanTypes, Steps
<1>2. step' \in [Scans -> 0..NSteps]
  BY <1>1, Zenon DEF Advance, ScanTypes
<1>3. stage' \in [Scans -> Stages]
  <2>1. stage' = [stage EXCEPT ![s] = "triage"] \/ stage' = [stage EXCEPT ![s] = "work"]
    BY Zenon DEF Advance
  <2>2. QED
    BY <2>1 DEF ScanTypes, Stages
<1>4. how' \in [Scans -> Entries] /\ seen' \in [Scans -> Statuses]
  BY DEF Advance, ScanTypes, Entries, Statuses
<1>5. QED
  BY <1>2, <1>3, <1>4 DEF Advance

LEMMA ScanTypeStep == ScanTypes /\ [ScanNext]_scanVars => ScanTypes'
<1> SUFFICES ASSUME ScanTypes, [ScanNext]_scanVars
             PROVE  ScanTypes'
  OBVIOUS
<1>0. 0 \in 0..(ScanStale + 1) /\ Finished \in 0..Finished /\ 0..NSteps \subseteq 0..Finished
  BY ScanAssumption DEF Finished
<1> USE DEF ScanTypes, Statuses, Stages, Entries
<1>1. ASSUME NEW s \in Scans, NEW p \in Procs, NEW checks \in (SUBSET Steps) \ {{}},
             RunScan(s, p, checks)
      PROVE  ScanTypes'
  BY <1>0, <1>1 DEF RunScan, Goto
<1>2. ASSUME NEW s \in Scans, BeginTask(s) \/ BeginSave(s) \/ RaiseInTask(s)
      PROVE  ScanTypes'
  BY <1>2, ZenonT(60) DEF BeginTask, BeginSave, RaiseInTask, Goto, ReadRow, rowVars
<1>3. ASSUME NEW s \in Scans, CommitStart(s) PROVE ScanTypes'
  BY <1>0, <1>3, AdvanceType DEF CommitStart, WriteStatus
<1>4. ASSUME NEW s \in Scans, SkipStart(s) \/ SkipPush(s) PROVE ScanTypes'
  BY <1>4, AdvanceType DEF SkipStart, SkipPush, rowVars
<1>5. ASSUME NEW s \in Scans, NEW o \in {"data", "timeout"}, FinishStep(s, o)
      PROVE  ScanTypes'
  BY <1>5 DEF FinishStep, Goto, ReadRow, rowVars
<1>6. ASSUME NEW s \in Scans, CommitPush(s) PROVE ScanTypes'
  BY <1>0, <1>6, AdvanceType DEF CommitPush, WriteStatus
<1>7. ASSUME NEW s \in Scans, CommitSave(s) PROVE ScanTypes'
  BY <1>0, <1>7, ForgetType DEF CommitSave, WriteStatus
<1>8. ASSUME NEW s \in Scans, SkipSave(s) \/ HandlerEnds(s) \/ LoseTask(s)
      PROVE  ScanTypes'
  BY <1>8, ForgetType DEF SkipSave, HandlerEnds, LoseTask, rowVars
<1>9. ASSUME NEW s \in Scans, CommitFail(s) PROVE ScanTypes'
  BY <1>9, ForgetType DEF CommitFail, WriteStatus
<1>10. ASSUME NEW p \in Procs, CrashTasks(p) PROVE ScanTypes'
  BY <1>10, ForgetType DEF CrashTasks, rowVars
<1>11. CASE Reap
  BY <1>11 DEF Reap, taskVars
<1>12. ASSUME NEW s \in Scans, DeleteScan(s) PROVE ScanTypes'
  BY <1>12 DEF DeleteScan, taskVars
<1>13. CASE TickScans
  <2>1. \A a \in 0..(ScanStale + 1) : Older(a) \in 0..(ScanStale + 1)
    BY ScanAssumption DEF Older
  <2>2. QED
    BY <1>13, <2>1 DEF TickScans, taskVars
<1>14. CASE UNCHANGED scanVars
  BY <1>14 DEF scanVars, rowVars, taskVars
<1>15. QED
  BY <1>1, <1>2, <1>3, <1>4, <1>5, <1>6, <1>7, <1>8, <1>9, <1>10, <1>11,
     <1>12, <1>13, <1>14
  DEF ScanNext, TaskStep, Request

\* Each task keeps to what its scan was authorized for.
LEMMA SanctionedStep ==
  ASSUME ScanTypes, NEW s \in Scans, Sanctioned(s), [ScanNext]_scanVars
  PROVE  Sanctioned(s)'
<1> USE DEF ScanTypes, Sanctioned
<1> DEFINE Kept == /\ authorized'[s] = authorized[s] /\ progress'[s] = progress[s]
                   /\ results'[s] = results[s]
                   /\ gathered'[s] = gathered[s] \/ gathered'[s] = Nothing
                   /\ step'[s] = step[s] \/ step'[s] = 0
                   /\ status'[s] = "none" => status[s] = "none"
<1>1. Kept => Sanctioned(s)'
  BY DEF Nothing
<1>2. ASSUME NEW t \in Scans, NEW p \in Procs, NEW checks \in (SUBSET Steps) \ {{}},
             RunScan(t, p, checks)
      PROVE  Sanctioned(s)'
  <2>1. CASE t = s
    BY <1>2, <2>1 DEF RunScan, Goto
  <2>2. CASE t # s
    BY <1>1, <1>2, <2>2 DEF RunScan, Goto
  <2>3. QED
    BY <2>1, <2>2
<1>3. ASSUME NEW t \in Scans, BeginTask(t) \/ BeginSave(t) \/ RaiseInTask(t)
      PROVE  Sanctioned(s)'
  <2>1. Kept
    BY <1>3 DEF BeginTask, BeginSave, RaiseInTask, rowVars
  <2>2. QED
    BY <1>1, <2>1
<1>4. ASSUME NEW t \in Scans, Advance(t), authorized' = authorized
      PROVE  step'[s] \in authorized[s] \cup {0} /\ gathered' = gathered
  <2>1. gathered' = gathered
    BY <1>4 DEF Advance
  <2>2. \/ step' = step
        \/ \E k \in authorized[t] : step' = [step EXCEPT ![t] = k]
    BY <1>4, Zenon DEF Advance
  <2>3. QED
    BY <2>1, <2>2
<1>5. ASSUME NEW t \in Scans, CommitStart(t) PROVE Sanctioned(s)'
  <2>1. status'[s] = "none" => status[s] = "none"
    BY <1>5 DEF CommitStart, WriteStatus
  <2>2. QED
    BY <1>4, <1>5, <2>1 DEF CommitStart
<1>6. ASSUME NEW t \in Scans, SkipStart(t) \/ SkipPush(t) PROVE Sanctioned(s)'
  BY <1>4, <1>6 DEF SkipStart, SkipPush, rowVars
<1>7. ASSUME NEW t \in Scans, NEW o \in {"data", "timeout"}, FinishStep(t, o)
      PROVE  Sanctioned(s)'
  <2>1. \/ gathered' = gathered
        \/ gathered' = [gathered EXCEPT ![t][step[t]] = o]
    BY <1>7 DEF FinishStep
  <2>2. ASSUME NEW k \in Steps, gathered'[s][k] # "none" PROVE k \in authorized[s]
    <3>1. gathered[s] \in [Steps -> Entries] /\ gathered[t] \in [Steps -> Entries]
      OBVIOUS
    <3>2. gathered'[s][k] = gathered[s][k] \/ (t = s /\ k = step[t])
      BY <2>1, <3>1
    <3>3. k # 0
      BY DEF Steps
    <3>4. QED
      BY <2>2, <3>2, <3>3
  <2>3. QED
    BY <1>7, <2>2 DEF FinishStep, rowVars
<1>8. ASSUME NEW t \in Scans, CommitPush(t) PROVE Sanctioned(s)'
  <2>1. status'[s] = "none" => status[s] = "none"
    BY <1>8 DEF CommitPush, WriteStatus
  <2>2. \/ results' = results
        \/ results' = [results EXCEPT ![t][step[t]] = how[t]]
    BY <1>8 DEF CommitPush
  <2>3. ASSUME NEW k \in Steps, results'[s][k] # "none" PROVE k \in authorized[s]
    <3>1. results[s] \in [Steps -> Entries] /\ results[t] \in [Steps -> Entries]
      OBVIOUS
    <3>2. results'[s][k] = results[s][k] \/ (t = s /\ k = step[t])
      <4>1. CASE results' = results
        BY <4>1
      <4>2. CASE results' = [results EXCEPT ![t][step[t]] = how[t]]
        <5> PICK h : h = how[t]
          OBVIOUS
        <5>1. results'[s] = IF s = t THEN [results[t] EXCEPT ![step[t]] = h]
                                     ELSE results[s]
          BY <4>2
        <5>2. QED
          BY <3>1, <5>1
      <4>3. QED
        BY <2>2, <4>1, <4>2
    <3>3. k # 0
      BY DEF Steps
    <3>4. QED
      BY <2>3, <3>2, <3>3
  <2>4. progress'[s] = progress[s] \/ progress'[s] \in authorized[s] \cup {0}
    BY <1>8 DEF CommitPush
  <2>5. QED
    BY <1>4, <1>8, <2>1, <2>3, <2>4 DEF CommitPush
<1>9. ASSUME NEW t \in Scans, CommitSave(t) PROVE Sanctioned(s)'
  <2>1. CASE t = s
    <3>1. /\ results'[s] = gathered[s] /\ gathered'[s] = Nothing /\ step'[s] = 0
          /\ progress'[s] = Finished /\ authorized'[s] = authorized[s]
      BY <1>9, <2>1 DEF CommitSave, Forget
    <3>2. status'[s] = "none" => status[s] = "none"
      BY <1>9, <2>1 DEF CommitSave, WriteStatus
    <3>3. QED
      BY <3>1, <3>2 DEF Nothing
  <2>2. CASE t # s
    <3>1. Kept
      BY <1>9, <2>2 DEF CommitSave, Forget, WriteStatus
    <3>2. QED
      BY <1>1, <3>1
  <2>3. QED
    BY <2>1, <2>2
<1>10. ASSUME NEW S, Forget(S), UNCHANGED <<authorized, progress, results>>,
              status'[s] = "none" => status[s] = "none"
       PROVE  Sanctioned(s)'
  BY <1>1, <1>10 DEF Forget
<1>11. ASSUME NEW t \in Scans, SkipSave(t) \/ HandlerEnds(t) \/ LoseTask(t) \/ CommitFail(t)
       PROVE  Sanctioned(s)'
  <2>1. status'[s] = "none" => status[s] = "none"
    BY <1>11 DEF SkipSave, HandlerEnds, LoseTask, CommitFail, WriteStatus, rowVars
  <2>2. Forget({t}) /\ UNCHANGED <<authorized, progress, results>>
    BY <1>11 DEF SkipSave, HandlerEnds, LoseTask, CommitFail, rowVars
  <2>3. QED
    BY <1>10, <2>1, <2>2
<1>12. ASSUME NEW p \in Procs, CrashTasks(p) PROVE Sanctioned(s)'
  BY <1>10, <1>12 DEF CrashTasks, rowVars
<1>13. ASSUME Reap \/ TickScans \/ (\E t \in Scans : DeleteScan(t)) \/ UNCHANGED scanVars
       PROVE  Sanctioned(s)'
  <2>1. Kept
    BY <1>13 DEF Reap, TickScans, DeleteScan, taskVars, scanVars, rowVars
  <2>2. QED
    BY <1>1, <2>1
<1>14. QED
  BY <1>2, <1>3, <1>5, <1>6, <1>7, <1>8, <1>9, <1>11, <1>12, <1>13
  DEF ScanNext, TaskStep, Request

LEMMA ScanTypesInit == ScanInit => ScanTypes
<1>1. 0 \in 0..NSteps /\ 0 \in 0..Finished /\ 0 \in 0..(ScanStale + 1)
  BY ScanAssumption DEF Finished
<1>2. Nothing \in [Steps -> Entries]
  BY DEF Nothing, Entries
<1>3. QED
  BY <1>1, <1>2 DEF ScanInit, ScanTypes, Statuses, Stages, Entries

LEMMA ScanTyped == ScanSpec => []ScanTypes
  BY ScanTypesInit, ScanTypeStep, PTL DEF ScanSpec

\* The Scan row and the task of every scan are always well formed, and no step is
\* taken, and no outcome kept, that the scan was not authorized for.
THEOREM ScanTypeCorrect == ScanSpec => []ScanTypeOK
<1>1. ScanInit => \A s \in Scans : Sanctioned(s)
  BY DEF ScanInit, Sanctioned, Nothing
<1>2. ScanTypes /\ (\A s \in Scans : Sanctioned(s)) /\ [ScanNext]_scanVars
      => (\A s \in Scans : Sanctioned(s))'
  BY SanctionedStep
<1>3. QED
  BY <1>1, <1>2, ScanTyped, PTL DEF ScanSpec, ScanTypeOK

-----------------------------------------------------------------------------
\* What a task in a given stage knows of its row and has gathered.
Progressing(s) ==
  /\ stage[s] = "none" => status[s] = "none" /\ step[s] = 0
  /\ stage[s] \in {"queued", "starting"} =>
       /\ status[s] \in {"pending", "deleted"}
       /\ step[s] = 0
  /\ stage[s] = "starting" => seen[s] \in {"pending", "deleted"}
  /\ stage[s] \in {"work", "push"} => status[s] \in {"running", "deleted"}
  /\ stage[s] = "push" => seen[s] \in {"running", "deleted"}
  /\ stage[s] \in {"triage", "saving"} =>
       status[s] \in {"running", "failed", "deleted"}
  /\ stage[s] = "saving" => seen[s] \in {"running", "failed", "deleted"}
  /\ stage[s] = "failing" =>
       /\ status[s] \in {"pending", "running", "failed", "deleted"}
       /\ seen[s] = "failed" => status[s] \in {"failed", "deleted"}
  /\ stage[s] \in {"starting", "push", "saving", "failing"} =>
       (seen[s] = "deleted" => status[s] = "deleted")
  /\ stage[s] \in Bounded => age[s] <= ActiveBound

\* Each authorized reconnaissance step behind the task has left its outcome.
Gathering(s) ==
  \A k \in authorized[s] \ VulnSteps :
    /\ stage[s] = "work" /\ k < step[s] => gathered[s][k] # "none"
    /\ stage[s] = "push" /\ k <= step[s] => gathered[s][k] # "none"
    /\ stage[s] \in {"triage", "saving"} => gathered[s][k] # "none"

Closed(s) ==
  /\ findings[s] <=> status[s] = "done"
  /\ status[s] = "done" =>
       /\ progress[s] = Finished
       /\ completed[s]
       /\ \A k \in authorized[s] \ VulnSteps : results[s][k] # "none"
  /\ status[s] = "failed" => error[s] # "none" /\ completed[s]

ScanOK(s) == Progressing(s) /\ Gathering(s) /\ Closed(s)

ScanInv == \A s \in Scans : ScanOK(s)

\* What ScanOK(t) depends on.
Untouched(t) ==
  /\ status'[t] = status[t] /\ stage'[t] = stage[t] /\ step'[t] = step[t]
  /\ seen'[t] = seen[t] /\ age'[t] = age[t] /\ authorized'[t] = authorized[t]
  /\ gathered'[t] = gathered[t] /\ findings'[t] = findings[t]
  /\ progress'[t] = progress[t] /\ completed'[t] = completed[t]
  /\ results'[t] = results[t] /\ error'[t] = error[t]

LEMMA Frame ==
  ASSUME NEW t \in Scans, ScanOK(t), Untouched(t)
  PROVE  ScanOK(t)'
  BY DEF Untouched, ScanOK, Progressing, Gathering, Closed

\* A task that ends, leaving its row well closed.
LEMMA Ending ==
  ASSUME NEW s \in Scans, stage'[s] = "over", Closed(s)'
  PROVE  ScanOK(s)'
  BY DEF ScanOK, Progressing, Gathering, Bounded

LEMMA Advancing ==
  ASSUME ScanTypes, NEW s \in Scans, Advance(s), authorized' = authorized,
         \A k \in authorized[s] \ VulnSteps :
           k <= step[s] => gathered[s][k] # "none"
  PROVE  Gathering(s)' /\ stage'[s] \in {"work", "triage"} /\ gathered' = gathered
<1> \A k \in authorized[s] : k \in Nat
  BY ScanAssumption DEF ScanTypes, Steps
<1> step[s] \in Nat
  BY ScanAssumption DEF ScanTypes
<1> DEFINE rest == {k \in authorized[s] : k > step[s]}
<1>1. CASE rest = {} /\ stage' = [stage EXCEPT ![s] = "triage"]
  <2>1. \A k \in authorized[s] \ VulnSteps : gathered[s][k] # "none"
    BY <1>1
  <2>2. stage'[s] = "triage"
    BY <1>1 DEF ScanTypes
  <2>3. gathered' = gathered
    BY DEF Advance
  <2>4. QED
    BY <2>1, <2>2, <2>3 DEF Gathering
<1>2. ASSUME NEW k \in rest,
             \A j \in rest : k <= j,
             step' = [step EXCEPT ![s] = k],
             stage' = [stage EXCEPT ![s] = "work"]
      PROVE  Gathering(s)' /\ stage'[s] \in {"work", "triage"} /\ gathered' = gathered
  <2>1. \A j \in authorized[s] \ VulnSteps : j < k => gathered[s][j] # "none"
    BY <1>2
  <2>2. stage'[s] = "work" /\ step'[s] = k
    BY <1>2 DEF ScanTypes
  <2>3. gathered' = gathered
    BY DEF Advance
  <2>4. QED
    BY <2>1, <2>2, <2>3 DEF Gathering
<1>3. QED
  BY <1>1, <1>2, Zenon DEF Advance

LEMMA OneScan ==
  ASSUME ScanInv, NEW s \in Scans, ScanOK(s)',
         \A t \in Scans \ {s} : Untouched(t)
  PROVE  ScanInv'
  BY Frame DEF ScanInv

LEMMA ScanInvStep ==
  ScanTypes /\ ScanInv /\ [ScanNext]_scanVars => ScanInv'
<1> SUFFICES ASSUME ScanTypes, ScanInv, [ScanNext]_scanVars
             PROVE  ScanInv'
  OBVIOUS
<1> ScanTypes'
  BY ScanTypeStep
<1> USE DEF ScanTypes
<1>1. ASSUME NEW s \in Scans, NEW p \in Procs, NEW checks \in (SUBSET Steps) \ {{}},
             RunScan(s, p, checks)
      PROVE  ScanInv'
  <2>1. ScanOK(s)'
    BY <1>1, ScanAssumption
    DEF RunScan, Goto, ScanInv, ScanOK, Progressing, Gathering, Closed, Bounded
  <2>2. \A t \in Scans \ {s} : Untouched(t)
    BY <1>1 DEF RunScan, Goto, Untouched
  <2>3. QED
    BY <2>1, <2>2, OneScan
<1>2. ASSUME NEW s \in Scans, BeginTask(s) PROVE ScanInv'
  <2>1. ScanOK(s)'
    BY <1>2 DEF BeginTask, Goto, ReadRow, rowVars, ScanInv, ScanOK,
                Progressing, Gathering, Closed, Bounded
  <2>2. \A t \in Scans \ {s} : Untouched(t)
    BY <1>2 DEF BeginTask, Goto, ReadRow, rowVars, Untouched
  <2>3. QED
    BY <2>1, <2>2, OneScan
<1>3. ASSUME NEW s \in Scans, CommitStart(s) PROVE ScanInv'
  <2>1. /\ stage[s] = "starting" /\ step[s] = 0 /\ seen[s] = "pending"
        /\ status[s] = "pending" /\ Closed(s)
    BY <1>3 DEF CommitStart, RowKept, Exists, ScanInv, ScanOK, Progressing
  <2>2. status'[s] = "running"
    BY <1>3, <2>1 DEF CommitStart, WriteStatus
  <2>3. \A k \in authorized[s] : ~(k <= step[s])
    BY <2>1 DEF Steps
  <2>4. Gathering(s)' /\ stage'[s] \in {"work", "triage"}
    BY <1>3, <2>3, Advancing DEF CommitStart
  <2>5. age'[s] = 0
    BY <1>3 DEF CommitStart
  <2>6. Progressing(s)'
    BY <2>2, <2>4, <2>5, ScanAssumption DEF Progressing, Bounded
  <2>7. Closed(s)'
    BY <1>3, <2>1, <2>2 DEF CommitStart, Closed
  <2>8. \A t \in Scans \ {s} : Untouched(t)
    BY <1>3 DEF CommitStart, WriteStatus, Advance, Untouched
  <2>9. QED
    BY <2>4, <2>6, <2>7, <2>8, OneScan DEF ScanOK
<1>4. ASSUME NEW s \in Scans, SkipStart(s) \/ SkipPush(s) PROVE ScanInv'
  <2>1. stage[s] \in {"starting", "push"} /\ seen[s] = "deleted" /\ ScanOK(s)
    BY <1>4 DEF SkipStart, SkipPush, RowMissed, ScanInv
  <2>2. \A k \in authorized[s] \ VulnSteps :
          k <= step[s] => gathered[s][k] # "none"
    BY <2>1 DEF ScanOK, Progressing, Gathering, Steps
  <2>3. Gathering(s)' /\ stage'[s] \in {"work", "triage"}
    BY <1>4, <2>2, Advancing DEF SkipStart, SkipPush, rowVars
  <2>4. status[s] = "deleted"
    BY <2>1 DEF ScanOK, Progressing
  <2>5. Progressing(s)'
    BY <1>4, <2>1, <2>3, <2>4
    DEF SkipStart, SkipPush, rowVars, ScanOK, Progressing, Bounded
  <2>6. Closed(s)'
    BY <1>4, <2>1 DEF SkipStart, SkipPush, rowVars, ScanOK, Closed
  <2>7. \A t \in Scans \ {s} : Untouched(t)
    BY <1>4 DEF SkipStart, SkipPush, Advance, rowVars, Untouched
  <2>8. QED
    BY <2>3, <2>5, <2>6, <2>7, OneScan DEF ScanOK
<1>5. ASSUME NEW s \in Scans, NEW o \in {"data", "timeout"}, FinishStep(s, o)
      PROVE  ScanInv'
  <2>1. stage[s] = "work" /\ ScanOK(s) /\ step[s] \in Nat
    BY <1>5, ScanAssumption DEF FinishStep, Goto, ScanInv
  <2>2. stage'[s] = "push" /\ seen'[s] = status[s]
    BY <1>5 DEF FinishStep, Goto, ReadRow
  <2>3. Progressing(s)'
    BY <1>5, <2>1, <2>2
    DEF FinishStep, rowVars, ScanOK, Progressing, Bounded
  <2>4. ASSUME NEW k \in authorized[s] \ VulnSteps, k <= step[s]
        PROVE  gathered'[s][k] # "none"
    <3>1. k \in Steps /\ k \in Nat
      BY ScanAssumption DEF Steps
    <3>2. CASE k = step[s]
      BY <1>5, <2>4, <3>1, <3>2 DEF FinishStep
    <3>3. CASE k < step[s]
      BY <1>5, <2>1, <2>4, <3>1, <3>3 DEF FinishStep, ScanOK, Gathering
    <3>4. k < step[s] \/ k = step[s]
      <4>1. \A i, j \in Nat : i <= j => i < j \/ i = j
        OBVIOUS
      <4>2. QED
        BY <2>1, <2>4, <3>1, <4>1
    <3>5. QED
      BY <3>2, <3>3, <3>4
  <2>5. Gathering(s)'
    BY <1>5, <2>2, <2>4 DEF FinishStep, rowVars, Gathering
  <2>6. Closed(s)'
    BY <1>5, <2>1 DEF FinishStep, rowVars, ScanOK, Closed
  <2>7. \A t \in Scans \ {s} : Untouched(t)
    BY <1>5 DEF FinishStep, Goto, ReadRow, rowVars, Untouched
  <2>8. QED
    BY <2>3, <2>5, <2>6, <2>7, OneScan DEF ScanOK
<1>6. ASSUME NEW s \in Scans, CommitPush(s) PROVE ScanInv'
  <2>1. /\ stage[s] = "push" /\ seen[s] = "running" /\ status[s] = "running"
        /\ ScanOK(s)
    BY <1>6 DEF CommitPush, RowKept, Exists, ScanInv, ScanOK, Progressing
  <2>2. \A k \in authorized[s] \ VulnSteps :
          k <= step[s] => gathered[s][k] # "none"
    BY <2>1 DEF ScanOK, Gathering
  <2>3. Gathering(s)' /\ stage'[s] \in {"work", "triage"}
    BY <1>6, <2>2, Advancing DEF CommitPush
  <2>4. status'[s] = "running"
    BY <1>6, <2>1 DEF CommitPush, WriteStatus
  <2>5. Progressing(s)'
    BY <1>6, <2>1, <2>3, <2>4
    DEF CommitPush, ScanOK, Progressing, Bounded
  <2>6. Closed(s)'
    BY <1>6, <2>1, <2>4 DEF CommitPush, ScanOK, Closed
  <2>7. \A t \in Scans \ {s} : Untouched(t)
    BY <1>6 DEF CommitPush, WriteStatus, Advance, Untouched
  <2>8. QED
    BY <2>3, <2>5, <2>6, <2>7, OneScan DEF ScanOK
<1>7. ASSUME NEW s \in Scans, BeginSave(s) PROVE ScanInv'
  <2>1. ScanOK(s)'
    BY <1>7 DEF BeginSave, Exists, Goto, ReadRow, rowVars, ScanInv, ScanOK,
                Progressing, Gathering, Closed, Bounded
  <2>2. \A t \in Scans \ {s} : Untouched(t)
    BY <1>7 DEF BeginSave, Goto, ReadRow, rowVars, Untouched
  <2>3. QED
    BY <2>1, <2>2, OneScan
<1>8. ASSUME NEW s \in Scans, CommitSave(s) PROVE ScanInv'
  <2>1. /\ stage[s] = "saving" /\ seen[s] \in {"running", "failed"}
        /\ \A k \in authorized[s] \ VulnSteps : gathered[s][k] # "none"
    BY <1>8 DEF CommitSave, RowKept, ScanInv, ScanOK, Progressing, Gathering
  <2>2. status'[s] = "done" /\ stage'[s] = "over"
    BY <1>8, <2>1 DEF CommitSave, WriteStatus, Forget
  <2>3. Closed(s)'
    BY <1>8, <2>1, <2>2 DEF CommitSave, Closed
  <2>4. \A t \in Scans \ {s} : Untouched(t)
    BY <1>8 DEF CommitSave, WriteStatus, Forget, Untouched
  <2>5. QED
    BY <2>2, <2>3, <2>4, Ending, OneScan
<1>9. ASSUME NEW s \in Scans, SkipSave(s) \/ HandlerEnds(s) \/ LoseTask(s)
      PROVE  ScanInv'
  <2>1. Forget({s}) /\ UNCHANGED rowVars
    BY <1>9 DEF SkipSave, HandlerEnds, LoseTask
  <2>2. stage'[s] = "over" /\ Closed(s)'
    BY <2>1 DEF Forget, rowVars, ScanInv, ScanOK, Closed
  <2>3. \A t \in Scans \ {s} : Untouched(t)
    BY <2>1 DEF Forget, rowVars, Untouched
  <2>4. QED
    BY <2>2, <2>3, Ending, OneScan
<1>10. ASSUME NEW s \in Scans, RaiseInTask(s) PROVE ScanInv'
  <2>1. ScanOK(s)'
    BY <1>10 DEF RaiseInTask, ReadRow, rowVars, ScanInv, ScanOK,
                 Progressing, Gathering, Closed, Bounded
  <2>2. \A t \in Scans \ {s} : Untouched(t)
    BY <1>10 DEF RaiseInTask, ReadRow, rowVars, Untouched
  <2>3. QED
    BY <2>1, <2>2, OneScan
<1>11. ASSUME NEW s \in Scans, CommitFail(s) PROVE ScanInv'
  <2>1. ScanOK(s) /\ stage[s] = "failing" /\ status[s] # "deleted"
    BY <1>11 DEF CommitFail, RowKept, Exists, ScanInv
  <2>2. status'[s] = "failed" /\ status[s] # "done" /\ stage'[s] = "over"
    BY <1>11, <2>1 DEF CommitFail, WriteStatus, Forget, ScanOK, Progressing
  <2>3. Closed(s)'
    BY <1>11, <2>1, <2>2 DEF CommitFail, ScanOK, Closed
  <2>4. \A t \in Scans \ {s} : Untouched(t)
    BY <1>11 DEF CommitFail, WriteStatus, Forget, Untouched
  <2>5. QED
    BY <2>2, <2>3, <2>4, Ending, OneScan
<1>12. ASSUME NEW p \in Procs, CrashTasks(p) PROVE ScanInv'
  <2> SUFFICES ASSUME NEW t \in Scans PROVE ScanOK(t)'
    BY DEF ScanInv
  <2>1. CASE proc[t] = p /\ stage[t] \in Live
    <3>1. stage'[t] = "over" /\ Closed(t)'
      BY <1>12, <2>1 DEF CrashTasks, Forget, rowVars, ScanInv, ScanOK, Closed
    <3>2. QED
      BY <3>1, Ending
  <2>2. CASE ~(proc[t] = p /\ stage[t] \in Live)
    <3>1. Untouched(t)
      BY <1>12, <2>2 DEF CrashTasks, Forget, rowVars, Untouched
    <3>2. QED
      BY <3>1, Frame DEF ScanInv
  <2>3. QED
    BY <2>1, <2>2
<1>13. CASE Reap
  <2> SUFFICES ASSUME NEW t \in Scans PROVE ScanOK(t)'
    BY DEF ScanInv
  <2>0. ScanOK(t)
    BY DEF ScanInv
  <2>1. CASE Orphaned(t)
    <3>1. stage[t] \notin Bounded
      BY <2>0, <2>1, ScanAssumption DEF Orphaned, ScanOK, Progressing
    <3>2. /\ status[t] \in {"pending", "running"} /\ status'[t] = "failed"
          /\ error'[t] = "watchdog" /\ completed'[t]
      BY <1>13, <2>1 DEF Reap, Orphaned
    <3>3. Progressing(t)' /\ Closed(t)'
      BY <1>13, <2>0, <3>1, <3>2
      DEF Reap, taskVars, ScanOK, Progressing, Closed, Bounded
    <3>4. Gathering(t)'
      BY <1>13, <2>0 DEF Reap, taskVars, ScanOK, Gathering
    <3>5. QED
      BY <3>3, <3>4 DEF ScanOK
  <2>2. CASE ~Orphaned(t)
    <3>1. Untouched(t)
      BY <1>13, <2>2 DEF Reap, taskVars, Untouched
    <3>2. QED
      BY <2>0, <3>1, Frame
  <2>3. QED
    BY <2>1, <2>2
<1>14. ASSUME NEW s \in Scans, DeleteScan(s) PROVE ScanInv'
  <2>1. ScanOK(s)'
    BY <1>14 DEF DeleteScan, Exists, taskVars, ScanInv, ScanOK,
                 Progressing, Gathering, Closed, Bounded
  <2>2. \A t \in Scans \ {s} : Untouched(t)
    BY <1>14 DEF DeleteScan, taskVars, Untouched
  <2>3. QED
    BY <2>1, <2>2, OneScan
<1>15. CASE TickScans
  <2> SUFFICES ASSUME NEW t \in Scans PROVE ScanOK(t)'
    BY DEF ScanInv
  <2>1. ScanOK(t) /\ (stage[t] \in Bounded => age'[t] <= ActiveBound)
    BY <1>15, ScanAssumption DEF TickScans, Older, ScanInv
  <2>2. QED
    BY <1>15, <2>1
    DEF TickScans, taskVars, ScanOK, Progressing, Gathering, Closed
<1>16. CASE UNCHANGED scanVars
  BY <1>16, Frame DEF scanVars, rowVars, taskVars, ScanInv, Untouched
<1>17. QED
  BY <1>1, <1>2, <1>3, <1>4, <1>5, <1>6, <1>7, <1>8, <1>9, <1>10, <1>11,
     <1>12, <1>13, <1>14, <1>15, <1>16
  DEF ScanNext, TaskStep, Request

LEMMA ScanInvInit == ScanInit => ScanInv
  BY ScanAssumption DEF ScanInit, ScanInv, ScanOK, Progressing, Gathering,
                        Closed, Bounded

\* The strengthened invariant, of which the invariants of the runs are parts.
THEOREM ScanInvariant == ScanSpec => [](ScanTypes /\ ScanInv)
<1>1. ScanSpec => []ScanTypes
  BY ScanTyped
<1>2. QED
  BY <1>1, ScanInvInit, ScanInvStep, PTL DEF ScanSpec

\* The watchdog never closes a scan whose task is still before its triage,
\* whatever the number of steps, as long as their timeouts add up to no more
\* than its patience.
THEOREM NoCloseUnderTask == ScanSpec => []OpenWhileActive
<1>1. ScanInv => OpenWhileActive
  BY DEF ScanInv, ScanOK, Progressing, OpenWhileActive, Bounded
<1>2. QED
  BY <1>1, ScanInvariant, PTL

\* A scan that is done is complete, however its task, the watchdog, a crash
\* and a deletion interleaved.
THEOREM DoneComplete == ScanSpec => []DoneIsComplete
<1>1. ScanInv => DoneIsComplete
  BY DEF ScanInv, ScanOK, Closed, DoneIsComplete
<1>2. QED
  BY <1>1, ScanInvariant, PTL

\* Findings exist for the done scans and for no other.
THEOREM FindingsWithDone == ScanSpec => []FindingsIffDone
<1>1. ScanInv => FindingsIffDone
  BY DEF ScanInv, ScanOK, Closed, FindingsIffDone
<1>2. QED
  BY <1>1, ScanInvariant, PTL

\* A failed scan has a reason and a time of completion.
THEOREM FailureExplained == ScanSpec => []FailedHasReason
<1>1. ScanInv => FailedHasReason
  BY DEF ScanInv, ScanOK, Closed, FailedHasReason
<1>2. QED
  BY <1>1, ScanInvariant, PTL

\* The status of a scan only ever moves as Moves says: a closed scan never runs
\* again, and only a save turns a failed scan into a done one.
THEOREM MovesForward == ScanSpec => StatusMovesForward
<1> DEFINE Moved(s) == \/ status'[s] = status[s]
                       \/ status'[s] = "deleted"
                       \/ <<status[s], status'[s]>> \in Moves
<1>1. ScanTypes /\ ScanInv /\ [ScanNext]_scanVars => \A s \in Scans : Moved(s)
  <2> SUFFICES ASSUME ScanTypes, ScanInv, [ScanNext]_scanVars, NEW t \in Scans
               PROVE  Moved(t)
    OBVIOUS
  <2> USE DEF ScanTypes
  <2>0. ScanOK(t)
    BY DEF ScanInv
  <2>1. ASSUME NEW s \in Scans, NEW p \in Procs,
               NEW checks \in (SUBSET Steps) \ {{}}, RunScan(s, p, checks)
        PROVE  Moved(t)
    BY <2>1 DEF RunScan, Moves
  <2>2. ASSUME NEW s \in Scans, CommitStart(s) PROVE Moved(t)
    BY <2>0, <2>2 DEF CommitStart, RowKept, Exists, WriteStatus, ScanOK,
                      Progressing, Moves
  <2>3. ASSUME NEW s \in Scans, CommitPush(s) PROVE Moved(t)
    BY <2>0, <2>3 DEF CommitPush, RowKept, Exists, WriteStatus, ScanOK,
                      Progressing, Moves
  <2>4. ASSUME NEW s \in Scans, CommitSave(s) PROVE Moved(t)
    BY <2>0, <2>4 DEF CommitSave, RowKept, Exists, WriteStatus, ScanOK,
                      Progressing, Moves
  <2>5. ASSUME NEW s \in Scans, CommitFail(s) PROVE Moved(t)
    BY <2>0, <2>5 DEF CommitFail, RowKept, Exists, WriteStatus, ScanOK,
                      Progressing, Moves
  <2>6. CASE Reap
    BY <2>6 DEF Reap, Orphaned, Moves
  <2>7. ASSUME NEW s \in Scans, DeleteScan(s) PROVE Moved(t)
    BY <2>7 DEF DeleteScan
  <2>8. CASE status' = status
    BY <2>8
  <2>9. ASSUME NEW s \in Scans,
               \/ LoseTask(s) \/ BeginTask(s) \/ SkipStart(s) \/ SkipPush(s)
               \/ \E o \in {"data", "timeout"} : FinishStep(s, o)
               \/ BeginSave(s) \/ SkipSave(s) \/ RaiseInTask(s) \/ HandlerEnds(s)
        PROVE  status' = status
    BY <2>9 DEF LoseTask, BeginTask, SkipStart, SkipPush, FinishStep, BeginSave,
                SkipSave, RaiseInTask, HandlerEnds, rowVars
  <2>10. (\E p \in Procs : CrashTasks(p)) \/ TickScans \/ UNCHANGED scanVars
         => status' = status
    BY DEF CrashTasks, TickScans, scanVars, rowVars
  <2>11. QED
    BY <2>1, <2>2, <2>3, <2>4, <2>5, <2>6, <2>7, <2>8, <2>9, <2>10
    DEF ScanNext, TaskStep, Request
<1>2. QED
  BY <1>1, ScanInvariant, PTL DEF ScanSpec, StatusMovesForward

\* A task has less left when it goes on to a later stage, to a later step, or over.
LEMMA LaterHasLess ==
  ASSUME ScanTypes, ScanTypes', NEW s \in Scans,
         \/ stage[s] = "queued" /\ stage'[s] = "starting"
         \/ stage[s] \in {"starting", "push"} /\ stage'[s] = "work" /\ step'[s] > step[s]
         \/ stage[s] = "work" /\ stage'[s] = "push" /\ step'[s] = step[s]
         \/ stage[s] \in {"starting", "push"} /\ stage'[s] = "triage"
         \/ stage[s] = "triage" /\ stage'[s] = "saving"
         \/ stage[s] \in {"starting", "work", "push", "triage", "saving"} /\ stage'[s] = "failing"
         \/ stage[s] \in Live /\ stage'[s] = "over"
  PROVE  TaskLeft(s)' < TaskLeft(s)
<1>1. /\ NSteps \in Nat /\ step[s] \in 0..NSteps /\ step'[s] \in 0..NSteps
      /\ stage[s] \in Stages /\ stage'[s] \in Stages
  BY ScanAssumption DEF ScanTypes
<1>2. PICK n, i, j \in Nat : n = NSteps /\ i = step[s] /\ j = step'[s] /\ i <= n /\ j <= n
  BY <1>1
<1>3. /\ stage[s] = "queued" => TaskLeft(s) = 2 * n + 5
      /\ stage[s] = "starting" => TaskLeft(s) = 2 * n + 4
      /\ stage[s] = "work" => TaskLeft(s) = 2 * (n - i) + 5
      /\ stage[s] = "push" => TaskLeft(s) = 2 * (n - i) + 4
      /\ stage[s] = "triage" => TaskLeft(s) = 3
      /\ stage[s] = "saving" => TaskLeft(s) = 2
      /\ stage[s] = "failing" => TaskLeft(s) = 1
  BY <1>2 DEF TaskLeft
<1>4. /\ stage'[s] = "starting" => TaskLeft(s)' = 2 * n + 4
      /\ stage'[s] = "work" => TaskLeft(s)' = 2 * (n - j) + 5
      /\ stage'[s] = "push" => TaskLeft(s)' = 2 * (n - j) + 4
      /\ stage'[s] = "triage" => TaskLeft(s)' = 3
      /\ stage'[s] = "saving" => TaskLeft(s)' = 2
      /\ stage'[s] = "failing" => TaskLeft(s)' = 1
      /\ stage'[s] = "over" => TaskLeft(s)' = 0
  BY <1>2 DEF TaskLeft
<1>5. CASE stage[s] = "queued" /\ stage'[s] = "starting"
  BY <1>3, <1>4, <1>5
<1>6. CASE stage[s] \in {"starting", "push"} /\ stage'[s] = "work" /\ step'[s] > step[s]
  BY <1>2, <1>3, <1>4, <1>6
<1>7. CASE stage[s] = "work" /\ stage'[s] = "push" /\ step'[s] = step[s]
  BY <1>2, <1>3, <1>4, <1>7
<1>8. CASE stage[s] \in {"starting", "push"} /\ stage'[s] = "triage"
  BY <1>2, <1>3, <1>4, <1>8
<1>9. CASE stage[s] = "triage" /\ stage'[s] = "saving"
  BY <1>3, <1>4, <1>9
<1>10. CASE stage[s] \in {"starting", "work", "push", "triage", "saving"} /\ stage'[s] = "failing"
  BY <1>2, <1>3, <1>4, <1>10
<1>11. CASE stage[s] \in Live /\ stage'[s] = "over"
  <2>1. stage[s] \in {"queued", "starting", "work", "push", "triage", "saving", "failing"}
    BY <1>11 DEF Live, Stages
  <2>2. QED
    BY <1>2, <1>3, <1>4, <1>11, <2>1
<1>12. QED
  BY <1>5, <1>6, <1>7, <1>8, <1>9, <1>10, <1>11

\* What is left is a number, and a task that is let be has as much left.
LEMMA LeftIsCounted ==
  ASSUME ScanTypes, NEW s \in Scans
  PROVE  /\ TaskLeft(s) \in Nat
         /\ stage'[s] = stage[s] /\ step'[s] = step[s] => TaskLeft(s)' = TaskLeft(s)
<1>1. NSteps \in Nat /\ step[s] \in 0..NSteps
  BY ScanAssumption DEF ScanTypes
<1>2. 2 * (NSteps - step[s]) + 5 \in Nat /\ 2 * (NSteps - step[s]) + 4 \in Nat
      /\ 2 * NSteps + 5 \in Nat /\ 2 * NSteps + 4 \in Nat
  BY <1>1
<1>3. TaskLeft(s) \in Nat
  BY <1>2 DEF TaskLeft
<1>4. QED
  BY <1>3 DEF TaskLeft

LEMMA StepsRunDown ==
  ASSUME ScanTypes, ScanTypes', NEW s \in Scans, TaskStep(s)
  PROVE  /\ TaskLeft(s)' < TaskLeft(s)
         /\ \A t \in Scans \ {s} : stage'[t] = stage[t] /\ step'[t] = step[t]
<1> DEFINE Alone == \A t \in Scans \ {s} : stage'[t] = stage[t] /\ step'[t] = step[t]
<1>1. stage \in [Scans -> Stages] /\ step \in [Scans -> 0..NSteps]
  BY DEF ScanTypes
<1>2. ASSUME Advance(s), stage[s] \in {"starting", "push"}
      PROVE  TaskLeft(s)' < TaskLeft(s) /\ Alone
  <2> DEFINE rest == {k \in authorized[s] : k > step[s]}
  <2>1. CASE stage' = [stage EXCEPT ![s] = "triage"] /\ UNCHANGED step
    <3>1. stage'[s] = "triage"
      BY <1>1, <2>1
    <3>2. QED
      BY <1>1, <1>2, <2>1, <3>1, LaterHasLess
  <2>2. ASSUME NEW k \in rest, step' = [step EXCEPT ![s] = k],
               stage' = [stage EXCEPT ![s] = "work"]
        PROVE  TaskLeft(s)' < TaskLeft(s) /\ Alone
    <3>1. stage'[s] = "work" /\ step'[s] > step[s]
      BY <1>1, <2>2
    <3>2. QED
      BY <1>1, <1>2, <2>2, <3>1, LaterHasLess
  <2>3. QED
    BY <1>2, <2>1, <2>2, Zenon DEF Advance
<1>3. ASSUME Forget({s}), stage[s] \in Live
      PROVE  TaskLeft(s)' < TaskLeft(s) /\ Alone
  <2>1. stage'[s] = "over" /\ Alone
    BY <1>3 DEF Forget
  <2>2. QED
    BY <1>3, <2>1, LaterHasLess
<1>4. ASSUME NEW to, stage' = [stage EXCEPT ![s] = to], step' = step,
             \/ stage[s] = "queued" /\ to = "starting"
             \/ stage[s] = "work" /\ to = "push"
             \/ stage[s] = "triage" /\ to = "saving"
             \/ stage[s] \in {"starting", "work", "push", "triage", "saving"} /\ to = "failing"
      PROVE  TaskLeft(s)' < TaskLeft(s) /\ Alone
  <2>1. stage'[s] = to /\ step'[s] = step[s] /\ Alone
    BY <1>1, <1>4
  <2>2. QED
    BY <1>4, <2>1, LaterHasLess
<1>5. CASE CommitStart(s) \/ SkipStart(s) \/ CommitPush(s) \/ SkipPush(s)
  <2>1. Advance(s) /\ stage[s] \in {"starting", "push"}
    BY <1>5 DEF CommitStart, SkipStart, CommitPush, SkipPush
  <2>2. QED
    BY <1>2, <2>1
<1>6. CASE LoseTask(s) \/ CommitSave(s) \/ SkipSave(s) \/ CommitFail(s) \/ HandlerEnds(s)
  <2>1. Forget({s}) /\ stage[s] \in {"queued", "saving", "triage", "failing"}
    BY <1>6 DEF LoseTask, CommitSave, SkipSave, CommitFail, HandlerEnds
  <2>2. QED
    BY <1>3, <2>1 DEF Live, Stages
<1>7. CASE BeginTask(s)
  <2>1. stage[s] = "queued" /\ stage' = [stage EXCEPT ![s] = "starting"] /\ step' = step
    BY <1>7 DEF BeginTask, Goto
  <2>2. QED
    BY <1>4, <2>1
<1>8. CASE \E outcome \in {"data", "timeout"} : FinishStep(s, outcome)
  <2>1. stage[s] = "work" /\ stage' = [stage EXCEPT ![s] = "push"] /\ step' = step
    BY <1>8 DEF FinishStep, Goto
  <2>2. QED
    BY <1>4, <2>1
<1>9. CASE BeginSave(s)
  <2>1. stage[s] = "triage" /\ stage' = [stage EXCEPT ![s] = "saving"] /\ step' = step
    BY <1>9 DEF BeginSave, Goto
  <2>2. QED
    BY <1>4, <2>1
<1>10. CASE RaiseInTask(s)
  <2>1. /\ stage[s] \in {"starting", "work", "push", "triage", "saving"}
        /\ stage' = [stage EXCEPT ![s] = "failing"] /\ step' = step
    BY <1>10 DEF RaiseInTask
  <2>2. QED
    BY <1>4, <2>1
<1>11. QED
  BY <1>5, <1>6, <1>7, <1>8, <1>9, <1>10 DEF TaskStep

\* Every step of a task leaves it less to do, and nobody else gives it more: a task is
\* over after at most 2 * NSteps + 5 of them, for any number of steps and scans.
THEOREM TasksRunDown == ScanSpec => TaskRunsDown
<1> DEFINE Down(s) == stage[s] # "none" =>
             /\ TaskLeft(s)' <= TaskLeft(s)
             /\ TaskStep(s) => TaskLeft(s)' < TaskLeft(s)
<1>1. ScanTypes' => (\A s \in Scans : TaskLeft(s) \in Nat)'
  <2>1. ScanTypes => \A s \in Scans : TaskLeft(s) \in Nat
    BY LeftIsCounted
  <2>2. QED
    BY <2>1, PTL
<1>2. ScanTypes /\ [ScanNext]_scanVars => [\A s \in Scans : Down(s)]_scanVars
  <2> SUFFICES ASSUME ScanTypes, [ScanNext]_scanVars, NEW t \in Scans, stage[t] # "none"
               PROVE  /\ TaskLeft(t)' <= TaskLeft(t)
                      /\ TaskStep(t) => TaskLeft(t)' < TaskLeft(t)
    OBVIOUS
  <2>1. ScanTypes'
    BY ScanTypeStep
  <2>2. TaskStep(t) => TaskLeft(t)' < TaskLeft(t)
    BY <2>1, StepsRunDown
  <2>3. TaskLeft(t) \in Nat /\ TaskLeft(t)' \in Nat
    <3>1. TaskLeft(t) \in Nat
      BY LeftIsCounted
    <3>2. QED
      BY <1>1, <2>1, <3>1
  <2>4. ASSUME stage'[t] = stage[t] /\ step'[t] = step[t]
        PROVE  TaskLeft(t)' <= TaskLeft(t)
    BY <2>3, <2>4, LeftIsCounted
  <2>5. ASSUME NEW s \in Scans, TaskStep(s) PROVE TaskLeft(t)' <= TaskLeft(t)
    <3>1. CASE s = t
      BY <2>2, <2>3, <2>5, <3>1
    <3>2. CASE s # t
      BY <2>1, <2>4, <2>5, <3>2, StepsRunDown
    <3>3. QED
      BY <3>1, <3>2
  <2>6. ASSUME NEW s \in Scans, NEW p \in Procs, Request(s, p)
        PROVE  TaskLeft(t)' <= TaskLeft(t)
    <3>1. stage[s] = "none" /\ stage' = [stage EXCEPT ![s] = "queued"] /\ step' = step
      BY <2>6 DEF Request, RunScan, Goto
    <3>2. stage'[t] = stage[t] /\ step'[t] = step[t]
      BY <3>1 DEF ScanTypes
    <3>3. QED
      BY <2>4, <3>2
  <2>7. ASSUME NEW p \in Procs, CrashTasks(p) PROVE TaskLeft(t)' <= TaskLeft(t)
    <3>1. \/ stage'[t] = stage[t] /\ step'[t] = step[t]
          \/ stage'[t] = "over" /\ stage[t] \in Live
      BY <2>7 DEF CrashTasks, Forget
    <3>2. QED
      BY <2>1, <2>3, <2>4, <3>1, LaterHasLess
  <2>8. CASE Reap \/ TickScans \/ (\E s \in Scans : DeleteScan(s)) \/ UNCHANGED scanVars
    <3>1. stage' = stage /\ step' = step
      BY <2>8 DEF Reap, TickScans, DeleteScan, scanVars, taskVars
    <3>2. QED
      BY <2>2, <2>4, <3>1
  <2>9. TaskLeft(t)' <= TaskLeft(t)
    BY <2>5, <2>6, <2>7, <2>8 DEF ScanNext
  <2>10. QED
    BY <2>2, <2>9
<1>3. QED
  BY <1>2, ScanTyped, PTL DEF ScanSpec, TaskRunsDown

-----------------------------------------------------------------------------
(* ScanWatchdog                                                            *)

\* The theorems about the lock, with the processes that run the scans as its workers.
Lease == INSTANCE SchedulerLease_proofs WITH Workers <- Procs

LEMMA SameLock ==
  /\ \A p : /\ Lock!Start(p) => Lease!Start(p)
            /\ Lock!Acquire(p) => Lease!Acquire(p)
            /\ Lock!ReleaseLock(p) => Lease!ReleaseLock(p)
            /\ Lock!LogCrash(p) => Lease!LogCrash(p)
            /\ Lock!DbError(p) => Lease!DbError(p)
            /\ Lock!LostAck(p) => Lease!LostAck(p)
            /\ Lock!FinishBody(p) => Lease!FinishBody(p)
            /\ Lock!Crash(p) => Lease!Crash(p)
            /\ Lock!InCritical(p) <=> Lease!InCritical(p)
  /\ Lock!Tick => Lease!Tick
  /\ Lock!LeaseInit => Lease!LeaseInit
  BY Zenon
  DEF Lock!Move, Lease!Move, Lock!ReadClock, Lease!ReadClock, Lock!SelectRow,
     Lease!SelectRow, Lock!InsertRow, Lease!InsertRow, Lock!InsertConflict,
     Lease!InsertConflict, Lock!ClaimLock, Lease!ClaimLock, Lock!LockHeld,
     Lease!LockHeld, Lock!Claimable, Lease!Claimable, Lock!Start, Lease!Start,
     Lock!Acquire, Lease!Acquire, Lock!ReleaseLock, Lease!ReleaseLock,
     Lock!LogCrash, Lease!LogCrash, Lock!DbError, Lease!DbError,
     Lock!LostAck, Lease!LostAck, Lock!Inserts, Lease!Inserts, Lock!Claims,
     Lease!Claims, Lock!Releases, Lease!Releases,
     Lock!FinishBody, Lease!FinishBody, Lock!Crash, Lease!Crash, Lock!Alive,
     Lease!Alive, Lock!Tick, Lease!Tick, Lock!Older, Lease!Older, Lock!Horizon,
     Lease!Horizon, Lock!LeaseInit, Lease!LeaseInit, Lock!InCritical,
     Lease!InCritical

\* The composition adds nothing to what a scan may undergo, by the way it is put
\* together: taking and giving back the lock leaves the scans alone.
LEMMA ScansOfWatchdog == SysSpec => ScanSpec
<1>1. SysInit => ScanInit
  BY DEF SysInit
<1>2. [SysNext]_sysVars => [ScanNext]_scanVars
  BY Zenon DEF SysNext, sysVars, ScanNext, Sweep, SweepFails, LockStep, CrashProcess,
     Serve, RunTask, Delete, Clock
<1>3. QED
  BY <1>1, <1>2, PTL DEF SysSpec, ScanSpec

\* And they use the lock as the periodic jobs of SchedulerLease do, whatever they serve
\* meanwhile.
THEOREM WatchdogUsesTheLease == SysSpec => Lease!LeaseSpec
<1>1. SysInit => Lease!LeaseInit
  BY SameLock DEF SysInit
<1>2. [SysNext]_sysVars => [Lease!LeaseNext]_(Lease!leaseVars)
  BY SameLock, Zenon DEF SysNext, sysVars, lockVars, Lease!leaseVars, Lease!LeaseNext,
     Lease!Work, Sweep, SweepFails, LockStep, CrashProcess, Serve, RunTask, Delete, Clock
<1>3. QED
  BY <1>1, <1>2, PTL DEF SysSpec, Lease!LeaseSpec

LEMMA LeaseHere == Lease!LeaseAssumption
  BY WatchdogAssumption DEF Lease!LeaseAssumption

\* What the scans keep alone they keep under the sweep of any process.
THEOREM ScansStaySound ==
  SysSpec => /\ [](OpenWhileActive /\ DoneIsComplete /\ FindingsIffDone /\ FailedHasReason)
             /\ StatusMovesForward /\ TaskRunsDown
<1>1. QED
  BY ScansOfWatchdog, NoCloseUnderTask, DoneComplete, FindingsWithDone,
     FailureExplained, MovesForward, TasksRunDown, PTL

\* Two processes sweep at a time only past the lease of one.
SweepsApart ==
  \A p, q \in Procs :
    p # q /\ Lock!InCritical(p) /\ Lock!InCritical(q) =>
      since[p] > LockStale \/ since[q] > LockStale

LEMMA OnlyReapReaps ==
  ASSUME ScanTypes, NEW s \in Scans, Reaped(s)
  PROVE  /\ \A t \in Scans :
              ~TaskStep(t) /\ ~DeleteScan(t) /\ \A p \in Procs : ~Request(t, p)
         /\ \A p \in Procs : ~CrashTasks(p)
         /\ ~TickScans /\ ~UNCHANGED scanVars
<1> USE DEF ScanTypes, Reaped
<1>1. ASSUME NEW t \in Scans, TaskStep(t) PROVE FALSE
  <2>1. LoseTask(t) \/ BeginTask(t) \/ SkipStart(t) \/ SkipPush(t) \/ BeginSave(t)
        \/ SkipSave(t) \/ RaiseInTask(t) \/ HandlerEnds(t)
        \/ (\E o \in {"data", "timeout"} : FinishStep(t, o)) => status' = status
    BY DEF LoseTask, BeginTask, SkipStart, SkipPush, FinishStep, BeginSave, SkipSave,
           RaiseInTask, HandlerEnds, rowVars
  <2>2. CommitStart(t) \/ CommitPush(t) \/ CommitSave(t) => status'[s] # "failed"
    BY ZenonT(60) DEF CommitStart, CommitPush, CommitSave, WriteStatus
  <2>3. CommitFail(t) => status'[s] # "failed" \/ error'[s] # "watchdog"
    BY DEF CommitFail, WriteStatus
  <2>4. QED
    BY <1>1, <2>1, <2>2, <2>3 DEF TaskStep
<1>2. ASSUME NEW t \in Scans, DeleteScan(t) \/ \E p \in Procs : Request(t, p)
      PROVE  FALSE
  BY <1>2 DEF DeleteScan, Request, RunScan
<1>3. (\E p \in Procs : CrashTasks(p)) \/ TickScans \/ UNCHANGED scanVars => FALSE
  BY DEF CrashTasks, TickScans, scanVars, rowVars
<1>4. QED
  BY <1>1, <1>2, <1>3

\* In the composition a scan is closed as orphaned only when it is older than the
\* watchdog's patience and no bounded step of its task goes on, and only by a process
\* whose lock names it, or that works on past its lease: whatever crashed before and
\* left the lock behind.
THEOREM SweepsAreLeased == SysSpec => []SweepsApart /\ OnlyLeasedSweepsClose
<1> DEFINE Rightly(s) == /\ age[s] > ScanStale /\ stage[s] \notin Bounded
                         /\ \E p \in Procs : LeasedSweep(p)
<1>1. SysSpec => []Lease!OnlyLapsedLosesLock /\ []Lease!NoOverlapWithinLease
  BY WatchdogUsesTheLease, LeaseHere, Lease!LapsedOnly, Lease!AloneWithinLease, PTL
<1>2. SysSpec => []Lease!LeaseTypeOK
  BY WatchdogUsesTheLease, LeaseHere, Lease!LeaseTypeCorrect, PTL
<1>3. Lease!NoOverlapWithinLease => SweepsApart
  BY SameLock DEF Lease!NoOverlapWithinLease, SweepsApart
<1>4. /\ ScanTypes /\ ScanInv /\ Lease!LeaseTypeOK /\ Lease!OnlyLapsedLosesLock
      /\ [SysNext]_sysVars
      => [\A s \in Scans : Reaped(s) => Rightly(s)]_sysVars
  <2> SUFFICES ASSUME ScanTypes, ScanInv, Lease!LeaseTypeOK, Lease!OnlyLapsedLosesLock,
                      [SysNext]_sysVars, NEW s \in Scans, Reaped(s)
               PROVE  Rightly(s)
    OBVIOUS
  <2>1. PICK p \in Procs : Sweep(p)
    BY OnlyReapReaps, Zenon DEF SysNext, sysVars, SweepFails, LockStep, CrashProcess,
       Serve, RunTask, Delete, Clock
  <2>2. pc[p] = "body" /\ pc'[p] = "release"
    BY <2>1 DEF Sweep, Lock!FinishBody, Lock!Move, Lease!LeaseTypeOK
  <2>3. Lease!InCritical(p)
    BY <2>2 DEF Lease!InCritical
  <2>4. Orphaned(s)
    BY <2>1 DEF Sweep, Reap, Reaped
  <2>5. stage[s] \notin Bounded
    BY <2>4, ScanAssumption DEF Orphaned, ScanInv, ScanOK, Progressing, ScanTypes
  <2>6. LeasedSweep(p)
    BY <2>2, <2>3 DEF Lease!OnlyLapsedLosesLock, LeasedSweep
  <2>7. QED
    BY <2>4, <2>5, <2>6 DEF Orphaned
<1>5. SysSpec => []ScanTypes /\ []ScanInv
  BY ScansOfWatchdog, ScanInvariant, PTL
<1>6. QED
  BY <1>1, <1>3, <1>4, <1>5, <1>2, PTL DEF SysSpec, OnlyLeasedSweepsClose
=============================================================================
