------------------------- MODULE SchedulerLease_proofs -------------------------
(***************************************************************************)
(* Theorems about SchedulerLease, for any number of workers, any lease and *)
(* any lag of a claim.                                                     *)
(***************************************************************************)
EXTENDS SchedulerLease, TLAPS

\* A claim has seen the row and was begun recently; a worker that works under
\* the lock either is the holder, and the lock is as old as its run, or has
\* overstayed its lease.
LeaseInv ==
  /\ \A w \in Workers : pc[w] = "claim" => since[w] <= MaxLag
  /\ \A w \in Workers : InCritical(w) =>
       IF lockedBy = w THEN lockAge = since[w] ELSE since[w] > LockStale

\* Ages keep their range, and an age past the lease stays past it.
LEMMA OlderAge ==
  ASSUME NEW a \in 0..Horizon
  PROVE  /\ Older(a) \in 0..Horizon
         /\ a > LockStale => Older(a) > LockStale
         /\ a < MaxLag => Older(a) <= MaxLag
  BY LeaseAssumption DEF Older, Horizon

\* Every variable keeps its type: in particular no age runs past Horizon.
THEOREM LeaseTypeCorrect == LeaseSpec => []LeaseTypeOK
<1>1. LeaseInit => LeaseTypeOK
  <2>1. 0 \in 0..Horizon
    BY LeaseAssumption DEF Horizon
  <2>2. QED
    BY <2>1, Zenon DEF LeaseInit, LeaseTypeOK, Stages
<1>2. LeaseTypeOK /\ [LeaseNext]_leaseVars => LeaseTypeOK'
  <2> SUFFICES ASSUME LeaseTypeOK, [LeaseNext]_leaseVars
               PROVE  LeaseTypeOK'
    OBVIOUS
  <2> USE DEF LeaseTypeOK, Stages
  <2> 0 \in 0..Horizon
    BY LeaseAssumption DEF Horizon
  <2>1. ASSUME NEW w \in Workers, Start(w) \/ FinishBody(w) \/ LogCrash(w)
        PROVE  LeaseTypeOK'
    BY <2>1 DEF Start, FinishBody, LogCrash, Move
  <2>2. ASSUME NEW w \in Workers, SelectRow(w) PROVE LeaseTypeOK'
    BY <2>2 DEF SelectRow, Move, ReadClock
  <2>3. ASSUME NEW w \in Workers, InsertRow(w) PROVE LeaseTypeOK'
    BY <2>3 DEF InsertRow, Inserts, Move, ReadClock
  <2>4. ASSUME NEW w \in Workers, InsertConflict(w) \/ LockHeld(w)
        PROVE  LeaseTypeOK'
    BY <2>4 DEF InsertConflict, LockHeld, Move
  <2>5. ASSUME NEW w \in Workers, ClaimLock(w) PROVE LeaseTypeOK'
    BY <2>5 DEF ClaimLock, Claims, Claimable, Move
  <2>6. ASSUME NEW w \in Workers, ReleaseLock(w) PROVE LeaseTypeOK'
    BY <2>6 DEF ReleaseLock, Releases, Move
  <2>7. ASSUME NEW w \in Workers, DbError(w) \/ Crash(w) PROVE LeaseTypeOK'
    BY <2>7 DEF DbError, Crash
  <2>8. ASSUME NEW w \in Workers, LostAck(w) PROVE LeaseTypeOK'
    <3>1. CASE pc[w] = "insert" /\ Inserts
      BY <2>8, <3>1 DEF LostAck, Inserts
    <3>2. CASE pc[w] = "claim" /\ Claims(w)
      BY <2>8, <3>2 DEF LostAck, Claims
    <3>3. CASE pc[w] = "release" /\ Releases(w)
      BY <2>8, <3>3 DEF LostAck, Releases
    <3>4. QED
      BY <2>8, <3>1, <3>2, <3>3 DEF LostAck
  <2>9. CASE Tick
    BY <2>9, OlderAge DEF Tick
  <2>10. CASE UNCHANGED leaseVars
    BY <2>10 DEF leaseVars
  <2>11. QED
    BY <2>1, <2>2, <2>3, <2>4, <2>5, <2>6, <2>7, <2>9, <2>10, <2>8
    DEF LeaseNext, Work, Acquire
<1>3. QED
  BY <1>1, <1>2, PTL DEF LeaseSpec

-----------------------------------------------------------------------------
LEMMA LeaseInvInit == LeaseInit => LeaseInv
  BY LeaseAssumption DEF LeaseInit, LeaseInv, InCritical

LEMMA LeaseInvStep ==
  LeaseTypeOK /\ LeaseInv /\ [LeaseNext]_leaseVars => LeaseInv'
<1> SUFFICES ASSUME LeaseTypeOK, LeaseInv, [LeaseNext]_leaseVars
             PROVE  LeaseInv'
  OBVIOUS
<1> USE LeaseAssumption DEF LeaseTypeOK, LeaseInv, InCritical
<1>1. ASSUME NEW w \in Workers, Start(w) \/ FinishBody(w) \/ LogCrash(w)
      PROVE  LeaseInv'
  BY <1>1 DEF Start, FinishBody, LogCrash, Move
<1>2. ASSUME NEW w \in Workers, SelectRow(w) PROVE LeaseInv'
  BY <1>2 DEF SelectRow, Move, ReadClock
<1>3. ASSUME NEW w \in Workers, InsertRow(w) PROVE LeaseInv'
  BY <1>3 DEF InsertRow, Inserts, Move, ReadClock
<1>4. ASSUME NEW w \in Workers, InsertConflict(w) \/ LockHeld(w)
      PROVE  LeaseInv'
  BY <1>4 DEF InsertConflict, LockHeld, Move
\* whoever loses the lock to w had it for longer than the lease
<1>0. ASSUME NEW w \in Workers, pc[w] = "claim", Claims(w),
             NEW v \in Workers, v # w, InCritical(v)
      PROVE  since[v] > LockStale
  <2>1. CASE lockedBy = v
    BY <1>0, <2>1 DEF Claims, Claimable, Horizon
  <2>2. CASE lockedBy # v
    BY <1>0, <2>2
  <2>3. QED
    BY <2>1, <2>2
<1>5. ASSUME NEW w \in Workers, ClaimLock(w) PROVE LeaseInv'
  <2>1. \A v \in Workers : v # w /\ InCritical(v) => since[v] > LockStale
    BY <1>0, <1>5 DEF ClaimLock, Move
  <2>2. QED
    BY <1>5, <2>1 DEF ClaimLock, Claims, Move
<1>6. ASSUME NEW w \in Workers, ReleaseLock(w) PROVE LeaseInv'
  BY <1>6 DEF ReleaseLock, Releases, Move
<1>7. ASSUME NEW w \in Workers, LostAck(w) PROVE LeaseInv'
  <2>1. CASE pc[w] = "insert" /\ Inserts
    BY <1>7, <2>1 DEF LostAck, Inserts
  <2>2. CASE pc[w] = "claim" /\ Claims(w)
    <3>1. \A v \in Workers : v # w /\ InCritical(v) => since[v] > LockStale
      BY <1>0, <2>2
    <3>2. QED
      BY <1>7, <2>2, <3>1 DEF LostAck, Claims
  <2>3. CASE pc[w] = "release" /\ Releases(w)
    BY <1>7, <2>3 DEF LostAck, Releases
  <2>4. QED
    BY <1>7, <2>1, <2>2, <2>3 DEF LostAck
<1>8. ASSUME NEW w \in Workers, DbError(w) \/ Crash(w) PROVE LeaseInv'
  BY <1>8 DEF DbError, Crash
<1>9. CASE Tick
  <2>1. ASSUME NEW w \in Workers, pc[w] = "claim" PROVE since'[w] <= MaxLag
    BY <1>9, <2>1, OlderAge DEF Tick
  <2>2. ASSUME NEW w \in Workers, InCritical(w)
        PROVE  IF lockedBy = w THEN lockAge' = since'[w]
                               ELSE since'[w] > LockStale
    BY <1>9, <2>2, OlderAge DEF Tick
  <2>3. QED
    BY <1>9, <2>1, <2>2 DEF Tick
<1>10. CASE UNCHANGED leaseVars
  BY <1>10 DEF leaseVars
<1>11. QED
  BY <1>1, <1>2, <1>3, <1>4, <1>5, <1>6, <1>8, <1>9, <1>10, <1>7
  DEF LeaseNext, Work, Acquire

THEOREM LeaseInvariant == LeaseSpec => []LeaseInv
  BY LeaseTypeCorrect, LeaseInvInit, LeaseInvStep, PTL DEF LeaseSpec

\* A worker that still works although the row no longer names it has outlived
\* its lease: the reclaiming UPDATE never takes a lock early, however long a
\* worker lingers between reading its clock and that UPDATE.
THEOREM LapsedOnly == LeaseSpec => []OnlyLapsedLosesLock
<1>1. LeaseInv => OnlyLapsedLosesLock
  BY DEF LeaseInv, OnlyLapsedLosesLock
<1>2. QED
  BY <1>1, LeaseInvariant, PTL

\* Within its lease, a run of the job is alone.
THEOREM AloneWithinLease == LeaseSpec => []NoOverlapWithinLease
<1>1. LeaseInv => NoOverlapWithinLease
  BY DEF LeaseInv, NoOverlapWithinLease
<1>2. QED
  BY <1>1, LeaseInvariant, PTL

\* The holder loses the lock by its own release or to staleness, and to no
\* other worker's late release.
THEOREM ReleasedOrStale == LeaseSpec => OnlyReleasedOrStale
<1> DEFINE Kept ==
      lockedBy # NoOne /\ lockedBy' # lockedBy =>
        \/ pc[lockedBy] = "release" /\ pc'[lockedBy] \in {"idle", "raised"}
        \/ lockAge > LockStale
<1>1. LeaseTypeOK /\ LeaseInv /\ [LeaseNext]_leaseVars => [Kept]_leaseVars
  <2> SUFFICES ASSUME LeaseTypeOK, LeaseInv, LeaseNext
               PROVE  Kept
    BY DEF leaseVars
  <2> USE LeaseAssumption DEF LeaseTypeOK, LeaseInv
  <2>1. ASSUME NEW w \in Workers, InsertRow(w) PROVE Kept
    BY <2>1 DEF InsertRow, Inserts
  <2>2. ASSUME NEW w \in Workers, ClaimLock(w) PROVE Kept
    BY <2>2 DEF ClaimLock, Claims, Claimable, Horizon
  <2>3. ASSUME NEW w \in Workers, ReleaseLock(w) PROVE Kept
    BY <2>3 DEF ReleaseLock, Releases, Move
  <2>4. ASSUME NEW w \in Workers, LostAck(w) PROVE Kept
    <3>1. CASE pc[w] = "insert" /\ Inserts
      BY <3>1 DEF Inserts
    <3>2. CASE pc[w] = "claim" /\ Claims(w)
      BY <3>2 DEF Claims, Claimable, Horizon
    <3>3. CASE pc[w] = "release" /\ Releases(w)
      BY <2>4, <3>3 DEF LostAck, Releases
    <3>4. QED
      BY <2>4, <3>1, <3>2, <3>3 DEF LostAck
  <2>5. ASSUME lockedBy' = lockedBy PROVE Kept
    BY <2>5
  <2>6. QED
    BY <2>1, <2>2, <2>3, <2>5, <2>4
    DEF LeaseNext, Work, Acquire, Start, SelectRow, InsertConflict, LockHeld,
        FinishBody, LogCrash, DbError, Crash, Tick
<1>2. QED
  BY <1>1, LeaseTypeCorrect, LeaseInvariant, PTL
  DEF LeaseSpec, OnlyReleasedOrStale

-----------------------------------------------------------------------------
\* Each step of the lock is a step of the job it guards, or none.
LEMMA LeaseStepRefines ==
  ASSUME LeaseTypeOK, LeaseInv, LeaseInv', [LeaseNext]_leaseVars
  PROVE  [Job!JobNext]_Job!jobVars
<1> DEFINE Runners == {w \in Workers : InCritical(w)}
<1> USE LeaseAssumption DEF LeaseTypeOK, InCritical
<1>1. ASSUME Runners' = Runners, since' = since
      PROVE  UNCHANGED Job!jobVars
  BY <1>1 DEF Job!jobVars
<1>2. ASSUME NEW w \in Workers,
             Start(w) \/ FinishBody(w) \/ LogCrash(w) \/ LockHeld(w) \/ InsertConflict(w)
      PROVE  Runners' = Runners /\ since' = since
  BY <1>2 DEF Start, FinishBody, LogCrash, LockHeld, InsertConflict, Move
<1>3. ASSUME NEW w \in Workers, SelectRow(w) \/ InsertRow(w)
      PROVE  \/ Runners' = Runners /\ since' = since
             \/ Job!Prepare(w)
  <2>1. w \notin Runners /\ Runners' = Runners
    BY <1>3 DEF SelectRow, InsertRow, Move
  <2>2. since' = since \/ since' = [since EXCEPT ![w] = 0]
    BY <1>3 DEF SelectRow, InsertRow, ReadClock
  <2>3. QED
    BY <2>1, <2>2 DEF Job!Prepare
<1>4. ASSUME NEW w \in Workers, ClaimLock(w)
      PROVE  Job!Begin(w)
  <2>1. w \notin Runners /\ Runners' = Runners \cup {w}
    BY <1>4 DEF ClaimLock, Move
  <2>2. \A v \in Runners : since[v] > LockStale
    BY <1>4 DEF ClaimLock, Claims, Claimable, LeaseInv, Move, Horizon
  <2>3. since[w] \in 0..MaxLag
    BY <1>4 DEF ClaimLock, Move, LeaseInv, Horizon
  <2>4. QED
    BY <1>4, <2>1, <2>2, <2>3 DEF Job!Begin, ClaimLock
<1>5. ASSUME NEW w \in Workers, ReleaseLock(w) \/ DbError(w) \/ LostAck(w) \/ Crash(w)
      PROVE  \/ Runners' = Runners /\ since' = since
             \/ Job!End(w)
  <2>1. Runners' = Runners \ {w}
    BY <1>5 DEF ReleaseLock, DbError, LostAck, Crash, Move
  <2>2. since' = since
    BY <1>5 DEF ReleaseLock, DbError, LostAck, Crash
  <2>3. CASE w \in Runners
    BY <2>1, <2>2, <2>3 DEF Job!End
  <2>4. CASE w \notin Runners
    BY <2>1, <2>2, <2>4
  <2>5. QED
    BY <2>3, <2>4
<1>6. ASSUME Tick PROVE Job!Pass
  <2>1. Runners' = Runners
    BY <1>6 DEF Tick
  <2>2. since' = [w \in Workers |->
                   IF since[w] < Job!Horizon THEN since[w] + 1 ELSE Job!Horizon]
    BY <1>6 DEF Tick, Older, Horizon, Job!Horizon
  <2>3. QED
    BY <2>1, <2>2 DEF Job!Pass
<1>7. ASSUME UNCHANGED leaseVars
      PROVE  Runners' = Runners /\ since' = since
  BY <1>7 DEF leaseVars
<1>8. QED
  BY <1>1, <1>2, <1>3, <1>4, <1>5, <1>6, <1>7, Zenon
  DEF LeaseNext, Work, Acquire, Job!JobNext

\* The lock row, its INSERT race, its clock readings and its crashes implement
\* a job whose runs overlap only past the lease.
THEOREM LeaseRefinement == LeaseSpec => ImplementsLeasedJob
<1>1. LeaseInit => Job!JobInit
  <2>1. 0 \in 0..Job!Horizon
    BY LeaseAssumption DEF Job!Horizon
  <2>2. QED
    BY <2>1 DEF LeaseInit, Job!JobInit, InCritical
<1>2. LeaseTypeOK /\ LeaseInv /\ LeaseInv' /\ [LeaseNext]_leaseVars
        => [Job!JobNext]_Job!jobVars
  BY LeaseStepRefines
<1>3. QED
  BY <1>1, <1>2, LeaseTypeCorrect, LeaseInvariant, PTL
  DEF LeaseSpec, ImplementsLeasedJob, Job!JobSpec
=============================================================================
