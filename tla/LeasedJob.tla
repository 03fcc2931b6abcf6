------------------------------ MODULE LeasedJob ------------------------------
(***************************************************************************)
(* What the three schedulers of the application promise about a periodic   *)
(* job, with no mention of the lock row they use to keep the promise.      *)
(*                                                                         *)
(* A job may be run by any worker process.  A run may start only when      *)
(* every run under way is older than the lease LockStale: such a run is    *)
(* taken for the remains of a dead process.  Nothing bounds how long a     *)
(* run may last, so two runs can overlap once the lease of the first has   *)
(* lapsed, and only then.                                                  *)
(***************************************************************************)
EXTENDS Naturals

CONSTANTS
  Workers,    \* the worker processes that may run the job
  LockStale,  \* the lease, in clock ticks
  MaxLag      \* the most ticks between reading the clock and taking the lock

VARIABLES
  runners,    \* the workers whose run is under way
  runFor      \* runFor[w]: ticks since the clock reading that dates w's run

jobVars == <<runners, runFor>>

\* The largest age worth telling apart from a larger one.
Horizon == LockStale + MaxLag + 1

JobInit ==
  /\ runners = {}
  /\ runFor \in [Workers -> 0..Horizon]

\* A run starts; it may be dated up to MaxLag ticks back.
Begin(w) ==
  /\ w \notin runners
  /\ \A v \in runners : runFor[v] > LockStale
  /\ runFor[w] \in 0..MaxLag
  /\ runners' = runners \cup {w}
  /\ UNCHANGED runFor

\* A run ends: it completes, or its process dies.
End(w) ==
  /\ w \in runners
  /\ runners' = runners \ {w}
  /\ UNCHANGED runFor

\* A worker with no run under way reads the clock anew.
Prepare(w) ==
  /\ w \notin runners
  /\ runFor' = [runFor EXCEPT ![w] = 0]
  /\ UNCHANGED runners

\* Time passes for everybody.
Pass ==
  /\ runFor' = [w \in Workers |->
                  IF runFor[w] < Horizon THEN runFor[w] + 1 ELSE Horizon]
  /\ UNCHANGED runners

JobNext ==
  \/ \E w \in Workers : Begin(w) \/ End(w) \/ Prepare(w)
  \/ Pass

JobSpec == JobInit /\ [][JobNext]_jobVars
=============================================================================
