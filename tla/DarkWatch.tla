----------------------------- MODULE DarkWatch -----------------------------
(***************************************************************************)
(* The dark-web watchlist of one user: web/routers/darkweb_monitor.py, the *)
(* checks of modules/darkweb/monitor.py and the periodic sweep of          *)
(* modules/darkweb/scheduler.py.                                           *)
(*                                                                         *)
(* A check asks the sources, reads the fingerprints that are stored for    *)
(* the monitor, and stores an alert for each event whose fingerprint is    *)
(* not among them.  No constraint keeps a fingerprint unique; a manual     *)
(* check and the sweep, or two manual checks, may be at it together.       *)
(***************************************************************************)
EXTENDS FiniteSets, Naturals

CONSTANTS
  Monitors,    \* row ids of darkweb_monitors, all for one user and target
  Leaks,       \* the fingerprints of leak events
  LeakCheck,   \* those that LeakCheck reports; the others come with the
               \* breaches, pastes, GitHub exposures and actors
  Repeated,    \* those that one answer may list twice
  Adders,      \* requests that add the target
  Manual,      \* requests that check a monitor
  Sweepers     \* workers whose timers sweep

ASSUME DarkAssumption ==
  /\ LeakCheck \subseteq Leaks
  /\ Repeated \subseteq Leaks
  /\ Manual \cap Sweepers = {}
  /\ IsFiniteSet(Manual \cup Sweepers)

Checks == Manual \cup Sweepers
Copies(f) == IF f \in Repeated THEN 2 ELSE 1

VARIABLES
  leaked,      \* what the sources know of the target
  watch,       \* each row: "none", "present" or "deleted"
  due,         \* not checked, or longer ago than the interval
  alerts,      \* how many alerts are stored of each monitor and fingerprint
  addStage,    \* the requests that add
  chkStage,    \* the checks: "idle", "asking", "answered", "compared"
  chkOf,       \* the monitor each check is about, as a set of at most one
  events,      \* its events: how often each fingerprint is listed
  known,       \* the stored fingerprints it has read
  sweepLock,   \* the sweep's lock: its holders, one unless the lease lapsed
  sweepOn,     \* the sweeps under way
  sweepTodo    \* the due monitors each sweep has still to check

darkVars == <<leaked, watch, due, alerts, addStage, chkStage, chkOf, events,
              known, sweepLock, sweepOn, sweepTodo>>

DarkTypeOK ==
  /\ leaked \subseteq Leaks
  /\ watch \in [Monitors -> {"none", "present", "deleted"}]
  /\ due \in [Monitors -> BOOLEAN]
  /\ alerts \in [Monitors -> [Leaks -> Nat]]
  /\ addStage \in [Adders -> {"idle", "absent", "done"}]
  /\ chkStage \in [Checks -> {"idle", "asking", "answered", "compared"}]
  /\ chkOf \in [Checks -> SUBSET Monitors]
  /\ events \in [Checks -> [Leaks -> 0..2]]
  /\ known \in [Checks -> SUBSET Leaks]
  /\ sweepLock \subseteq Sweepers
  /\ sweepOn \subseteq Sweepers
  /\ sweepTodo \in [Sweepers -> SUBSET Monitors]

NoEvents == [f \in Leaks |-> 0]

DarkInit ==
  /\ leaked = {}
  /\ watch = [m \in Monitors |-> "none"]
  /\ due = [m \in Monitors |-> TRUE]
  /\ alerts = [m \in Monitors |-> NoEvents]
  /\ addStage = [a \in Adders |-> "idle"]
  /\ chkStage = [c \in Checks |-> "idle"]
  /\ chkOf = [c \in Checks |-> {}]
  /\ events = [c \in Checks |-> NoEvents]
  /\ known = [c \in Checks |-> {}]
  /\ sweepLock = {}
  /\ sweepOn = {}
  /\ sweepTodo = [s \in Sweepers |-> {}]

rowVars == <<watch, due, alerts>>
chkVars == <<chkStage, chkOf, events, known>>
sweepVars == <<sweepLock, sweepOn, sweepTodo>>

-----------------------------------------------------------------------------
(* The watchlist                                                           *)

\* The world: something leaks.
Leak(f) ==
  /\ f \notin leaked
  /\ leaked' = leaked \cup {f}
  /\ UNCHANGED <<rowVars, addStage, chkVars, sweepVars>>

Present == {m \in Monitors : watch[m] = "present"}

\* add_monitor looks for the target: 409 if it is there (and an error if it is
\* there twice), else it goes on.
LookForMonitor(a) ==
  /\ addStage[a] = "idle"
  /\ addStage' = [addStage EXCEPT ![a] = IF Present = {} THEN "absent"
                                                        ELSE "done"]
  /\ UNCHANGED <<leaked, rowVars, chkVars, sweepVars>>

\* The insert.  A request that looked at the same time adds the target again.
AddMonitor(a, m) ==
  /\ addStage[a] = "absent"
  /\ watch[m] = "none"
  /\ watch' = [watch EXCEPT ![m] = "present"]
  /\ addStage' = [addStage EXCEPT ![a] = "done"]
  /\ UNCHANGED <<leaked, due, alerts, chkVars, sweepVars>>

\* delete_monitor: the row, and its alerts with it.
DeleteMonitor(m) ==
  /\ watch[m] = "present"
  /\ watch' = [watch EXCEPT ![m] = "deleted"]
  /\ alerts' = [alerts EXCEPT ![m] = NoEvents]
  /\ UNCHANGED <<leaked, due, addStage, chkVars, sweepVars>>

\* The monitor was last checked longer ago than the interval.
IntervalPasses(m) ==
  /\ ~due[m]
  /\ due' = [due EXCEPT ![m] = TRUE]
  /\ UNCHANGED <<leaked, watch, alerts, addStage, chkVars, sweepVars>>

-----------------------------------------------------------------------------
(* One check: run_check_and_persist                                        *)

Asking(c, m) ==
  /\ chkStage' = [chkStage EXCEPT ![c] = "asking"]
  /\ chkOf' = [chkOf EXCEPT ![c] = {m}]
  /\ UNCHANGED <<events, known>>

\* POST .../check: the monitor is its user's and is there.
BeginCheck(c, m) ==
  /\ c \in Manual
  /\ chkStage[c] = "idle"
  /\ watch[m] = "present"
  /\ Asking(c, m)
  /\ UNCHANGED <<leaked, rowVars, addStage, sweepVars>>

\* The events of an answer: every leak of the groups that answered, the same
\* fingerprint twice where a source lists it twice.
LeakEvents(groups) ==
  {e \in [Leaks -> 0..2] :
     \A f \in Leaks : IF f \in groups \cap leaked THEN e[f] \in 1..Copies(f)
                                                 ELSE e[f] = 0}

\* _query_leakcheck: all of its hits, or none when it fails.  Never raises.
QueryLeakCheck == {{}, LeakCheck}

\* run_monitor_check: both lookups in parallel, an exception of either is an
\* empty result; a source behind the first that fails leaves out its part.
AskSources(c) ==
  /\ chkStage[c] = "asking"
  /\ \E broad \in SUBSET (Leaks \ LeakCheck), lc \in QueryLeakCheck :
       \E e \in LeakEvents(broad \cup lc) :
         events' = [events EXCEPT ![c] = e]
  /\ chkStage' = [chkStage EXCEPT ![c] = "answered"]
  /\ UNCHANGED <<leaked, rowVars, addStage, chkOf, known, sweepVars>>

\* The fingerprints stored for the monitor.
ReadKnown(c) ==
  /\ chkStage[c] = "answered"
  /\ known' = [known EXCEPT ![c] =
                 {f \in Leaks : \E m \in chkOf[c] : alerts[m][f] > 0}]
  /\ chkStage' = [chkStage EXCEPT ![c] = "compared"]
  /\ UNCHANGED <<leaked, rowVars, addStage, chkOf, events, sweepVars>>

\* Mutant of NewEvents.
NewEventsAnyway(c) == events[c]

\* diff_new_events: the events whose fingerprint was not known.  Two of one
\* answer with the same fingerprint are both new.
NewEvents(c) == [f \in Leaks |-> IF f \in known[c] THEN 0 ELSE events[c][f]]

Ended(c) ==
  /\ chkStage' = [chkStage EXCEPT ![c] = "idle"]
  /\ chkOf' = [chkOf EXCEPT ![c] = {}]
  /\ events' = [events EXCEPT ![c] = NoEvents]
  /\ known' = [known EXCEPT ![c] = {}]

\* The alerts are inserted and the check is dated; the foreign key needs the
\* monitor to be there still.
StoreAlerts(c) ==
  /\ chkStage[c] = "compared"
  /\ \E m \in chkOf[c] :
       /\ watch[m] = "present"
       /\ alerts' = [alerts EXCEPT ![m] =
                       [f \in Leaks |-> @[f] + NewEvents(c)[f]]]
       /\ due' = [due EXCEPT ![m] = FALSE]
  /\ Ended(c)
  /\ UNCHANGED <<leaked, watch, addStage, sweepVars>>

\* The monitor was deleted meanwhile, or the process dies.
CheckFails(c) ==
  /\ \/ chkStage[c] = "compared" /\ \E m \in chkOf[c] : watch[m] # "present"
     \/ chkStage[c] # "idle" /\ c \in Manual
  /\ Ended(c)
  /\ UNCHANGED <<leaked, rowVars, addStage, sweepVars>>

-----------------------------------------------------------------------------
(* The sweep: run_scheduled_scan                                           *)

\* The lock is free; the monitors that are due are listed once.
BeginSweep(s) ==
  /\ s \notin sweepOn
  /\ sweepLock = {}
  /\ sweepLock' = {s}
  /\ sweepOn' = sweepOn \cup {s}
  /\ sweepTodo' = [sweepTodo EXCEPT ![s] = {m \in Present : due[m]}]
  /\ UNCHANGED <<leaked, rowVars, addStage, chkVars>>

\* The next of the list, unless it is gone.  It is checked even if it has been
\* checked since the list was made.
SweepNext(s, m) ==
  /\ s \in sweepOn
  /\ chkStage[s] = "idle"
  /\ m \in sweepTodo[s]
  /\ sweepTodo' = [sweepTodo EXCEPT ![s] = @ \ {m}]
  /\ IF watch[m] = "present" THEN Asking(s, m) ELSE UNCHANGED chkVars
  /\ UNCHANGED <<leaked, rowVars, addStage, sweepLock, sweepOn>>

\* The finally clause: the lock is released if it is still this worker's.
EndSweep(s) ==
  /\ s \in sweepOn
  /\ chkStage[s] = "idle"
  /\ sweepTodo[s] = {}
  /\ sweepOn' = sweepOn \ {s}
  /\ sweepLock' = sweepLock \ {s}
  /\ UNCHANGED <<leaked, rowVars, addStage, chkVars, sweepTodo>>

\* The worker dies within a sweep, and starts again; its lock stays.
CrashSweep(s) ==
  /\ s \in sweepOn
  /\ sweepOn' = sweepOn \ {s}
  /\ sweepTodo' = [sweepTodo EXCEPT ![s] = {}]
  /\ Ended(s)
  /\ UNCHANGED <<leaked, rowVars, addStage, sweepLock>>

\* The lock is older than its lease.
LapseSweepLock ==
  /\ sweepLock # {}
  /\ sweepLock' = {}
  /\ UNCHANGED <<leaked, rowVars, addStage, chkVars, sweepOn, sweepTodo>>

CheckNext(c) ==
  \/ AskSources(c)
  \/ ReadKnown(c)
  \/ StoreAlerts(c)
  \/ CheckFails(c)

DarkNext ==
  \/ \E f \in Leaks : Leak(f)
  \/ \E a \in Adders : LookForMonitor(a) \/ \E m \in Monitors : AddMonitor(a, m)
  \/ \E m \in Monitors : DeleteMonitor(m) \/ IntervalPasses(m)
  \/ \E c \in Manual, m \in Monitors : BeginCheck(c, m)
  \/ \E c \in Checks : CheckNext(c)
  \/ \E s \in Sweepers :
       \/ BeginSweep(s)
       \/ \E m \in Monitors : SweepNext(s, m)
       \/ EndSweep(s)
       \/ CrashSweep(s)
  \/ LapseSweepLock

DarkSpec == DarkInit /\ [][DarkNext]_darkVars

-----------------------------------------------------------------------------
(* Properties                                                              *)

\* A deleted monitor leaves no alert behind, although checks of it were under
\* way; and although nothing keeps fingerprints unique, a leak is stored at most
\* once per check that can be under way at a time, times the copies in one
\* answer: whoever reads after the first commit leaves it out.
AlertsBounded ==
  \A m \in Monitors, f \in Leaks :
    /\ watch[m] # "present" => alerts[m][f] = 0
    /\ alerts[m][f] <= Copies(f) * Cardinality(Checks)

=============================================================================
