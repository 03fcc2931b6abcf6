------------------------------ MODULE IocStore ------------------------------
(***************************************************************************)
(* The local store of indicators: modules/ioc/ioc_engine.py, the periodic  *)
(* feed syncs of modules/ioc/scheduler.py, the routes of                   *)
(* web/routers/ioc.py, and the mining of indicators from the findings of a *)
(* scan (web/app.py).                                                      *)
(*                                                                         *)
(* A batch is one session: it looks an indicator up, updates or inserts    *)
(* it, goes on to the next, and commits once.  The database is PostgreSQL: *)
(* a row that a transaction has written is locked until it ends, a second  *)
(* insert of one key waits for the first to commit and then fails, and one *)
(* of two transactions that wait for each other is aborted.                *)
(***************************************************************************)
EXTENDS FiniteSets, Naturals

CONSTANTS
  Iocs,        \* the (ioc_type, ioc_value) pairs of a type that is stored
  OtherTypes,  \* indicators of types the table does not have (cve, mutex)
  Otx, Urlhaus, \* the sessions that sync one feed or the other
  Scheduled,   \* the syncs that a timer starts; the others are requests
  Minings,     \* the last transactions of scans
  NotMined,    \* indicators that are the scanned host itself, or private
  NoRow

ASSUME IocAssumption ==
  /\ Iocs \cap OtherTypes = {}
  /\ Otx \cap Urlhaus = {}
  /\ (Otx \cup Urlhaus) \cap Minings = {}
  /\ Scheduled \subseteq Otx \cup Urlhaus
  /\ NotMined \subseteq Iocs
  /\ NoRow \notin {"scan_finding", "otx", "urlhaus"}
  /\ NoRow \notin Otx \cup Urlhaus \cup Minings

Syncs == Otx \cup Urlhaus
Feeds == {"otx", "urlhaus"}
Batches == Syncs \cup Minings

VARIABLES
  iocRow,      \* the committed table: the source of each indicator, or NoRow
  iocLock,     \* the lock row of each feed's job: its holder, or NoRow
  iocMaker,    \* history: the batch that inserted each row
  iocStage,    \* where each batch is
  iocItems,    \* what it was asked to store
  iocLeft,     \* what it has still to store
  iocLooked,   \* the indicator it has looked up and has yet to write, if any
  iocFound,    \* whether that lookup found a row
  iocWrote,    \* the keys it holds locks on: inserted or updated
  iocNew       \* the keys among them that it inserted

iocVars == <<iocRow, iocLock, iocMaker, iocStage, iocItems, iocLeft, iocLooked,
             iocFound, iocWrote, iocNew>>

FeedOf(b) == IF b \in Otx THEN "otx" ELSE "urlhaus"
SourceOf(b) == IF b \in Syncs THEN FeedOf(b) ELSE "scan_finding"

IocTypeOK ==
  /\ iocRow \in [Iocs -> Feeds \cup {NoRow, "scan_finding"}]
  /\ iocLock \in [Feeds -> Scheduled \cup {NoRow}]
  /\ iocMaker \in [Iocs -> Batches \cup {NoRow}]
  /\ iocStage \in [Batches ->
       {"idle", "fetching", "storing", "broken", "done", "failed"}]
  /\ iocItems \in [Batches -> SUBSET (Iocs \cup OtherTypes)]
  /\ iocLeft \in [Batches -> SUBSET Iocs]
  /\ iocLooked \in [Batches -> SUBSET Iocs]
  /\ iocFound \in [Batches -> BOOLEAN]
  /\ iocWrote \in [Batches -> SUBSET Iocs]
  /\ iocNew \in [Batches -> SUBSET Iocs]

IocInit ==
  /\ iocRow = [i \in Iocs |-> NoRow]
  /\ iocLock = [f \in Feeds |-> NoRow]
  /\ iocMaker = [i \in Iocs |-> NoRow]
  /\ iocStage = [b \in Batches |-> "idle"]
  /\ iocItems = [b \in Batches |-> {}]
  /\ iocLeft = [b \in Batches |-> {}]
  /\ iocLooked = [b \in Batches |-> {}]
  /\ iocFound = [b \in Batches |-> FALSE]
  /\ iocWrote = [b \in Batches |-> {}]
  /\ iocNew = [b \in Batches |-> {}]

-----------------------------------------------------------------------------
(* Extraction                                                              *)

\* What the evidence of a finding names: hosts and addresses of others.  The
\* scanned host itself and private addresses are left out.
ExtractIocs(evidence) == evidence \ NotMined

\* What a list of indicators matches in the store: the rows that are there.
\* (They must also be active, which a row is made as and which nothing in the
\* program takes from it.)
MatchScanResults(candidates) == {i \in candidates \cap Iocs : iocRow[i] # NoRow}

-----------------------------------------------------------------------------
(* A batch                                                                 *)

\* POST /api/iocs/sync, POST /api/iocs/sync/urlhaus.
BeginSync(b) ==
  /\ b \in Syncs \ Scheduled
  /\ iocStage[b] = "idle"
  /\ iocStage' = [iocStage EXCEPT ![b] = "fetching"]
  /\ UNCHANGED <<iocRow, iocLock, iocMaker, iocItems, iocLeft, iocLooked,
                 iocFound, iocWrote, iocNew>>

\* A timer fires and gets the lock of its feed (SchedulerLease has the lock in
\* detail; two sweeps of one feed never run together within the lease).
AcquireSyncLock(b) ==
  /\ b \in Scheduled
  /\ iocStage[b] = "idle"
  /\ iocLock[FeedOf(b)] = NoRow
  /\ iocLock' = [iocLock EXCEPT ![FeedOf(b)] = b]
  /\ iocStage' = [iocStage EXCEPT ![b] = "fetching"]
  /\ UNCHANGED <<iocRow, iocMaker, iocItems, iocLeft, iocLooked, iocFound,
                 iocWrote, iocNew>>

Fetched(b, items) ==
  /\ iocStage[b] = "fetching"
  /\ iocItems' = [iocItems EXCEPT ![b] = items]
  /\ iocLeft' = [iocLeft EXCEPT ![b] = items \cap Iocs]
  /\ iocStage' = [iocStage EXCEPT ![b] = "storing"]
  /\ UNCHANGED <<iocRow, iocLock, iocMaker, iocLooked, iocFound, iocWrote,
                 iocNew>>

\* sync_from_otx: indicators of every type; those without a place in the table
\* are counted as skipped.  A fetch that fails, or has no key, stores nothing.
FetchOtx(b) ==
  b \in Otx /\ \E items \in SUBSET (Iocs \cup OtherTypes) : Fetched(b, items)

\* sync_from_urlhaus: URLs only, all of a type that is stored.
FetchUrlhaus(b) == b \in Urlhaus /\ \E items \in SUBSET Iocs : Fetched(b, items)

\* The last transaction of a scan has flushed its findings and mines them.
BeginMining(b) ==
  /\ b \in Minings
  /\ iocStage[b] = "idle"
  /\ \E evidence \in SUBSET Iocs :
        /\ iocItems' = [iocItems EXCEPT ![b] = ExtractIocs(evidence)]
        /\ iocLeft' = [iocLeft EXCEPT ![b] = ExtractIocs(evidence)]
  /\ iocStage' = [iocStage EXCEPT ![b] = "storing"]
  /\ UNCHANGED <<iocRow, iocLock, iocMaker, iocLooked, iocFound, iocWrote, iocNew>>

\* upsert: get_by_value sees what is committed, and the batch's own writes.
GetByValue(b) ==
  /\ iocStage[b] = "storing"
  /\ iocLooked[b] = {}
  /\ \E i \in iocLeft[b] :
        /\ iocLooked' = [iocLooked EXCEPT ![b] = {i}]
        /\ iocFound' = [iocFound EXCEPT ![b] =
                          iocRow[i] # NoRow \/ i \in iocNew[b]]
  /\ UNCHANGED <<iocRow, iocLock, iocMaker, iocStage, iocItems, iocLeft, iocWrote,
                 iocNew>>

\* Nobody else's open transaction has written the row.
Unlocked(b, i) == \A c \in Batches \ {b} : i \notin iocWrote[c]

Written(b, i) ==
  /\ iocWrote' = [iocWrote EXCEPT ![b] = @ \cup {i}]
  /\ iocLeft' = [iocLeft EXCEPT ![b] = @ \ {i}]
  /\ iocLooked' = [iocLooked EXCEPT ![b] = {}]

\* upsert of a row that was there: source, score and tags are replaced, the
\* identity and first_seen are not.
UpdateLastSeen(b, i) ==
  /\ iocStage[b] = "storing"
  /\ i \in iocLooked[b]
  /\ iocFound[b]
  /\ Unlocked(b, i)
  /\ Written(b, i)
  /\ UNCHANGED <<iocRow, iocLock, iocMaker, iocStage, iocItems, iocFound, iocNew>>

\* Mutant of CreateIoc.
CreateAndCommit(b, i) ==
  /\ iocStage[b] = "storing"
  /\ i \in iocLooked[b]
  /\ ~iocFound[b]
  /\ Unlocked(b, i)
  /\ iocRow[i] = NoRow
  /\ iocRow' = [iocRow EXCEPT ![i] = SourceOf(b)]
  /\ iocMaker' = [iocMaker EXCEPT ![i] = b]
  /\ iocLeft' = [iocLeft EXCEPT ![b] = @ \ {i}]
  /\ iocLooked' = [iocLooked EXCEPT ![b] = {}]
  /\ UNCHANGED <<iocLock, iocStage, iocItems, iocFound, iocWrote, iocNew>>

\* upsert of one that was not.
CreateIoc(b, i) ==
  /\ iocStage[b] = "storing"
  /\ i \in iocLooked[b]
  /\ ~iocFound[b]
  /\ Unlocked(b, i)
  /\ iocRow[i] = NoRow
  /\ Written(b, i)
  /\ iocNew' = [iocNew EXCEPT ![b] = @ \cup {i}]
  /\ UNCHANGED <<iocRow, iocLock, iocMaker, iocStage, iocItems, iocFound>>

\* The session after an error at a flush: rolled back, its locks released.
RolledBack(b) ==
  /\ iocWrote' = [iocWrote EXCEPT ![b] = {}]
  /\ iocNew' = [iocNew EXCEPT ![b] = {}]
  /\ iocLeft' = [iocLeft EXCEPT ![b] = {}]
  /\ iocLooked' = [iocLooked EXCEPT ![b] = {}]
  /\ UNCHANGED <<iocRow, iocLock, iocMaker, iocItems, iocFound>>

\* Two open batches, each waiting for a row the other has written.
Deadlocked(b) ==
  \E c \in Batches \ {b} : /\ iocLooked[b] \cap iocWrote[c] # {}
                           /\ iocLooked[c] \cap iocWrote[b] # {}

\* The insert meets a row that was committed since the lookup, or the database
\* breaks a deadlock.  A sync ends with an error.  Mining swallows the error for
\* each finding, but the session it shares with the scan stays broken.
FlushError(b) ==
  /\ iocStage[b] = "storing"
  /\ \/ Deadlocked(b)
     \/ \E i \in iocLooked[b] : /\ ~iocFound[b]
                                /\ Unlocked(b, i)
                                /\ iocRow[i] # NoRow
  /\ iocStage' = [iocStage EXCEPT ![b] =
                    IF b \in Syncs THEN "failed" ELSE "broken"]
  /\ RolledBack(b)

\* The scan's commit on a broken session raises: its findings are not saved.
CommitRaises(b) ==
  /\ iocStage[b] = "broken"
  /\ iocStage' = [iocStage EXCEPT ![b] = "failed"]
  /\ UNCHANGED <<iocRow, iocLock, iocMaker, iocItems, iocLeft, iocLooked, iocFound,
                 iocWrote, iocNew>>

\* The caller's one commit: the sync's or the scan's.
CommitBatch(b) ==
  /\ iocStage[b] = "storing"
  /\ iocLeft[b] = {}
  /\ iocRow' = [i \in Iocs |-> IF i \in iocWrote[b] THEN SourceOf(b)
                                                    ELSE iocRow[i]]
  /\ iocMaker' = [i \in Iocs |-> IF i \in iocNew[b] THEN b ELSE iocMaker[i]]
  /\ iocStage' = [iocStage EXCEPT ![b] = "done"]
  /\ iocWrote' = [iocWrote EXCEPT ![b] = {}]
  /\ iocNew' = [iocNew EXCEPT ![b] = {}]
  /\ UNCHANGED <<iocLock, iocItems, iocLeft, iocLooked, iocFound>>

\* The finally clause of run_scheduled_sync and run_scheduled_urlhaus_sync: the
\* lock is released whether the sync succeeded or not, if it is still this one's.
ReleaseSyncLock(b) ==
  /\ iocStage[b] \in {"done", "failed"}
  /\ b \in Scheduled /\ iocLock[FeedOf(b)] = b
  /\ iocLock' = [iocLock EXCEPT ![FeedOf(b)] = NoRow]
  /\ UNCHANGED <<iocRow, iocMaker, iocStage, iocItems, iocLeft, iocLooked,
                 iocFound, iocWrote, iocNew>>

\* A lock that is older than its lease is as good as free: a sync that takes
\* that long, or died, is joined by another.
LapseSyncLock(f) ==
  /\ iocLock[f] # NoRow
  /\ iocLock' = [iocLock EXCEPT ![f] = NoRow]
  /\ UNCHANGED <<iocRow, iocMaker, iocStage, iocItems, iocLeft, iocLooked,
                 iocFound, iocWrote, iocNew>>

\* The process dies, and the transaction with it.
CrashBatch(b) ==
  /\ iocStage[b] \in {"fetching", "storing", "broken"}
  /\ iocStage' = [iocStage EXCEPT ![b] = "failed"]
  /\ RolledBack(b)

IocNext ==
  \/ \E f \in Feeds : LapseSyncLock(f)
  \/ \E b \in Batches :
    \/ BeginSync(b)
    \/ AcquireSyncLock(b)
    \/ FetchOtx(b)
    \/ FetchUrlhaus(b)
    \/ ReleaseSyncLock(b)
    \/ BeginMining(b)
    \/ GetByValue(b)
    \/ \E i \in Iocs : UpdateLastSeen(b, i) \/ CreateIoc(b, i)
    \/ FlushError(b)
    \/ CommitRaises(b)
    \/ CommitBatch(b)
    \/ CrashBatch(b)

IocSpec == IocInit /\ [][IocNext]_iocVars

-----------------------------------------------------------------------------
(* Properties                                                              *)

\* A batch is stored whole or not at all: whatever a sync or a scan was asked
\* to store is matched in the table once it has reported success, and nothing in
\* the table was inserted by one that failed (the single commit of sync_iocs,
\* run_scheduled_sync and the scan task).
BatchesAreWhole ==
  /\ \A b \in Batches : iocStage[b] = "done" =>
        MatchScanResults(iocItems[b]) = iocItems[b] \cap Iocs
  /\ \A i \in Iocs : iocRow[i] # NoRow =>
        iocMaker[i] \in Batches /\ iocStage[iocMaker[i]] = "done"

\* "any failure here ... is logged and swallowed per-finding so it can never
\* prevent the scan's own Finding rows from being saved/committed"
\* (web/app.py:2003): a broken session is never the scan's.
MiningNeverBlocks == \A b \in Minings : iocStage[b] # "broken"

=============================================================================
