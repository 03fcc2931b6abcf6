--------------------------- MODULE EternalArchive ---------------------------
(***************************************************************************)
(* The hybrid store of the Eternal Core app (app/): run_scan saves one      *)
(* artifact under a target of its own, a weekly job moves the artifacts     *)
(* that have become old from the database to one object per target, and     *)
(* query_timeline reads both.  The job runs in a thread of the API process: *)
(* every request may fall between two of its steps, and any of its steps    *)
(* may be its last.                                                         *)
(***************************************************************************)
EXTENDS Naturals, FiniteSets

CONSTANTS
  Artifacts,  \* each stands for its target as well
  Readers     \* calls of query_timeline in progress

VARIABLES
  hot,        \* the rows of recon_artifacts
  aged,       \* artifacts older than ETERNAL_ARCHIVE_AGE_MONTHS
  origin,     \* source_type of the artifacts saved so far
  audit,      \* the artifacts whose scan is in the audit log
  objects,    \* targets/<id>/archive.parquet
  summaries,  \* targets/<id>/archive_summary.json
  job,        \* archive_old_records: what it read, and what it has put so far
  timeline    \* what each reader has

archiveVars ==
  <<hot, aged, origin, audit, objects, summaries, job, timeline>>

NoJob == [stage |-> "idle", picked |-> {}, put |-> {}, last |-> ""]
NoRead ==
  [stage |-> "idle", of |-> "", known |-> FALSE, row |-> FALSE, copy |-> FALSE, failed |-> FALSE]

Saved == DOMAIN origin

ArchiveInit ==
  /\ hot = {} /\ aged = {} /\ audit = {} /\ objects = {} /\ summaries = {}
  /\ origin = [a \in {} |-> ""]
  /\ job = NoJob
  /\ timeline = [r \in Readers |-> NoRead]

-----------------------------------------------------------------------------

\* check_hibp asks once more after a 429; scan_email falls back to mock data on
\* every answer but 200 and 404.
SourceType(first, second) ==
  IF (IF first = 429 THEN second ELSE first) \in {200, 404} THEN "HIBP" ELSE "mock_fallback"

\* save_active commits the target and its artifact together.
SaveActive(a) ==
  /\ a \notin Saved
  /\ \E first, second \in {200, 404, 429, 500} :
       origin' = [b \in Saved \cup {a} |->
                    IF b = a THEN SourceType(first, second) ELSE origin[b]]
  /\ hot' = hot \cup {a}
  /\ UNCHANGED <<aged, audit, objects, summaries, job, timeline>>

\* The audit row is a commit of its own, which may never come.
LogAction(a) ==
  /\ a \in Saved
  /\ audit' = audit \cup {a}
  /\ UNCHANGED <<hot, aged, origin, objects, summaries, job, timeline>>

GrowOld(a) ==
  /\ a \in Saved
  /\ aged' = aged \cup {a}
  /\ UNCHANGED <<hot, origin, audit, objects, summaries, job, timeline>>

-----------------------------------------------------------------------------

ReadOldRows ==
  /\ job.stage = "idle" /\ hot \cap aged # {}
  /\ job' = [stage |-> "put", picked |-> hot \cap aged, put |-> {}, last |-> ""]
  /\ UNCHANGED <<hot, aged, origin, audit, objects, summaries, timeline>>

PutArchive ==
  /\ job.stage = "put"
  /\ \E a \in job.picked \ job.put :
       /\ objects' = objects \cup {a}
       /\ job' = [job EXCEPT !.stage = "summarise", !.put = @ \cup {a}, !.last = a]
  /\ UNCHANGED <<hot, aged, origin, audit, summaries, timeline>>

PutSummary ==
  /\ job.stage = "summarise"
  /\ summaries' = summaries \cup {job.last}
  /\ job' = [job EXCEPT !.stage = IF job.put = job.picked THEN "delete" ELSE "put"]
  /\ UNCHANGED <<hot, aged, origin, audit, objects, timeline>>

\* Mutant of DeleteArchived.
DeleteOld ==
  /\ job.stage = "delete"
  /\ hot' = hot \ aged
  /\ job' = NoJob
  /\ UNCHANGED <<aged, origin, audit, objects, summaries, timeline>>

DeleteArchived ==
  /\ job.stage = "delete"
  /\ hot' = hot \ job.picked
  /\ job' = NoJob
  /\ UNCHANGED <<aged, origin, audit, objects, summaries, timeline>>

\* A call of the object store or of the database raises, or the process dies.
ArchiveStops ==
  /\ job.stage # "idle"
  /\ job' = NoJob
  /\ UNCHANGED <<hot, aged, origin, audit, objects, summaries, timeline>>

-----------------------------------------------------------------------------

\* query_timeline reads the rows of the target ...
QueryRows(r, a) ==
  /\ timeline[r].stage = "idle"
  /\ timeline' = [timeline EXCEPT ![r] =
       [stage |-> "rows", of |-> a, known |-> a \in Saved, row |-> a \in hot,
        copy |-> FALSE, failed |-> FALSE]]
  /\ UNCHANGED <<hot, aged, origin, audit, objects, summaries, job>>

\* ... and then its object, where any failure counts as no object.
QueryObject(r) ==
  /\ timeline[r].stage = "rows"
  /\ \E failed \in BOOLEAN :
       timeline' = [timeline EXCEPT ![r].stage = "answered",
         ![r].copy = ~failed /\ timeline[r].of \in objects, ![r].failed = failed]
  /\ UNCHANGED <<hot, aged, origin, audit, objects, summaries, job>>

AnswerSent(r) ==
  /\ timeline[r].stage = "answered"
  /\ timeline' = [timeline EXCEPT ![r] = NoRead]
  /\ UNCHANGED <<hot, aged, origin, audit, objects, summaries, job>>

ArchiveNext ==
  \/ \E a \in Artifacts : SaveActive(a) \/ LogAction(a) \/ GrowOld(a)
  \/ ReadOldRows \/ PutArchive \/ PutSummary \/ DeleteArchived \/ ArchiveStops
  \/ \E r \in Readers :
       (\E a \in Artifacts : QueryRows(r, a)) \/ QueryObject(r) \/ AnswerSent(r)

ArchiveSpec == ArchiveInit /\ [][ArchiveNext]_archiveVars

-----------------------------------------------------------------------------

ArchiveTypeOK ==
  /\ Saved \subseteq Artifacts /\ \A a \in Saved : origin[a] \in {"HIBP", "mock_fallback"}
  /\ hot \subseteq Saved /\ aged \subseteq Saved /\ audit \subseteq Saved
  /\ objects \subseteq Saved /\ summaries \subseteq objects
  /\ job.stage \in {"idle", "put", "summarise", "delete"}
  /\ job.put \subseteq job.picked /\ job.picked \subseteq aged
  /\ \A r \in Readers : timeline[r].stage \in {"idle", "rows", "answered"}

\* A row leaves the database only once its object is there, wherever the job
\* was interrupted before.
NothingIsLost == Saved \subseteq hot \cup objects

\* A timeline that could read the object store shows the artifact at least
\* once, although it is moved between the two reads.
TimelineIsComplete ==
  \A r \in Readers :
    (timeline[r].stage = "answered" /\ timeline[r].known /\ ~timeline[r].failed)
      => timeline[r].row \/ timeline[r].copy

ArchiveKeepsAll == NothingIsLost /\ TimelineIsComplete
=============================================================================
