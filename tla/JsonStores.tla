----------------------------- MODULE JsonStores -----------------------------
(***************************************************************************)
(* The features that keep a list in a JSON file: the predictions of        *)
(* modules/ai_advanced/zero_day.py, the engagements of red_team.py, the    *)
(* profiles of behavioral.py, the history of attack_patterns.py, the       *)
(* sessions of autonomous_redteam.py, the targets of                       *)
(* modules/target/manager.py, the lists of modules/darkweb/intelligence.py,*)
(* the detections of modules/threat_intel/attack_navigator.py and the      *)
(* submissions of modules/threat_intel/global_feed.py.                     *)
(*                                                                         *)
(* They share one shape.  An operation does its work first, then loads the *)
(* whole file, changes its copy, trims it and writes it back; the write    *)
(* truncates the file and then fills it.  The two workers interleave       *)
(* anywhere.  The stores differ in what they do with a file that cannot be *)
(* parsed, in where they insert, in what they trim and in their changes.   *)
(***************************************************************************)
EXTENDS FiniteSets, Naturals, Sequences

CONSTANTS
  JsonWorkers,  \* processes that use the file
  Entries,      \* what is stored, by its identity within the store
  JsonCap,      \* bound: stands for the caps of 30 to 1000 entries
  TornFile      \* the file between the truncation and the write

ASSUME JsonAssumption ==
  /\ JsonCap \in Nat \ {0}
  /\ IsFiniteSet(JsonWorkers) /\ IsFiniteSet(Entries)

VARIABLES
  jsonKind,     \* which store this is
  jsonFile,     \* its entries in file order, each with whether it was updated
  jsonStage,    \* each worker: "idle", "saving" or "writing"
  jsonCopy,     \* its copy
  jsonOn,       \* what its operation does, as a set of at most one: the entry
                \* and whether it is put, updated or removed
  jsonClear,    \* history: the workers whose operation met no other so far
  jsonNewer     \* history: the entries that were stored by an operation that
                \* met no other, since a torn file was last taken for an empty
                \* one, with how many were stored after each

jsonVars == <<jsonKind, jsonFile, jsonStage, jsonCopy, jsonOn, jsonClear,
              jsonNewer>>

Entry == [id : Entries, updated : BOOLEAN]
Ids(s) == {s[i].id : i \in DOMAIN s}
OnceEach(s) == \A i, j \in DOMAIN s : s[i].id = s[j].id => i = j

-----------------------------------------------------------------------------
(* The policies of the stores                                              *)

\* "raises": an unreadable file is an error, for ever if its writer has died.
\* "forgets": it reads as empty, and the next save makes that so, although its
\* writer may be about to fill it.
Predictions == [name |-> "predictions", torn |-> "raises", newest |-> "first",
                capped |-> TRUE]
Engagements == [name |-> "engagements", torn |-> "raises", newest |-> "first",
                capped |-> TRUE]
Profiles    == [name |-> "profiles",    torn |-> "raises", newest |-> "last",
                capped |-> FALSE]
Patterns    == [name |-> "patterns",    torn |-> "raises", newest |-> "first",
                capped |-> TRUE]
Sessions    == [name |-> "sessions",    torn |-> "forgets", newest |-> "first",
                capped |-> TRUE]
Targets     == [name |-> "targets",     torn |-> "forgets", newest |-> "last",
                capped |-> FALSE]
Intelligence == [name |-> "intelligence", torn |-> "forgets",
                 newest |-> "first", capped |-> TRUE]
Detections  == [name |-> "detections",  torn |-> "forgets", newest |-> "first",
                capped |-> TRUE]
Submissions == [name |-> "submissions", torn |-> "forgets", newest |-> "first",
                capped |-> TRUE]

Kinds == {Predictions, Engagements, Profiles, Patterns, Sessions, Targets,
          Intelligence, Detections, Submissions}

JsonTypeOK ==
  /\ jsonKind \in Kinds
  /\ jsonFile # TornFile => jsonFile \in Seq(Entry) /\ OnceEach(jsonFile)
  /\ jsonStage \in [JsonWorkers -> {"idle", "saving", "writing"}]
  /\ jsonCopy \in [JsonWorkers -> Seq(Entry)]
  /\ \A w \in JsonWorkers : OnceEach(jsonCopy[w])
  /\ jsonOn \in [JsonWorkers -> SUBSET (Entries \X {"put", "update", "remove"})]
  /\ jsonClear \subseteq JsonWorkers
  /\ DOMAIN jsonNewer \subseteq Entries
  /\ \A e \in DOMAIN jsonNewer : jsonNewer[e] \in 0..JsonCap

JsonInit ==
  /\ jsonKind \in Kinds
  /\ jsonFile = <<>>
  /\ jsonStage = [w \in JsonWorkers |-> "idle"]
  /\ jsonCopy = [w \in JsonWorkers |-> <<>>]
  /\ jsonOn = [w \in JsonWorkers |-> {}]
  /\ jsonClear = {}
  /\ jsonNewer = [e \in {} |-> 0]

-----------------------------------------------------------------------------
(* The shape                                                               *)

Readable == jsonFile # TornFile \/ jsonKind.torn = "forgets"
Loaded == IF jsonFile = TornFile THEN <<>> ELSE jsonFile

\* Mutant of Trimmed: the end that was just inserted is trimmed.
TrimmedWrong(s) ==
  IF jsonKind.capped /\ Len(s) > JsonCap THEN SubSeq(s, 2, Len(s)) ELSE s

Trimmed(s) ==
  IF jsonKind.capped /\ Len(s) > JsonCap THEN SubSeq(s, 1, JsonCap) ELSE s

\* All but the entry of that identity; a list holds it once (OnceEach).
Without(s, e) ==
  LET p == CHOOSE i \in DOMAIN s : s[i].id = e IN
  IF e \in Ids(s) THEN SubSeq(s, 1, p - 1) \o SubSeq(s, p + 1, Len(s)) ELSE s

\* Stored anew, and moved if it was there.
Put(s, e) ==
  LET x == <<[id |-> e, updated |-> FALSE]>> IN
  Trimmed(IF jsonKind.newest = "first" THEN x \o Without(s, e)
                                       ELSE Without(s, e) \o x)

Updated(s, e) ==
  [i \in DOMAIN s |-> IF s[i].id = e THEN [s[i] EXCEPT !.updated = TRUE]
                                     ELSE s[i]]

Others(w) == {v \in JsonWorkers \ {w} : jsonStage[v] # "idle"}

\* Load, and the change; whoever is under way now has met this operation.
Changes(w, e, what, copy) ==
  /\ jsonStage[w] = "idle"
  /\ Readable
  /\ jsonStage' = [jsonStage EXCEPT ![w] = "saving"]
  /\ jsonCopy' = [jsonCopy EXCEPT ![w] = copy]
  /\ jsonOn' = [jsonOn EXCEPT ![w] = {<<e, what>>}]
  /\ jsonClear' = IF Others(w) = {} THEN {w} ELSE {}
  /\ jsonNewer' = IF jsonFile = TornFile THEN [x \in {} |-> 0] ELSE jsonNewer
  /\ UNCHANGED <<jsonKind, jsonFile>>

Is(kind) == jsonKind = kind
Adds(w, e) == Changes(w, e, "put", Put(Loaded, e))
HasEntry(e) == e \in Ids(Loaded)

-----------------------------------------------------------------------------
(* The operations of each store.  What a store adds is new to it: an        *)
(* engagement and a session are named after the second they are made in,   *)
(* and that two are made in one second is left out.                        *)

\* predict_zero_days, after the feeds and the model have been asked.
PredictZeroDays(w, e) == Is(Predictions) /\ ~HasEntry(e) /\ Adds(w, e)

CreateEngagement(w, e) == Is(Engagements) /\ ~HasEntry(e) /\ Adds(w, e)

\* An unknown engagement is answered with an error.
LogFinding(w, e) ==
  Is(Engagements) /\ HasEntry(e) /\ Changes(w, e, "update", Updated(Loaded, e))

\* record_event: a blank profile for an entity that is new.
RecordEvent(w, e) ==
  /\ Is(Profiles)
  /\ IF HasEntry(e) THEN Changes(w, e, "update", Updated(Loaded, e))
                    ELSE Adds(w, e)

\* analyze_events ends in _persist.
AnalyzeEvents(w, e) == Is(Patterns) /\ ~HasEntry(e) /\ Adds(w, e)

\* start_autonomous_simulation: saved when all of its phases have run.
StartAutonomousSimulation(w, e) == Is(Sessions) /\ ~HasEntry(e) /\ Adds(w, e)

AddTarget(w, e) == Is(Targets) /\ ~HasEntry(e) /\ Adds(w, e)

RemoveTarget(w, e) ==
  Is(Targets) /\ HasEntry(e) /\ Changes(w, e, "remove", Without(Loaded, e))

\* record_scan saves even if the target is not there.
RecordScan(w, e) == Is(Targets) /\ Changes(w, e, "update", Updated(Loaded, e))

\* The breaches, the pastes and the alerts are three lists in one file, with a cap
\* each; here they are one.
CheckDomainBreach(w, e) == Is(Intelligence) /\ ~HasEntry(e) /\ Adds(w, e)
ScanPasteContent(w, e) == Is(Intelligence) /\ ~HasEntry(e) /\ Adds(w, e)

\* The keyword of an account replaces the one it had.
AddKeywordAlert(w, e) == Is(Intelligence) /\ Adds(w, e)

\* A technique that is not of the matrix is refused before the load.
AddDetection(w, e) == Is(Detections) /\ ~HasEntry(e) /\ Adds(w, e)

\* submit_ioc of the threat feed: an unknown type or an empty value is refused
\* before the load.
SubmitIoc(w, e) == Is(Submissions) /\ ~HasEntry(e) /\ Adds(w, e)

-----------------------------------------------------------------------------
(* The save                                                                *)

\* write_text opens the file, which truncates it ...
Truncate(w) ==
  /\ jsonStage[w] = "saving"
  /\ jsonFile' = TornFile
  /\ jsonStage' = [jsonStage EXCEPT ![w] = "writing"]
  /\ UNCHANGED <<jsonKind, jsonCopy, jsonOn, jsonClear, jsonNewer>>

\* How many were put after each entry, once w has written.
Counted(w, e, what) ==
  LET left == DOMAIN jsonNewer \ (IF what = "update" THEN {} ELSE {e})
      new  == IF what = "put" /\ w \in jsonClear THEN {e} ELSE {} IN
  [x \in left \cup new |->
     IF x \in new THEN 0
     ELSE IF what = "put" /\ jsonNewer[x] < JsonCap THEN jsonNewer[x] + 1
     ELSE jsonNewer[x]]

\* ... and fills it.
Write(w) ==
  /\ jsonStage[w] = "writing"
  /\ jsonFile' = jsonCopy[w]
  /\ jsonStage' = [jsonStage EXCEPT ![w] = "idle"]
  /\ jsonCopy' = [jsonCopy EXCEPT ![w] = <<>>]
  /\ jsonOn' = [jsonOn EXCEPT ![w] = {}]
  /\ jsonClear' = jsonClear \ {w}
  /\ \E on \in jsonOn[w] : jsonNewer' = Counted(w, on[1], on[2])
  /\ UNCHANGED jsonKind

\* The process dies, and is started again.
JsonCrash(w) ==
  /\ jsonStage[w] # "idle"
  /\ jsonStage' = [jsonStage EXCEPT ![w] = "idle"]
  /\ jsonCopy' = [jsonCopy EXCEPT ![w] = <<>>]
  /\ jsonOn' = [jsonOn EXCEPT ![w] = {}]
  /\ jsonClear' = jsonClear \ {w}
  /\ UNCHANGED <<jsonKind, jsonFile, jsonNewer>>

JsonNext ==
  \E w \in JsonWorkers :
    \/ \E e \in Entries :
         \/ PredictZeroDays(w, e)
         \/ CreateEngagement(w, e)
         \/ LogFinding(w, e)
         \/ RecordEvent(w, e)
         \/ AnalyzeEvents(w, e)
         \/ StartAutonomousSimulation(w, e)
         \/ AddTarget(w, e)
         \/ RemoveTarget(w, e)
         \/ RecordScan(w, e)
         \/ CheckDomainBreach(w, e)
         \/ ScanPasteContent(w, e)
         \/ AddKeywordAlert(w, e)
         \/ AddDetection(w, e)
         \/ SubmitIoc(w, e)
    \/ Truncate(w)
    \/ Write(w)
    \/ JsonCrash(w)

JsonSpec == JsonInit /\ [][JsonNext]_jsonVars

-----------------------------------------------------------------------------
(* Properties                                                              *)

\* What an operation that met no other has stored stays, whatever overlaps later
\* and whoever dies: it is there until enough entries were stored after it for
\* the cap, until its own removal, or until a store that takes an unreadable file
\* for an empty one has loaded it between another's truncation and write.
StoredAloneStays ==
  jsonFile # TornFile =>
    \A e \in DOMAIN jsonNewer :
      \/ e \in Ids(jsonFile)
      \/ jsonKind.capped /\ jsonNewer[e] = JsonCap

=============================================================================
