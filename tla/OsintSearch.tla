---------------------------- MODULE OsintSearch ----------------------------
(***************************************************************************)
(* One unified search: search_unified of modules/osint/unified_engine.py    *)
(* starts the sources of the target's type together, gathers them, enriches *)
(* what they found under a timeout of its own and answers; and              *)
(* get_sources_status, which promises beforehand which of them will run.    *)
(* A source is a program (its output is parsed), amass (its output file is  *)
(* read, whatever became of the program), a library or an open service, or  *)
(* a provider asked through _run_query_source, some only with a key.        *)
(***************************************************************************)
EXTENDS FiniteSets, Naturals

CONSTANTS
  Sources,      \* the sources of this instance, some of AllSources
  TargetTypes   \* the types of the targets searched for, among those of SourcesOf

Tools == {"theharvester", "maigret", "holehe"}
Programs == Tools \cup {"amass"}
Libraries == {"crtsh", "wayback", "dns_full", "whois", "network_intel", "darkweb_intel"}
NeedsKey ==
  {"virustotal", "abuseipdb", "fullhunt", "securitytrails", "google_safebrowsing"}
Queried == NeedsKey \cup {"leakcheck", "urlscan"}
AllSources == Programs \cup Libraries \cup Queried

\* The tasks of search_unified.
SourcesOf(type) ==
  CASE type = "domain" -> {"amass", "theharvester", "crtsh", "wayback", "dns_full", "whois",
                           "network_intel", "darkweb_intel", "virustotal", "urlscan",
                           "securitytrails", "fullhunt", "google_safebrowsing"}
    [] type = "email" -> {"holehe", "theharvester", "darkweb_intel", "leakcheck"}
    [] type = "username" -> {"maigret"}
    [] type = "ip" -> {"theharvester", "network_intel", "virustotal", "abuseipdb", "urlscan"}

ASSUME SearchAssumption ==
  /\ Sources \subseteq AllSources
  /\ TargetTypes \subseteq {"domain", "email", "username", "ip"}

VARIABLES
  installed,  \* the programs _find_binary finds
  keys,       \* the sources whose key is configured
  used,       \* the sources with a last_used
  phase,      \* "idle", "gathering", "enriching", "answered"
  entry,      \* per source of the search: running, or the entry it returned
  reply,      \* history: what the source was told
  enriched    \* whether the answer has its threat intelligence

searchVars == <<installed, keys, used, phase, entry, reply, enriched>>

Running == [state |-> "running", available |-> TRUE, error |-> FALSE, found |-> FALSE]
Entry(available, error, found) ==
  [state |-> "ended", available |-> available, error |-> error, found |-> found]

\* What a source can be told.  "absent" is a 404, or no output file; "refused" a
\* 401 or 403, "limited" any other status of an error; "broken" a connection or
\* a program that fails; "garbled" a body of a shape the conversion raises on;
\* "blank" a body with status 200 that lacks what was asked for, or is null
\* (which for securitytrails is garbled).
Replies(s) ==
  CASE s \in Tools -> {"found", "empty", "broken"}
    [] s = "amass" -> {"found", "empty", "absent", "broken"}
    [] s \in {"crtsh", "wayback"} ->
         {"found", "empty", "absent", "refused", "limited", "broken", "garbled"}
    [] s \in Queried ->
         {"found", "empty", "blank", "absent", "refused", "limited", "broken", "garbled"}
    [] OTHER -> {"found", "empty", "broken"}

Found == Entry(TRUE, FALSE, TRUE)
Nothing == Entry(TRUE, FALSE, FALSE)
Failed == Entry(TRUE, TRUE, FALSE)

\* _run_tool: any exit code is parsed, and no parser raises.
ToolEntry(r) == CASE r = "found" -> Found [] r = "empty" -> Nothing [] OTHER -> Failed
HarvesterEntry(r) == ToolEntry(r)
MaigretEntry(r) == ToolEntry(r)
HoleheEntry(r) == ToolEntry(r)
AmassEntry(r) == ToolEntry(r)

\* crt.sh and the archive: no status is looked at, what is not JSON is no result.
OpenEntry(r) ==
  CASE r = "found" -> Found
    [] r \in {"broken", "garbled"} -> Failed
    [] OTHER -> Nothing
CrtshEntry(r) == OpenEntry(r)
WaybackEntry(r) == OpenEntry(r)

\* The records that do not resolve are skipped; that no SPF record was seen is
\* a finding, also when nothing was seen.
DnsEntry(r) == Found

WhoisEntry(r) == ToolEntry(r)

\* What the lookups gather degrades provider by provider, and does not tell.
GatheredEntry(r) == IF r = "found" THEN Found ELSE Nothing
NetworkEntry(r) == GatheredEntry(r)
DarkwebEntry(r) == GatheredEntry(r)

LibraryEntry(s, r) ==
  CASE s = "crtsh" -> CrtshEntry(r)
    [] s = "wayback" -> WaybackEntry(r)
    [] s = "dns_full" -> DnsEntry(r)
    [] s = "whois" -> WhoisEntry(r)
    [] s = "network_intel" -> NetworkEntry(r)
    [] s = "darkweb_intel" -> DarkwebEntry(r)

\* _run_query_source: an error unless the reply is an answer for this provider.
\* A reply whose conversion raises ends in the entry of the gather, which has an
\* error and no `available`; the search shows it as a source that was there.
\* Every conversion reads a blank answer as one that found nothing.
ProviderEntry(r, answers) ==
  CASE r = "found" -> Found
    [] r \in {"empty", "blank"} \cup answers -> Nothing
    [] OTHER -> Failed

\* A 404 of three of the providers means that they do not know the target.
VirustotalEntry(r) == ProviderEntry(r, {"absent"})
AbuseipdbEntry(r) == ProviderEntry(r, {})
FullhuntEntry(r) == ProviderEntry(r, {"absent"})
\* Mutant of LeakcheckEntry.
LeakcheckLenient(r) == ProviderEntry(r, {"limited"})

LeakcheckEntry(r) == ProviderEntry(r, {})
SecuritytrailsEntry(r) == ProviderEntry(r, {"absent"})
UrlscanEntry(r) == ProviderEntry(r, {})
SafebrowsingEntry(r) == ProviderEntry(r, {})

QueriedEntry(s, r) ==
  CASE s = "virustotal" -> VirustotalEntry(r)
    [] s = "abuseipdb" -> AbuseipdbEntry(r)
    [] s = "fullhunt" -> FullhuntEntry(r)
    [] s = "leakcheck" -> LeakcheckEntry(r)
    [] s = "securitytrails" -> SecuritytrailsEntry(r)
    [] s = "urlscan" -> UrlscanEntry(r)
    [] s = "google_safebrowsing" -> SafebrowsingEntry(r)

ProgramEntry(s, r) ==
  CASE s = "amass" -> AmassEntry(r)
    [] s = "theharvester" -> HarvesterEntry(r)
    [] s = "maigret" -> MaigretEntry(r)
    [] s = "holehe" -> HoleheEntry(r)

EntryOf(s, r) ==
  CASE s \in Programs -> ProgramEntry(s, r)
    [] s \in Libraries -> LibraryEntry(s, r)
    [] OTHER -> QueriedEntry(s, r)

-----------------------------------------------------------------------------

SearchInit ==
  /\ installed \in SUBSET (Programs \cap Sources)
  /\ keys \in SUBSET (NeedsKey \cap Sources)
  /\ used = {} /\ phase = "idle"
  /\ entry = [s \in {} |-> Running] /\ reply = [s \in {} |-> "none"]
  /\ enriched = FALSE

\* get_sources_status, which reads the environment again; the guards read what
\* the import found there.  It does not change while the process serves.
StatusAvailable(s) ==
  /\ s \in Programs => s \in installed
  /\ s \in NeedsKey => s \in keys

\* The guard of each query that needs a key, and those of all the runners.
NoKey(s) == s \in NeedsKey \ keys
Guarded(s) == s \in Programs \ installed \/ NoKey(s)

\* Mutant of MarkedAtStart.
MarkedBeforeTheGuard(s) == s \in Programs \cup Libraries

\* Programs are marked after the guard, libraries at once, providers at the end.
MarkedAtStart(s) == s \in (installed \cup Libraries)

\* Admitted by _check_rate; the tasks run up to their first wait.
StartSearch ==
  \E type \in TargetTypes :
    LET started == SourcesOf(type) \cap Sources IN
    /\ phase \in {"idle", "answered"}
    /\ phase' = "gathering"
    /\ entry' = [s \in started |-> IF Guarded(s) THEN Entry(FALSE, TRUE, FALSE) ELSE Running]
    /\ reply' = [s \in started |-> IF Guarded(s) THEN "guard" ELSE "none"]
    /\ used' = used \cup {s \in started : MarkedAtStart(s)}
    /\ enriched' = FALSE
    /\ UNCHANGED <<installed, keys>>

EndSource(s, r, e) ==
  /\ phase = "gathering" /\ entry[s].state = "running"
  /\ entry' = [entry EXCEPT ![s] = e]
  /\ reply' = [reply EXCEPT ![s] = r]
  /\ used' = IF s \in Queried THEN used \cup {s} ELSE used
  /\ UNCHANGED <<installed, keys, phase, enriched>>

SourceReplies(s) == \E r \in Replies(s) : EndSource(s, r, EntryOf(s, r))

\* The hard timeout.  Amass then still has the file it wrote so far, or none.
SourceTimesOut(s) ==
  IF s = "amass"
  THEN \E r \in {"found", "absent"} : EndSource(s, r, AmassEntry(r))
  ELSE EndSource(s, "timeout", Failed)

Gathered ==
  /\ phase = "gathering"
  /\ \A s \in DOMAIN entry : entry[s].state = "ended"
  /\ phase' = "enriching"
  /\ UNCHANGED <<installed, keys, used, entry, reply, enriched>>

\* _run_threat_intelligence: both lookups in time, or neither of them.
Answer ==
  /\ phase = "enriching"
  /\ phase' = "answered"
  /\ enriched' \in BOOLEAN
  /\ UNCHANGED <<installed, keys, used, entry, reply>>

SearchNext ==
  \/ StartSearch \/ Gathered \/ Answer
  \/ \E s \in DOMAIN entry : SourceReplies(s) \/ SourceTimesOut(s)

\* Timeouts end the sources and the enrichment, and the loop of the server runs.
SearchFairness ==
  /\ WF_searchVars(Gathered) /\ WF_searchVars(Answer)
  /\ \A s \in Sources : WF_searchVars(s \in DOMAIN entry /\ SourceTimesOut(s))

SearchSpec == SearchInit /\ [][SearchNext]_searchVars /\ SearchFairness

-----------------------------------------------------------------------------

SearchTypeOK ==
  /\ installed \subseteq Programs /\ keys \subseteq NeedsKey /\ used \subseteq Sources
  /\ phase \in {"idle", "gathering", "enriching", "answered"}
  /\ DOMAIN entry \subseteq Sources /\ DOMAIN reply = DOMAIN entry
  /\ \A s \in DOMAIN entry :
       entry[s] \in [state : {"running", "ended"}, available : BOOLEAN, error : BOOLEAN,
                     found : BOOLEAN]
  /\ enriched \in BOOLEAN

\* What get_sources_status says of a source is what a search then does with it,
\* and no source that never ran has a last_used ("reflects the same truth the
\* next real search would"; "a source that never ran must not get a last_used").
StatusIsTheTruth ==
  /\ \A s \in used : StatusAvailable(s)
  /\ \A s \in DOMAIN entry :
       entry[s].state = "ended" => (entry[s].available <=> StatusAvailable(s))

\* A provider that refused, failed or was cut off has an error in its entry: what
\* a search shows without one comes from an answer with status 200, or says that
\* the target is not known.  (A blank answer is not told from one that found
\* nothing.)
FailuresAreTold ==
  \A s \in DOMAIN entry \cap Queried :
    (entry[s].state = "ended" /\ ~ entry[s].error) =>
      \/ reply[s] \in {"found", "empty", "blank"}
      \/ reply[s] = "absent" /\ s \in {"virustotal", "fullhunt", "securitytrails"}

\* The steps that a search has before it.
SearchLeft ==
  CASE phase = "gathering" -> Cardinality({s \in DOMAIN entry : entry[s].state = "running"}) + 2
    [] phase = "enriching" -> 1
    [] OTHER -> 0

\* Every step of a search takes it nearer to its answer: no source is asked twice, and
\* none starts another.
SearchRunsDown ==
  [][(phase \in {"gathering", "enriching"}) => SearchLeft' < SearchLeft]_searchVars

\* Every search that starts is answered, whichever of its sources hang.
SearchAnswers == phase = "gathering" ~> phase = "answered"
=============================================================================
