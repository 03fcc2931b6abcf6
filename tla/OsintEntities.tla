---------------------------- MODULE OsintEntities ----------------------------
(***************************************************************************)
(* What /api/osint/unified-search makes of the findings of its sources:     *)
(* correlation_engine.py merges those that name one entity, and             *)
(* confidence_engine.py scores and classifies what came out.  The findings  *)
(* are taken in the order of the source blocks, one step each, because what *)
(* is kept of a merged entity depends on who reported it first.             *)
(***************************************************************************)
EXTENDS Integers, Sequences, FiniteSetsExt, SequencesExt

CONSTANTS
  Findings,     \* records [source, type, value, severity, detail, timestamp, notBefore]
  SourceOrder   \* the order of the blocks: that of the labels of search_unified

None == "none"
Severities == <<"info", "low", "medium", "high", "critical">>
SeverityRank(severity) == CHOOSE i \in DOMAIN Severities : Severities[i] = severity
Ages == {"recent", "older", "stale", None}

ASSUME EntitiesAssumption ==
  \A f \in Findings :
    /\ f.source \in ToSet(SourceOrder)
    /\ f.severity \in ToSet(Severities) \cup {None}
    /\ f.timestamp \in Ages /\ f.notBefore \in Ages

VARIABLES
  merged,   \* deduplicate_and_merge: (type, value) to the merged record
  order,    \* the keys of merged, by first sighting
  taken     \* the findings walked through so far

entityVars == <<merged, order, taken>>

EntitiesInit ==
  /\ merged = [k \in {} |-> None]
  /\ order = <<>>
  /\ taken = {}

-----------------------------------------------------------------------------

\* SOURCE_RELIABILITY.  The blocks of theHarvester are labelled "theHarvester",
\* which the table does not have.
Reliability(source) ==
  CASE source \in {"crtsh", "dns_full", "securitytrails"} -> 90
    [] source = "google_safebrowsing" -> 95
    [] source = "virustotal" -> 92
    [] source = "abuseipdb" -> 88
    [] source = "urlscan" -> 87
    [] source \in {"whois", "network_intel", "darkweb_intel", "fullhunt"} -> 85
    [] source = "leakcheck" -> 82
    [] source = "amass" -> 80
    [] source \in {"theharvester", "holehe"} -> 70
    [] source = "wayback" -> 65
    [] source = "maigret" -> 60
    [] OTHER -> 50

\* Mutant of ConfirmationBonus.
SmallBonus == 10

ConfirmationBonus == 15

\* The date that counts is the timestamp, or else the start of the certificate
\* (or else a last_seen, which no source of the search writes).
FreshnessAdjustment(entity) ==
  LET age == IF entity.timestamp # None THEN entity.timestamp ELSE entity.notBefore
  IN CASE age = "recent" -> 5 [] age = "stale" -> -10 [] OTHER -> 0

CalculateConfidence(entity) ==
  LET score == Max({Reliability(s) : s \in entity.sources})
                 + ConfirmationBonus * (Cardinality(entity.sources) - 1)
                 + FreshnessAdjustment(entity)
  IN Max({0, Min({100, score})})

\* A severity that the source gave is honoured; the others follow the type.
ClassifySeverity(entity) ==
  LET Is(type, detail) == entity.type = type /\ entity.detail = detail
  IN  IF entity.severity # None THEN entity.severity
      ELSE IF Is("whois_record", "expiring") THEN "critical"
      ELSE IF Is("subdomain", "no_tls") \/ Is("open_port", "risky") THEN "high"
      ELSE IF entity.type \in {"open_port", "subdomain", "profile"} THEN "low"
      ELSE IF \/ Is("whois_record", "young")
              \/ Is("spf_status", "missing") \/ Is("dmarc_status", "missing")
              \/ entity.type \in {"email", "account"}
      THEN "medium"
      ELSE "info"

Key(f) == <<f.type, f.value>>

FirstSighting(f) ==
  [type |-> f.type, sources |-> {f.source}, occurrences |-> 1, severity |-> f.severity,
   detail |-> f.detail, timestamp |-> f.timestamp, notBefore |-> f.notBefore]

\* A field that is empty is filled; one that is not is never replaced.
Backfilled(old, new) == IF old = None THEN new ELSE old

LaterSighting(entity, f) ==
  [entity EXCEPT !.sources = @ \cup {f.source}, !.occurrences = @ + 1,
     !.severity = Backfilled(@, f.severity), !.detail = Backfilled(@, f.detail),
     !.timestamp = Backfilled(@, f.timestamp), !.notBefore = Backfilled(@, f.notBefore)]

Place(source) == CHOOSE i \in DOMAIN SourceOrder : SourceOrder[i] = source

\* The next finding: of the same block as the last one, or of a later block.
MergeFinding(f) ==
  /\ f \notin taken
  /\ \A g \in taken : Place(g.source) <= Place(f.source)
  /\ taken' = taken \cup {f}
  /\ IF Key(f) \in DOMAIN merged
     THEN /\ merged' = [merged EXCEPT ![Key(f)] = LaterSighting(@, f)]
          /\ UNCHANGED order
     ELSE /\ merged' = [k \in DOMAIN merged \cup {Key(f)} |->
                          IF k = Key(f) THEN FirstSighting(f) ELSE merged[k]]
          /\ order' = Append(order, Key(f))

EntitiesNext == \E f \in Findings : MergeFinding(f)

EntitiesSpec == EntitiesInit /\ [][EntitiesNext]_entityVars

\* build_entity_graph: one record for each value, the last in the order.
EntityGraph ==
  LET last(v) == Max({i \in DOMAIN order : order[i][2] = v})
  IN {merged[order[last(v)]] : v \in {order[i][2] : i \in DOMAIN order}}

\* _build_executive_summary: the severity of the entity it names.
SummarySeverity ==
  Max({0} \cup {SeverityRank(ClassifySeverity(e)) : e \in EntityGraph})

-----------------------------------------------------------------------------

EntitiesTypeOK ==
  /\ taken \subseteq Findings
  /\ ToSet(order) = DOMAIN merged /\ IsInjective(order)
  /\ \A k \in DOMAIN merged :
       /\ merged[k].sources \subseteq ToSet(SourceOrder)
       /\ merged[k].occurrences = Cardinality({f \in taken : Key(f) = k})

\* A further source that reports an entity never lowers the confidence in it:
\* what its older date takes away, the confirmation gives back.
CorroborationNeverLowers ==
  [][\A k \in DOMAIN merged :
       merged'[k].sources # merged[k].sources =>
         CalculateConfidence(merged'[k]) >= CalculateConfidence(merged[k])]_entityVars

\* web/routers/osint.py:279 "One-sentence Arabic + English summary of the most
\* security-relevant finding": no finding is worse than what the summary names.
SummaryNamesTheWorst ==
  \A k \in DOMAIN merged : SeverityRank(ClassifySeverity(merged[k])) <= SummarySeverity
=============================================================================
