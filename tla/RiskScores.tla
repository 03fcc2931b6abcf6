----------------------------- MODULE RiskScores -----------------------------
(***************************************************************************)
(* The scores this program gives to what it found: each adds up facts with  *)
(* weights, caps the sum and cuts it into levels, and what is done about a  *)
(* target, a request or a host follows from the level.  A behaviour takes    *)
(* one subject and brings its facts in one at a time, in any order.         *)
(***************************************************************************)
EXTENDS Integers, FiniteSetsExt

CONSTANTS
  Facts,   \* the facts of each topic that this instance brings in
  Most     \* how often each of them

AllTopics ==
  {"attack_surface", "darkweb", "cve", "virustotal", "abuseipdb", "urlscan", "ai_firewall",
   "ngfw", "honeypot", "geo", "phone", "phone_social", "certificate", "headers",
   "redteam", "urlhaus", "otx", "compliance", "ioc_lookup"}

\* What is counted out of so many: the points of a CVSS score and the tenths of
\* an EPSS probability, quarters of a score of 100, the headers that are looked
\* for, the engines.
Limited ==
  [cvss |-> 10, epss |-> 10, abuse |-> 4, geo_risk |-> 4, no_critical |-> 2,
   no_high |-> 1, no_medium |-> 5, no_low |-> 2, malicious_engine |-> 10]

ASSUME RiskAssumption ==
  /\ DOMAIN Facts \subseteq AllTopics
  /\ \A t \in DOMAIN Facts : \A name \in Facts[t] :
       /\ Most[name] \in Nat
       /\ name \in DOMAIN Limited => Most[name] <= Limited[name]

VARIABLES topic, facts   \* facts: how often each fact was reported

riskVars == <<topic, facts>>

\* How often a fact was reported, and whether it was at all.
Count(f, name) == IF name \in DOMAIN f THEN f[name] ELSE 0
Seen(f, name) == Count(f, name) > 0
Flag(f, name, points) == IF Seen(f, name) THEN points ELSE 0

\* Mutant of Capped.
Uncapped(score, cap) == score

Capped(score, cap) == Min({score, cap})

\* The level of a score: how many of the thresholds it reaches.
Reaches(score, thresholds) == Cardinality({t \in thresholds : score >= t})

-----------------------------------------------------------------------------
(* The OSINT engines. *)

\* calculate_attack_surface_score; Low, Medium, High, Critical.
AttackSurfaceScore(f) ==
  Capped(5 * Count(f, "port") + Flag(f, "old_tls", 15) + 20 * Count(f, "cve_critical")
           + 10 * Count(f, "cve_high") + 5 * Count(f, "cve_other")
           + 5 * Count(f, "no_header"), 100)
AttackSurfaceLevel(score) == Reaches(score, {31, 61, 81})

\* calculate_darkweb_exposure_score; Clean, Exposed, Compromised, Critical.  A
\* breach that is not verified does not count.
DarkwebScore(f) ==
  Capped(20 * Count(f, "verified_breach") + 10 * Count(f, "paste")
           + 25 * Count(f, "github") + 30 * Count(f, "actor"), 100)
DarkwebLevel(score) == Reaches(score, {21, 51, 81})

\* _composite_risk_score, in hundredths; the facts "cvss" and "epss" count the
\* points of the CVSS score and the tenths of the EPSS probability.
CompositeCveScore(f) ==
  30 * Count(f, "cvss") + 400 * Count(f, "epss")
    + Flag(f, "kev", 2000) + Flag(f, "exploit", 1000)

\* Severities: info 0, low 1, medium 2, high 3, critical 4.
\* Mutant of VirustotalSeverity.
VirustotalSuspiciousFirst(f) ==
  IF Seen(f, "suspicious") THEN 2
  ELSE IF Count(f, "malicious") >= 3 THEN 4 ELSE Flag(f, "malicious", 3)

\* _virustotal_to_findings.
VirustotalSeverity(f) ==
  IF Count(f, "malicious") >= 3 THEN 4
  ELSE IF Seen(f, "malicious") THEN 3 ELSE Flag(f, "suspicious", 2)

\* _abuseipdb_to_findings; "reports" counts the quarters of the confidence score.
AbuseSeverity(f) ==
  IF Seen(f, "reports") THEN Min({Count(f, "reports"), 3}) + 1 ELSE 0

\* _urlscan_to_findings: the worst of the observations.
UrlscanSeverity(f) == Flag(f, "malicious_scan", 3)

\* geo_intel._calc_risk; LOW, MEDIUM, HIGH.
GeoScore(f) ==
  Capped(10 + Flag(f, "proxy", 40) + Flag(f, "hosting", 20) + Flag(f, "country", 20)
           + Flag(f, "no_city", 10), 100)

\* phone_intel._calc_risk of a mobile number.
PhoneScore(f) == Capped(40 + Flag(f, "invalid", 20) + Flag(f, "no_carrier", 15), 100)
PersonLevel(score) == Reaches(score, {40, 70})

\* phone_social._compute_risk: breaches and pastes to 30, a carrier, the country.
PhoneSocialScore(f) ==
  Capped(Capped(15 * (Count(f, "breach") + Count(f, "paste")), 30) + Flag(f, "carrier", 10)
           + (IF Seen(f, "iraqi") THEN 12 ELSE 5), 100)

-----------------------------------------------------------------------------
(* The firewalls. *)

\* _ml_anomaly_score, in thousandths; the facts are the signals.
Anomaly(f) ==
  Capped(Flag(f, "entropy", 250) + Flag(f, "method", 400)
           + (IF Seen(f, "path_1000") THEN 300 ELSE Flag(f, "path_500", 150))
           + Flag(f, "null_byte", 600) + Flag(f, "double_encoding", 400)
           + Flag(f, "no_user_agent", 200) + Flag(f, "parameters", 250)
           + Flag(f, "special_characters", 300) + Flag(f, "large_body", 150)
           + Flag(f, "non_ascii", 200) + Flag(f, "traversal", 350)
           + Flag(f, "no_content_type", 100), 1000)

\* _composite_risk, in thousandths of a point.
RequestRisk(f) ==
  Capped(1000 * (35 * Count(f, "CRITICAL") + 20 * Count(f, "HIGH") + 10 * Count(f, "MEDIUM")
                   + 5 * Count(f, "LOW")) + 20 * Anomaly(f), 100000)

\* _decide_action: allow, alert, block.
RequestAction(f) ==
  LET blocks == Seen(f, "CRITICAL") \/ RequestRisk(f) >= 70000 \/ Anomaly(f) >= 800
      alerts == \/ RequestRisk(f) >= 40000
                \/ \E s \in {"HIGH", "MEDIUM", "LOW"} : Seen(f, s)
                \/ Anomaly(f) > 300
  IN IF blocks THEN 2 ELSE IF alerts THEN 1 ELSE 0

\* _ml_threat_score.
ThreatScore(f) ==
  Capped(Flag(f, "entropy", 20) + Flag(f, "special_characters", 15)
           + Flag(f, "double_encoding", 25) + Flag(f, "hex_encoding", 10)
           + 15 * Count(f, "sql_keyword") + 20 * Count(f, "script_tag")
           + Flag(f, "non_ascii", 10) + Flag(f, "parameters", 5) + Flag(f, "long_payload", 8),
         100)

\* deep_inspect: the worst signature, the origin, the rate, the agent, the port.
PacketScore(f) ==
  LET worst == IF Seen(f, "CRITICAL") THEN 3 ELSE IF Seen(f, "HIGH") THEN 2
               ELSE Flag(f, "MEDIUM", 1)
  IN Capped(ThreatScore(f) + 15 * worst + Flag(f, "high_risk_country", 15)
              + Flag(f, "over_rate", 30) + Flag(f, "scanner_agent", 25)
              + Flag(f, "suspicious_port", 20), 100)
PacketAction(score) == Reaches(score, {40, 70})

-----------------------------------------------------------------------------
(* Recon, honeypot, feeds, compliance. *)

\* enrichment._risk_level: the worse of two scores; the facts count quarters.
HoneypotLevel(f) == Max({Count(f, "abuse"), Count(f, "geo_risk")})

\* ssl_analysis._calc_risk: an expired certificate is not also expiring.
CertificateScore(f) ==
  Capped((IF Seen(f, "expired") THEN 60 ELSE Flag(f, "expiring", 30)) + Flag(f, "old_tls", 40)
           + (IF Count(f, "wildcard") > 3 THEN 10 ELSE 0) + Flag(f, "self_signed", 20), 100)
CertificateLevel(score) == Reaches(score, {31, 61})

\* security_headers: the risk is what the present headers leave of 100, rounded
\* up as int() rounds the score down; 2 headers are critical (of 30), 1 high
\* (of 20), 5 medium (of 10), 2 low (of 5).
HeadersScore(f) ==
  LET missing == 30 * Count(f, "no_critical") + 20 * Count(f, "no_high")
                   + 10 * Count(f, "no_medium") + 5 * Count(f, "no_low")
  IN 100 - (100 * (140 - missing)) \div 140
HeadersLevel(score) == Reaches(score, {31, 61})

\* autonomous_redteam._calculate_risk_score.
RedteamScore(f) ==
  Capped(25 * Count(f, "CRITICAL") + 15 * Count(f, "HIGH") + 7 * Count(f, "MEDIUM")
           + 3 * Count(f, "LOW"), 100)

\* urlhaus_feed._score_entry.
UrlhausScore(f) == Capped(80 + Flag(f, "online", 10) + Flag(f, "tags", 5), 100)

\* otx_feed._score_indicator of an address; each bonus is capped.
OtxScore(f) ==
  Capped(80 + Flag(f, "malware", 5)
           + (IF Count(f, "country") > 3 THEN 5 ELSE 0) + Flag(f, "adversary", 8), 100)

\* compliance: what is not passed of the controls that were answered, in tenths
\* of a percent, rounded half up; with no answer the score is 0.
ComplianceRisk(f) ==
  LET failed == Count(f, "failed")   passed == 2
  IN 1000 - (2000 * passed + passed + failed) \div (2 * (passed + failed))
ComplianceLevel(risk) == Reaches(risk, {101, 301, 501})

\* ioc_detector: the engines that call a file malicious, of 10; CLEAN,
\* SUSPICIOUS, MALICIOUS, CRITICAL.
LookupScore(f) == (100 * Count(f, "malicious_engine")) \div 10
LookupLevel(score) == Reaches(score, {16, 41, 71})

-----------------------------------------------------------------------------

Score(t, f) ==
  CASE t = "attack_surface" -> AttackSurfaceScore(f)
    [] t = "darkweb" -> DarkwebScore(f)
    [] t = "cve" -> CompositeCveScore(f)
    [] t = "virustotal" -> VirustotalSeverity(f)
    [] t = "abuseipdb" -> AbuseSeverity(f)
    [] t = "urlscan" -> UrlscanSeverity(f)
    [] t = "ai_firewall" -> RequestRisk(f)
    [] t = "ngfw" -> PacketScore(f)
    [] t = "honeypot" -> HoneypotLevel(f)
    [] t = "geo" -> GeoScore(f)
    [] t = "phone" -> PhoneScore(f)
    [] t = "phone_social" -> PhoneSocialScore(f)
    [] t = "certificate" -> CertificateScore(f)
    [] t = "headers" -> HeadersScore(f)
    [] t = "redteam" -> RedteamScore(f)
    [] t = "urlhaus" -> UrlhausScore(f)
    [] t = "otx" -> OtxScore(f)
    [] t = "compliance" -> ComplianceRisk(f)
    [] t = "ioc_lookup" -> LookupScore(f)

\* What follows from the score: the level, or the action.
Level(t, f) ==
  CASE t = "attack_surface" -> AttackSurfaceLevel(Score(t, f))
    [] t = "darkweb" -> DarkwebLevel(Score(t, f))
    [] t = "ai_firewall" -> RequestAction(f)
    [] t = "ngfw" -> PacketAction(Score(t, f))
    [] t \in {"geo", "phone"} -> PersonLevel(Score(t, f))
    [] t = "certificate" -> CertificateLevel(Score(t, f))
    [] t = "headers" -> HeadersLevel(Score(t, f))
    [] t = "compliance" -> ComplianceLevel(Score(t, f))
    [] t = "ioc_lookup" -> LookupLevel(Score(t, f))
    [] OTHER -> Score(t, f)

RiskInit ==
  /\ topic \in DOMAIN Facts
  /\ facts = [name \in Facts[topic] |-> 0]

\* One more report of a fact.
Report ==
  \E name \in DOMAIN facts :
    /\ facts[name] < Most[name]
    /\ facts' = [facts EXCEPT ![name] = @ + 1]
    /\ UNCHANGED topic

RiskSpec == RiskInit /\ [][Report]_riskVars

-----------------------------------------------------------------------------

RiskTypeOK ==
  /\ topic \in AllTopics
  /\ DOMAIN facts = Facts[topic]
  /\ \A name \in DOMAIN facts : facts[name] \in 0..Most[name]
  /\ Score(topic, facts) \in 0..(IF topic \in {"ai_firewall", "cve"} THEN 100000
                                 ELSE IF topic = "compliance" THEN 1000 ELSE 100)

\* Whatever else is known, one more piece of evidence never lowers a score or
\* the level, the grade or the action that follows from it.
EvidenceNeverLowers ==
  [][/\ Score(topic, facts') >= Score(topic, facts)
     /\ Level(topic, facts') >= Level(topic, facts)]_riskVars
=============================================================================
