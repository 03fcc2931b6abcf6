--------------------------- MODULE MCIntelligence ---------------------------
(***************************************************************************)
(* What the platform finds out and shares: the vulnerability scanners, the *)
(* received feed and the shared indicators, their correlation and the map, *)
(* the merged findings of a search and the scores.  Checked together as    *)
(* the services are: a behaviour is one of a single part, which is chosen  *)
(* at the start, and the parts share no state.                             *)
(***************************************************************************)
EXTENDS VulnScan, ThreatSharing, ThreatFeed, ThreatMap, IocCorrelation,
        OsintEntities, RiskScores

VARIABLE part

intelligenceVars == <<part, scanVars, sharingVars, feedVars, mapVars, corrVars,
                      entityVars, riskVars>>

-----------------------------------------------------------------------------
(* Values                                                                  *)

\* A site within the scope and a payment page outside of it.
ThePages == {"home", "item", "login", "pay", "gql"}
HostOfEach == [a \in ThePages |-> IF a = "pay" THEN "elsewhere" ELSE "site"]
TheForm(at, method, inputs) == [at |-> at, method |-> method, inputs |-> inputs]
TheSite(links, params, forms, hop, robots) ==
  LET Filled(f, none) == [a \in ThePages |-> IF a \in DOMAIN f THEN f[a] ELSE none]
  IN  [links |-> Filled(links, <<>>), params |-> Filled(params, {}),
       forms |-> Filled(forms, {}),
       hop |-> [a \in ThePages |-> IF a \in DOMAIN hop THEN hop[a] ELSE a],
       robots |-> robots]
NoHop == [x \in {} |-> x]
TheSites == {
  TheSite([home |-> <<"item", "pay", "item">>], [item |-> {"cat"}],
          [item |-> {TheForm("pay", "post", {"card"})}], NoHop, {}),
  TheSite([home |-> <<"login">>], [home |-> {"url", "n"}], NoHop, NoHop, {"login"}),
  TheSite([home |-> <<"login">>], NoHop,
          [home |-> {TheForm("login", "get", {"u"}), TheForm("login", "post", {"u"})}],
          NoHop, {}),
  TheSite([home |-> <<"item">>], NoHop, [home |-> {TheForm("home", "post", {"q"})}],
          [item |-> "pay"], {"login"})}

TheEvents == <<[ip |-> "ip1", risk |-> "HIGH"], [ip |-> "ip1", risk |-> "CRITICAL"],
               [ip |-> "ip2", risk |-> "LOW"]>>
TheLeaks == <<[source |-> "paste", url |-> "paste1"], [source |-> "breach", url |-> NoUrl]>>
TheKev == <<"cve1", "cve2">>

ThePageCount == <<2, 0, 1>>

TheIoc(id, type, malware, adversary, score, source, net, host) ==
  [id |-> id, type |-> type, malware |-> malware, adversary |-> adversary,
   score |-> score, source |-> source, net |-> net, host |-> host]
anAddress == TheIoc(1, "ip", "m1", "APT28", 40, "otx", "n1", "-")
theNeighbour == TheIoc(2, "ip", "m1", "Some Words", 90, "otx", "n1", "-")
theNetwork == TheIoc(3, "cidr", "m2", "Turla", 55, "otx", "n1", "-")
aName == TheIoc(4, "domain", "m1", "Turla", 70, "otx", "-", "h1")
aPage == TheIoc(5, "url", "m1", "-", 81, "otx", "-", "h1")
aFile == TheIoc(6, "hash_md5", "m1", "APT28", 100, "other", "-", "-")
anotherFile == TheIoc(7, "hash_sha1", "m2", "Some Words", 30, "otx", "-", "-")
TheFeeds == {<<>>, <<theNeighbour, anotherFile>>, <<theNeighbour, theNetwork, anAddress>>,
             <<aName, aPage>>, <<anAddress, aName, aPage, aFile>>,
             <<aFile, anAddress, theNeighbour>>}

TheFinding(source, type, value, severity, detail, timestamp, notBefore) ==
  [source |-> source, type |-> type, value |-> value, severity |-> severity,
   detail |-> detail, timestamp |-> timestamp, notBefore |-> notBefore]
TheSources == <<"amass", "theHarvester", "crtsh", "wayback", "whois", "virustotal",
                "abuseipdb">>
TheSightings == {
  TheFinding("amass", "subdomain", "www", None, None, None, None),
  TheFinding("theHarvester", "subdomain", "www", None, None, None, None),
  TheFinding("crtsh", "subdomain", "www", None, None, None, "recent"),
  TheFinding("crtsh", "subdomain", "apex", None, None, None, "older"),
  TheFinding("wayback", "subdomain", "www", None, None, "stale", None),
  TheFinding("whois", "whois_record", "apex", None, "expiring", None, None),
  TheFinding("virustotal", "vt_reputation", "apex", "critical", None, None, None),
  TheFinding("virustotal", "vt_reputation", "ip", "critical", None, None, None),
  TheFinding("abuseipdb", "abuse_report", "ip", "info", None, None, None)}

TheFacts == [t \in AllTopics |->
  CASE t = "attack_surface" -> {"port","old_tls","cve_critical","cve_high","cve_other","no_header"}
    [] t = "darkweb" -> {"verified_breach","paste","github","actor"}
    [] t = "cve" -> {"cvss","epss","kev","exploit"}
    [] t = "virustotal" -> {"malicious","suspicious"}
    [] t = "abuseipdb" -> {"reports"}
    [] t = "urlscan" -> {"malicious_scan", "clean_scan"}
    [] t = "ai_firewall" -> {"CRITICAL","HIGH","MEDIUM","LOW","no_user_agent","no_content_type","null_byte","path_500","path_1000","traversal"}
    [] t = "ngfw" -> {"CRITICAL","HIGH","MEDIUM","entropy","sql_keyword","script_tag","over_rate","scanner_agent","suspicious_port"}
    [] t = "honeypot" -> {"abuse","geo_risk"}
    [] t = "geo" -> {"proxy","hosting","country","no_city"}
    [] t = "phone" -> {"invalid","no_carrier"}
    [] t = "phone_social" -> {"breach","paste","carrier","iraqi"}
    [] t = "certificate" -> {"expired","expiring","old_tls","wildcard","self_signed"}
    [] t = "headers" -> {"no_critical","no_high","no_medium","no_low"}
    [] t = "redteam" -> {"CRITICAL","HIGH","MEDIUM","LOW"}
    [] t = "urlhaus" -> {"online","tags"}
    [] t = "otx" -> {"malware","country","adversary"}
    [] t = "compliance" -> {"failed"}
    [] t = "ioc_lookup" -> {"malicious_engine"}]
TheMost == [n \in UNION {TheFacts[t] : t \in AllTopics} |->
  CASE n \in {"epss","cvss","malicious_engine","failed"} -> 10
    [] n \in {"port","cve_critical","cve_high","no_header","verified_breach","paste","actor","github","malicious","reports","country","wildcard"} -> 4
    [] n \in {"no_medium"} -> 5
    [] n \in {"abuse","geo_risk"} -> 3
    [] n \in {"CRITICAL","HIGH","MEDIUM","LOW","sql_keyword","script_tag","no_critical","no_low","cve_other","breach"} -> 2
    [] OTHER -> 1]

-----------------------------------------------------------------------------

\* Each part starts anywhere it may; the others rest in one state.
IntelligenceInit ==
  /\ part \in {"scanner", "sharing", "feed", "map", "correlation", "entities", "risk"}
  /\ ScanInit /\ SharingInit /\ FeedInit /\ MapInit /\ CorrInit /\ EntitiesInit
  /\ RiskInit
  /\ part # "scanner" => site = CHOOSE t \in Sites : TRUE
  /\ part # "scanner" => scanner = CHOOSE s \in Scanners : TRUE
  /\ part # "sharing" => sharing.enabled /\ sharing.key
  /\ part # "feed" => feedKind = "indicators" /\ otxKey
  /\ part # "correlation" =>
       cacheFile = Absent /\ hashOrder = CHOOSE o \in SetToSeqs(Actors) : TRUE
  /\ part # "risk" => topic = CHOOSE t \in DOMAIN Facts : TRUE

Stays(which, vars) == IF part = which THEN TRUE ELSE UNCHANGED vars

IntelligenceNext ==
  /\ \/ part = "scanner" /\ VulnNext
     \/ part = "sharing" /\ SharingNext
     \/ part = "feed" /\ FeedNext
     \/ part = "map" /\ MapNext
     \/ part = "correlation" /\ CorrNext
     \/ part = "entities" /\ EntitiesNext
     \/ part = "risk" /\ Report
  /\ UNCHANGED part
  /\ Stays("scanner", scanVars) /\ Stays("sharing", sharingVars)
  /\ Stays("feed", feedVars) /\ Stays("map", mapVars)
  /\ Stays("correlation", corrVars) /\ Stays("entities", entityVars)
  /\ Stays("risk", riskVars)

IntelligenceSpec == IntelligenceInit /\ [][IntelligenceNext]_intelligenceVars

-----------------------------------------------------------------------------

\* The part's state has its shape.
IntelligenceTypeOK ==
  CASE part = "scanner" -> VulnTypeOK
    [] part = "sharing" -> SharingTypeOK
    [] part = "feed" -> FeedTypeOK
    [] part = "map" -> MapTypeOK
    [] part = "correlation" -> CorrTypeOK
    [] part = "entities" -> EntitiesTypeOK
    [] part = "risk" -> RiskTypeOK

\* What is reported, shared and shown is real, and within what the scope and the
\* policy let out: the scanners contact no host outside of the scope, and report a
\* finding only as far as an answer justifies it (TrafficStaysInScope and
\* EntriesAreJustified of VulnScan); the shared indicators and their audit trail
\* (AuditIsTruthful of ThreatSharing), the fed and cached ones (FeedIsHonest of
\* ThreatFeed) and the points of the map (PointsAreLocated of ThreatMap).
ReportsAreHonest ==
  CASE part = "scanner" -> TrafficStaysInScope /\ EntriesAreJustified
    [] part = "sharing" -> AuditIsTruthful
    [] part = "feed" -> FeedIsHonest
    [] part = "map" -> PointsAreLocated
    [] OTHER -> TRUE

\* One more piece of evidence never lowers what is concluded from it: a score or
\* its level (EvidenceNeverLowers of RiskScores), or the confidence in an entity
\* that one more source reports (CorroborationNeverLowers of OsintEntities).
MoreEvidenceNeverLowers == EvidenceNeverLowers /\ CorroborationNeverLowers
=============================================================================
