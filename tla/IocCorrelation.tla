---------------------------- MODULE IocCorrelation ----------------------------
(***************************************************************************)
(* The correlation of indicators (modules/ioc_correlation.py), the file it *)
(* caches its result in, the requests that ask for it (web/app.py), and    *)
(* the comparison of submitted indicators (global_feed.correlate_iocs).    *)
(*                                                                         *)
(* An indicator is a record: its id, type, family, raw adversary, score    *)
(* and source, its network (the /24 of an address) and its host (the name  *)
(* of a domain, or of the host in a URL).  The indicators of a cluster are *)
(* given by their positions in the answer.  The scores of clusters are in  *)
(* thousandths of a point and weights in hundredths.  Requests run in      *)
(* threads, and the file is truncated and then written.                    *)
(***************************************************************************)
EXTENDS FiniteSets, Naturals, Sequences, SequencesExt

CONSTANTS
  Feeds,         \* what OTX may answer: sequences of indicators; <<>> when
                 \* the key is missing or the fetch fails
  Actors,        \* the adversaries looks_like_threat_actor_name accepts
  HighRisk,      \* _HIGH_RISK_ACTORS
  KnownIocs,     \* the ids of the indicators the iocs table holds
  MaxRelations,  \* how many links a cluster keeps
  Correlators,   \* requests
  NoActor, NoNet

Fields == {"id", "type", "malware", "adversary", "score", "source", "net", "host"}

\* An indicator has its fields, and a score of otx_feed._score_indicator.
ASSUME CorrelationAssumption ==
  /\ IsFiniteSet(Actors) /\ HighRisk \subseteq Actors /\ NoActor \notin Actors
  /\ MaxRelations \in Nat
  /\ \A iocs \in Feeds :
       /\ iocs \in Seq(Range(iocs))
       /\ \A k \in DOMAIN iocs : DOMAIN iocs[k] = Fields /\ iocs[k].score \in 0..100

VARIABLES
  hashOrder,     \* the order a set of adversaries is listed in, by process
  cacheFile,     \* data/ioc_correlations.json
  correlator     \* each request

corrVars == <<hashOrder, cacheFile, correlator>>

IpTypes == {"ip", "cidr"}
DomainTypes == {"domain", "hostname"}
HashTypes == {"hash_md5", "hash_sha1", "hash_sha256", "hash_sha512"}
UrlTypes == {"url", "uri"}

Weights ==
  [hash_sha256 |-> 100, hash_sha512 |-> 100, hash_sha1 |-> 95, hash_md5 |-> 90,
   cve |-> 100, ip |-> 90, domain |-> 85, url |-> 88, cidr |-> 82, mutex |-> 80,
   yara |-> 90, email |-> 75, filepath |-> 70]
WeightOf(type) == IF type \in DOMAIN Weights THEN Weights[type] ELSE 70

AtMost(n, m) == IF n < m THEN n ELSE m
TypesOf(iocs, at) == {iocs[k].type : k \in at}
SourcesOf(iocs, at) == {iocs[k].source : k \in at}
AddressesOf(iocs, at) == {k \in at : iocs[k].type \in IpTypes}

\* What a loop that adds the numbers up, one after the other, comes to.
Total(v) ==
  LET sum[k \in 0..Len(v)] == IF k = 0 THEN 0 ELSE sum[k - 1] + v[k]
  IN  sum[Len(v)]

\* Mutant of VerifiedAdversary: whatever the pulse's author wrote.
RawAdversary(ioc) == ioc.adversary

VerifiedAdversary(ioc) == IF ioc.adversary \in Actors THEN ioc.adversary ELSE NoActor

ActorsIn(iocs, at) == {VerifiedAdversary(iocs[k]) : k \in at} \ {NoActor}

\* The first of a set, in the order of its hashes.
FirstActor(iocs, at, order) ==
  LET named == {k \in DOMAIN order : order[k] \in ActorsIn(iocs, at)}
  IN  IF named = {} THEN NoActor ELSE order[CHOOSE k \in named : \A j \in named : k <= j]

ClusterScore(iocs, at, adversary) ==
  LET weight == [k \in DOMAIN iocs |-> IF k \in at THEN WeightOf(iocs[k].type) ELSE 0]
      weighted == [k \in DOMAIN iocs |-> iocs[k].score * weight[k]]
      actor == IF adversary = NoActor THEN 0
               ELSE IF adversary \in HighRisk THEN 8000 ELSE 4000
  IN  AtMost(100000,
        (1000 * Total(weighted)) \div Total(weight)
        + AtMost(10000, 3000 * (Cardinality(TypesOf(iocs, at)) - 1))
        + actor + AtMost(8000, 1500 * (Cardinality(at) - 1)))

SeverityOf(score) ==
  IF score >= 90000 THEN "CRITICAL" ELSE IF score >= 70000 THEN "HIGH"
  ELSE IF score >= 50000 THEN "MEDIUM" ELSE IF score >= 30000 THEN "LOW"
  ELSE "INFORMATIONAL"

RelationLabel(a, b) ==
  LET pair == {a, b}
      meets(types) == pair \cap types # {}
  IN  IF pair \subseteq IpTypes \cup DomainTypes THEN "resolves_to"
      ELSE IF "url" \in pair /\ meets(DomainTypes) THEN "hosted_on"
      ELSE IF "url" \in pair /\ meets(IpTypes) THEN "resolves_to"
      ELSE IF meets(HashTypes) /\ meets(IpTypes \cup DomainTypes) THEN "communicates_with"
      ELSE IF meets(HashTypes) /\ meets(UrlTypes) THEN "downloaded_from"
      ELSE IF "cve" \in pair THEN "exploited_by"
      ELSE "related_to"

\* The links between indicators of different types, earlier to later, and no
\* more than the cap.
Relations(iocs, at) ==
  LET pairs == {p \in at \X at : p[1] < p[2] /\ iocs[p[1]].type # iocs[p[2]].type}
      Before(p, q) == p[1] < q[1] \/ (p[1] = q[1] /\ p[2] < q[2])
      kept == {p \in pairs : Cardinality({q \in pairs : Before(q, p)}) < MaxRelations}
  IN  {[source |-> iocs[p[1]].id, target |-> iocs[p[2]].id,
        relation |-> RelationLabel(iocs[p[1]].type, iocs[p[2]].type)] : p \in kept}

PatternsOf(iocs, at) ==
  LET types == TypesOf(iocs, at)
      meets(some) == types \cap some # {}
      holds == [
        infrastructure |-> meets(IpTypes) /\ meets(DomainTypes),
        payload |-> meets(HashTypes) /\ meets(IpTypes \cup DomainTypes),
        distribution |-> meets(UrlTypes) /\ meets(HashTypes),
        exploitation |-> "cve" \in types,
        multi_hash |-> Cardinality(types \cap HashTypes) > 1,
        botnet |-> Cardinality(AddressesOf(iocs, at)) >= 3,
        attributed |-> ActorsIn(iocs, at) # {},
        corroborated |-> Cardinality(SourcesOf(iocs, at)) > 1]
  IN  {p \in DOMAIN holds : holds[p]}

Cluster(strategy, name, iocs, at, adversary) ==
  LET score == ClusterScore(iocs, at, adversary)
  IN  [strategy |-> strategy, name |-> name, adversary |-> adversary, members |-> at,
       score |-> score, severity |-> SeverityOf(score),
       relations |-> Relations(iocs, at), patterns |-> PatternsOf(iocs, at)]

OfFamily(iocs, m) == {k \in DOMAIN iocs : iocs[k].malware = m}
OfActor(iocs, a) == {k \in DOMAIN iocs : VerifiedAdversary(iocs[k]) = a}
OfNet(iocs, n) == {k \in DOMAIN iocs : iocs[k].type \in IpTypes /\ iocs[k].net = n}

\* A cluster per family, one per actor with two indicators or more, and one
\* per network with two addresses or more.
Clusters(iocs, order) ==
  LET Of(strategy, name, at) == Cluster(strategy, name, iocs, at, FirstActor(iocs, at, order))
      Several(at) == Cardinality(at) >= 2
      nets == {iocs[k].net : k \in AddressesOf(iocs, DOMAIN iocs)} \ {NoNet}
  IN  {Of("malware_family", m, OfFamily(iocs, m)) : m \in {iocs[k].malware : k \in DOMAIN iocs}}
      \cup {Cluster("adversary", a, iocs, OfActor(iocs, a), a) :
              a \in {b \in ActorsIn(iocs, DOMAIN iocs) : Several(OfActor(iocs, b))}}
      \cup {Of("network_infrastructure", n, OfNet(iocs, n)) :
              n \in {o \in nets : Several(OfNet(iocs, o))}}

-----------------------------------------------------------------------------

Absent == [kind |-> "absent"]
Torn == [kind |-> "torn"]
Legacy == [kind |-> "legacy"]     \* written before is_live was a key
CorrelationReport(iocs, order) ==
  [kind |-> "report", of |-> iocs, is_live |-> iocs # <<>>,
   clusters |-> Clusters(iocs, order)]

Waiting == [phase |-> "none"]

CorrInit ==
  /\ hashOrder \in SetToSeqs(Actors)
  /\ cacheFile \in {Absent, Legacy}
  /\ correlator = [r \in Correlators |-> Waiting]

\* Mutant of Loadable: a file of the time of the built-in samples is served.
LoadableWhole(file) == file.kind \in {"report", "legacy"}

\* load_cached
Loadable(file) == file.kind = "report"

AnsweredWith(r, report) == correlator' = [correlator EXCEPT ![r] =
                                        [phase |-> "answered", report |-> report]]

Idle(r) == correlator[r].phase \in {"none", "answered", "submitted"}

\* GET /correlations, GET /api/correlations with and without refresh
AskCorrelations(r) ==
  /\ Idle(r)
  /\ \E refresh \in BOOLEAN :
       IF ~refresh /\ Loadable(cacheFile)
         THEN AnsweredWith(r, cacheFile)
         ELSE correlator' = [correlator EXCEPT ![r] = [phase |-> "running"]]
  /\ UNCHANGED <<hashOrder, cacheFile>>

\* GET /api/correlations/{cluster_id}: nothing is computed, 404 without a file.
AskCluster(r) ==
  /\ Idle(r) /\ Loadable(cacheFile)
  /\ \E c \in cacheFile.clusters : AnsweredWith(r, [cacheFile EXCEPT !.clusters = {c}])
  /\ UNCHANGED <<hashOrder, cacheFile>>

\* run_correlation: the fetch and the clusters ...
Correlate(r) ==
  /\ correlator[r].phase = "running"
  /\ \E iocs \in Feeds :
       correlator' = [correlator EXCEPT ![r] =
         [phase |-> "correlated", report |-> CorrelationReport(iocs, hashOrder)]]
  /\ UNCHANGED <<hashOrder, cacheFile>>

Saving(r) == correlator[r].phase = "saving"

\* ... the file is truncated ...
SaveBegins(r) ==
  /\ correlator[r].phase = "correlated"
  /\ cacheFile' = Torn
  /\ LET others == {q \in Correlators \ {r} : Saving(q)}
     IN  correlator' = [q \in Correlators |->
           IF q = r THEN [phase |-> "saving", report |-> correlator[r].report,
                          overlapped |-> others # {}]
           ELSE IF q \in others THEN [correlator[q] EXCEPT !.overlapped = TRUE]
           ELSE correlator[q]]
  /\ UNCHANGED hashOrder

\* ... and written; two writers at once may leave a mixture that does not parse.
SaveEnds(r) ==
  /\ Saving(r)
  /\ cacheFile' = correlator[r].report \/ (correlator[r].overlapped /\ cacheFile' = Torn)
  /\ AnsweredWith(r, correlator[r].report)
  /\ UNCHANGED hashOrder

\* The disk refuses, or the process is killed while it writes.
SaveFails(r) ==
  /\ Saving(r)
  /\ correlator' = [correlator EXCEPT ![r] = Waiting]
  /\ UNCHANGED <<hashOrder, cacheFile>>

\* POST /api/feed/correlate: what the table knows, and the structure of the
\* submitted indicators themselves.
CorrelateSubmitted(r) ==
  /\ Idle(r)
  /\ \E iocs \in Feeds :
       LET At(type) == {k \in DOMAIN iocs : iocs[k].type = type}
           InNet(n) == {iocs[k].id : k \in {j \in At("ip") : iocs[j].net = n}}
           nets == {iocs[k].net : k \in At("ip")} \ {NoNet}
       IN  correlator' = [correlator EXCEPT ![r] =
             [phase |-> "submitted", of |-> iocs,
              matches |-> {iocs[k].id : k \in DOMAIN iocs} \cap KnownIocs,
              hosted |-> {<<iocs[u].id, iocs[u].host>> : u \in
                            {v \in At("url") : \E d \in At("domain") :
                                                 iocs[d].host = iocs[v].host}},
              shared |-> {[subnet |-> n, values |-> InNet(n)] :
                            n \in {o \in nets : Cardinality({k \in At("ip") :
                                                  iocs[k].net = o}) >= 2}}]]
  /\ UNCHANGED <<hashOrder, cacheFile>>

CorrNext ==
  \E r \in Correlators :
       AskCorrelations(r) \/ AskCluster(r) \/ Correlate(r)
       \/ SaveBegins(r) \/ SaveEnds(r) \/ SaveFails(r)
       \/ CorrelateSubmitted(r)

CorrSpec == CorrInit /\ [][CorrNext]_corrVars

-----------------------------------------------------------------------------

CorrTypeOK ==
  /\ Range(hashOrder) = Actors /\ Len(hashOrder) = Cardinality(Actors)
  /\ cacheFile.kind \in {"absent", "torn", "legacy", "report"}
  /\ \A r \in Correlators :
       /\ correlator[r].phase \in {"none", "answered", "submitted", "running",
                                    "correlated", "saving"}
       /\ correlator[r].phase = "saving" => correlator[r].overlapped \in BOOLEAN

\* What the rest of an indicator leaves when its unverified name is erased.
Erased(iocs) ==
  [k \in DOMAIN iocs |->
     IF iocs[k].adversary \in Actors THEN iocs[k]
     ELSE [iocs[k] EXCEPT !.adversary = NoActor]]

HonestClusters(report) ==
  LET iocs == report.of
      all == Clusters(Erased(iocs), hashOrder)
      FamiliesOf(k) == {c \in all : c.strategy = "malware_family" /\ k \in c.members}
  IN  /\ report.clusters \subseteq all
      /\ \A k \in DOMAIN iocs : Cardinality(FamiliesOf(k)) = 1
      /\ \A c \in report.clusters :
           /\ c.adversary \in Actors => \E k \in c.members : iocs[k].adversary = c.adversary
           /\ c.score <= 100000
           /\ \E k \in c.members : 1000 * iocs[k].score <= c.score
           /\ c.strategy = "network_infrastructure" =>
                \A k \in c.members : iocs[k].net = c.name

\* What _verified_adversary promises ("must not trust a raw adversary string"):
\* no name a pulse's author made up changes a cluster, its score or its
\* patterns; every indicator is in the cluster of one family; a cluster names
\* an actor of one of its members and scores no less than the lowest of them; and a
\* request is answered with a whole result of this code, never with a
\* half-written file or one of the built-in samples.  The networks a submission
\* shares are clusters of the engine too.
ClustersAreHonest ==
  /\ \A r \in Correlators : correlator[r].phase \in {"answered", "correlated"} =>
       correlator[r].report.kind = "report" /\ HonestClusters(correlator[r].report)
  /\ \A r \in Correlators : correlator[r].phase = "submitted" =>
       \A s \in correlator[r].shared :
         \E c \in Clusters(correlator[r].of, hashOrder) :
           /\ c.strategy = "network_infrastructure" /\ c.name = s.subnet
           /\ \A v \in s.values : \E k \in c.members : correlator[r].of[k].id = v
=============================================================================
