------------------------------ MODULE VulnScan ------------------------------
(***************************************************************************)
(* One vulnerability scan of one target: the crawl that gathers addresses  *)
(* and forms (modules/vuln/crawler.py), the tests of a scanner (xss, sqli, *)
(* ssrf, lfi, open_redirect, graphql_probe), what each answer is taken for *)
(* (waf_aware_classifier.py), which results are kept, and the scope guard  *)
(* every request and every hop of a redirect passes (scan_scope.py).       *)
(*                                                                         *)
(* The target answers as it likes, firewall pages and failures included.   *)
(* A page, an address and a parameter are names; an answer is its status,  *)
(* whether a firewall vendor is recognised in it, and what it shows.       *)
(***************************************************************************)
EXTENDS FiniteSets, Naturals, Sequences

CONSTANTS
  Addresses,    \* pages, form actions and the places redirects lead to
  HostOf,       \* the host of each
  Base,         \* the scanned address
  InScope,      \* the hosts of the scan's scope
  Sites,        \* the sites the target may serve: links, params, forms, hop
                \* and the addresses its robots.txt excludes
  Telling,      \* the parameters whose name a scanner looks for
  MaxDepth, MaxPages,
  Tries,        \* bound: stands for the 5 to 13 payloads of a parameter
  Headers, GraphqlPaths,
  Names,        \* of parameters, of the inputs of forms, and of headers
  NoTrial       \* no test is under way

ASSUME VulnScanAssumption ==
  /\ HostOf \in [Addresses -> UNION {InScope, {HostOf[a] : a \in Addresses}}]
  /\ Base \in Addresses /\ HostOf[Base] \in InScope
  /\ Tries \in Nat \ {0} /\ MaxPages \in Nat \ {0} /\ MaxDepth \in Nat
  /\ {"", "id"} \cup Headers \subseteq Names /\ GraphqlPaths \subseteq Addresses
  /\ Sites \subseteq
       [links : [Addresses -> Seq(Addresses)], params : [Addresses -> SUBSET Names],
        forms : [Addresses -> SUBSET [at : Addresses, method : {"get", "post"},
                                      inputs : SUBSET Names]],
        hop : [Addresses -> Addresses], robots : SUBSET Addresses]

VARIABLES
  site, scanner,
  scanStage,   \* "crawl", "urls", "forms", "headers" or "finished"
  frontier,    \* crawl: the queue of addresses with their depth
  visited,     \* crawl: seen_pages
  gathered,    \* what the crawl hands to the scanner: addresses and forms
  untested,    \* the tests of this stage still to run
  trial,       \* the test under way, the payload it is at and what it keeps
  entries,     \* the findings
  contacted,   \* the hosts that were sent a request
  answered,    \* history: the tests that got an answer they keep
  proven       \* history: the tests some answer to which is real evidence

scanVars == <<site, scanner, scanStage, frontier, visited, gathered, untested,
              trial, entries, contacted, answered, proven>>

Scanners == {"xss", "sqli", "ssrf", "lfi", "redirect", "graphql"}
Statuses == {"ok", "moved", "refused", "invalid"}
Answers == [status : Statuses, waf : BOOLEAN,
            shows : {"nothing", "encoded", "inert", "weak", "strong", "disabled"}]
NoVerdict == "none"

ScanInit ==
  /\ site \in Sites /\ scanner \in Scanners
  /\ scanStage = "crawl"
  /\ frontier = <<[at |-> Base, depth |-> 0]>>
  /\ visited = {}
  /\ gathered = [urls |-> {}, forms |-> {}]
  /\ untested = {} /\ trial = NoTrial /\ entries = {}
  /\ contacted = {} /\ answered = {} /\ proven = {}

-----------------------------------------------------------------------------
(* The scope guard                                                         *)

\* Mutant of Allows: a pool of plain threads, which the scope does not follow.
AllowsInPool(a) == scanStage = "crawl" => HostOf[a] \in InScope

Allows(a) == HostOf[a] \in InScope

\* _guarded_send sees the request and, when redirects are followed, the hop.
Hops(a, follow) == {a} \cup IF follow THEN {site.hop[a]} ELSE {}
Blocked(a, follow) == \E h \in Hops(a, follow) : ~Allows(h)
Contacts(a, follow) ==
  IF Allows(a) THEN {HostOf[h] : h \in {x \in Hops(a, follow) : Allows(x)}} ELSE {}
Follows == scanner \notin {"ssrf", "redirect", "graphql"}

-----------------------------------------------------------------------------
(* crawl                                                                   *)

CrawlGoesOn == frontier # <<>> /\ Cardinality(visited) < MaxPages

\* Which links of page p, seen at depth d, are queued, by their places; and the
\* one way to go through some places in their order.
Queued(p, d) ==
  LET links == site.links[p]
  IN {i \in DOMAIN links : /\ d < MaxDepth /\ HostOf[links[i]] = HostOf[Base]
                           /\ links[i] \notin visited \cup {p}}
InOrder(places) ==
  {f \in [1..Cardinality(places) -> places] :
     \A i, j \in DOMAIN f : i < j => f[i] < f[j]}

Unchanging == UNCHANGED <<site, scanner, untested, trial, entries, answered, proven>>

CrawlAgain ==
  /\ scanStage = "crawl" /\ CrawlGoesOn
  /\ Head(frontier).at \in visited
  /\ frontier' = Tail(frontier)
  /\ Unchanging /\ UNCHANGED <<scanStage, visited, gathered, contacted>>

\* The request for robots.txt itself, which goes where the first page is, is left
\* out.  A page robots.txt excludes, one that cannot be fetched, and one that is not
\* HTML are seen and give nothing.
CrawlNothing ==
  /\ scanStage = "crawl" /\ CrawlGoesOn
  /\ LET p == Head(frontier).at IN
       /\ p \notin visited
       /\ visited' = visited \cup {p}
       /\ frontier' = Tail(frontier)
       /\ contacted' = IF p \in site.robots THEN contacted
                       ELSE contacted \cup Contacts(p, TRUE)
  /\ Unchanging /\ UNCHANGED <<scanStage, gathered>>

CrawlPage ==
  /\ scanStage = "crawl" /\ CrawlGoesOn
  /\ LET p == Head(frontier).at
         d == Head(frontier).depth IN
       /\ p \notin visited \cup site.robots /\ ~Blocked(p, TRUE)
       /\ visited' = visited \cup {p}
       /\ contacted' = contacted \cup Contacts(p, TRUE)
       /\ gathered' = [urls |-> gathered.urls \cup {a \in {p} : site.params[a] # {}},
                       forms |-> gathered.forms \cup site.forms[p]]
       /\ \E f \in InOrder(Queued(p, d)) :
            frontier' = Tail(frontier)
              \o [i \in DOMAIN f |-> [at |-> site.links[p][f[i]], depth |-> d + 1]]
  /\ Unchanging /\ UNCHANGED scanStage

-----------------------------------------------------------------------------
(* The tests                                                               *)

Test(kind, at, method, param) ==
  [kind |-> kind, at |-> at, method |-> method, param |-> param]

\* xss and sqli guess a name for an address without parameters; the others
\* prefer the telling names and take what there is when there is none.
ParamsOf(a) ==
  LET real == site.params[a] IN
  CASE scanner \in {"xss", "sqli"} -> IF real = {} THEN {"id"} ELSE real
    [] OTHER -> IF real \cap Telling = {} THEN real ELSE real \cap Telling

UrlTests ==
  IF scanner = "graphql" THEN {Test("graphql", a, "post", "") : a \in GraphqlPaths}
  ELSE UNION {{Test("url", a, "get", p) : p \in ParamsOf(a)} :
              a \in {Base} \cup gathered.urls}

BlindTests(a) == {Test("blind", a, "get", p) : p \in ParamsOf(a)}

\* Without a crawled form the scanner reads the base page for its own.
FormTests(forms) ==
  UNION {{Test("form", f.at, f.method, i) : i \in f.inputs} : f \in forms}

HeaderTests == IF scanner = "xss" THEN {Test("header", Base, "get", h) : h \in Headers}
               ELSE {}

\* A timeout or an error of the crawl loses all of it.
CrawlEnds ==
  /\ scanStage = "crawl"
  /\ scanStage' = "urls"
  /\ \/ ~CrawlGoesOn /\ UNCHANGED gathered
     \/ gathered' = [urls |-> {}, forms |-> {}]
  /\ frontier' = <<>>
  /\ visited' = {}
  /\ UNCHANGED <<site, scanner, trial, entries, contacted, answered, proven>>
  /\ untested' = UrlTests'

NextStage ==
  /\ trial = NoTrial /\ untested = {}
  /\ \/ /\ scanStage = "urls" /\ scanner \in {"xss", "sqli"}
        /\ scanStage' = "forms"
        /\ IF gathered.forms # {}
           THEN untested' = FormTests(gathered.forms) /\ UNCHANGED contacted
           ELSE /\ contacted' = contacted \cup Contacts(Base, TRUE)
                /\ \/ ~Blocked(Base, TRUE) /\ untested' = FormTests(site.forms[Base])
                   \/ UNCHANGED untested
     \/ /\ scanStage = "forms"
        /\ scanStage' = "headers" /\ untested' = HeaderTests
        /\ UNCHANGED contacted
     \/ /\ \/ scanStage = "headers"
           \/ scanStage = "urls" /\ scanner \notin {"xss", "sqli"}
        /\ scanStage' = "finished"
        /\ UNCHANGED <<untested, contacted>>
  /\ UNCHANGED <<site, scanner, frontier, visited, gathered, trial, entries,
                 answered, proven>>

StartTest ==
  /\ trial = NoTrial
  /\ \E t \in untested :
       /\ untested' = untested \ {t}
       /\ trial' = [test |-> t, payload |-> 1, kept |-> NoVerdict, of |-> 1]
  /\ UNCHANGED <<site, scanner, scanStage, frontier, visited, gathered, entries,
                 contacted, answered, proven>>

-----------------------------------------------------------------------------
(* classify, classify_graphql_introspection, classify_signature_match      *)

ExpectedStatus == IF scanner = "redirect" THEN "moved" ELSE "ok"

\* Mutant of Classify: what the answer shows is looked at before the firewall.
ClassifyEvidenceFirst(r) ==
  IF r.status = ExpectedStatus /\ r.shows = "strong" THEN "CONFIRMED"
  ELSE "INCONCLUSIVE"

\* What each of them looks at first.
Gate(r, otherwise) == IF r.status = "invalid" THEN "ENDPOINT_INVALID"
                      ELSE IF r.status = "refused" /\ r.waf THEN "WAF_BLOCKED"
                      ELSE otherwise
Through(r) == r.status = ExpectedStatus /\ ~r.waf

ClassifyReflection(r) ==
  IF Through(r) /\ r.shows = "strong" THEN "CONFIRMED"
  ELSE IF Through(r) /\ r.shows = "inert" THEN "POSSIBLE"
  ELSE IF r.shows = "encoded" THEN "ENCODED_SAFE"
  ELSE "INCONCLUSIVE"

ClassifyGraphql(r) ==
  IF Through(r) /\ r.shows = "strong" THEN "CONFIRMED"
  ELSE IF r.shows = "disabled" THEN "INTROSPECTION_DISABLED"
  ELSE "INCONCLUSIVE"

Classify(r) ==
  Gate(r, IF scanner = "xss" THEN ClassifyReflection(r)
          ELSE IF scanner = "graphql" THEN ClassifyGraphql(r)
          ELSE IF Through(r) /\ r.shows = "strong" THEN "CONFIRMED"
          ELSE "INCONCLUSIVE")

\* A pair of answers and whether they differ as an injection would make them:
\* in length and status for the boolean pair, in time for the other.
ClassifyBlind(a, b, differ) ==
  IF a.status = "invalid" /\ b.status = "invalid" THEN "ENDPOINT_INVALID"
  ELSE IF (a.waf \/ b.waf) /\ "refused" \in {a.status, b.status} THEN "WAF_BLOCKED"
  ELSE IF differ /\ ~a.waf /\ ~b.waf THEN "CONFIRMED"
  ELSE "INCONCLUSIVE"

\* The evidence the classifier's documentation asks for.
IsEvidence(r) == /\ ~r.waf /\ r.shows = "strong"
                 /\ IF scanner = "redirect" THEN r.status = "moved" ELSE r.status = "ok"

-----------------------------------------------------------------------------
(* The loop over the payloads                                              *)

PayloadsOf(t) == CASE t.kind \in {"blind", "graphql"} -> 2
                   [] t.kind = "header" \/ (t.kind = "form" /\ scanner = "sqli") -> 1
                   [] OTHER -> Tries

\* The address tested carries the payload; a form's does not, nor its method.
KeyOf(t, n) == <<t.at, t.param, IF t.kind \in {"form", "header", "graphql"} THEN 0
                                ELSE IF t.kind = "blind" THEN Tries + n ELSE n>>

WithEntry(t, n, v) ==
  IF \E e \in entries : e.key = KeyOf(t, n) THEN entries
  ELSE entries \cup {[key |-> KeyOf(t, n), verdict |-> v]}

\* What is left to test once t is over with verdict v.
Remaining(t, v) ==
  CASE t.kind = "graphql" /\ v = "CONFIRMED" -> {}
    [] t.kind = "form" /\ scanner = "sqli" /\ v \in {"CONFIRMED", "ENDPOINT_INVALID"} ->
         {u \in untested : u.at # t.at \/ u.method # t.method}
    [] t.kind = "url" /\ scanner = "sqli" ->
         IF \/ \E u \in untested : u.kind = "url" /\ u.at = t.at
            \/ v = "CONFIRMED"
            \/ \E e \in entries : e.key[1] = t.at /\ e.verdict = "CONFIRMED"
         THEN untested ELSE untested \cup BlindTests(t.at)
    [] OTHER -> untested

Decisive(v) == v \in {"CONFIRMED", "ENDPOINT_INVALID"}

EndsWith(t, n, v) ==
  /\ trial' = NoTrial
  /\ entries' = IF v = NoVerdict THEN entries ELSE WithEntry(t, n, v)
  /\ answered' = IF v = NoVerdict THEN answered ELSE answered \cup {t}
  /\ untested' = Remaining(t, v)

\* Each payload's verdict replaces the one kept so far; a confirmation and an
\* address that does not exist end the loop, the last payload does too.
AfterPayload(v, n) ==
  LET t == trial.test IN
  IF Decisive(v) \/ trial.payload = PayloadsOf(t)
  THEN EndsWith(t, n, v)
  ELSE /\ trial' = [test |-> t, payload |-> trial.payload + 1, kept |-> v, of |-> n]
       /\ UNCHANGED <<entries, answered, untested>>

Frame == UNCHANGED <<site, scanner, scanStage, frontier, visited, gathered>>
Sends == contacted' = contacted \cup Contacts(trial.test.at, Follows)
Signature == {"url", "form", "header"}

TryPayload ==
  /\ trial # NoTrial /\ trial.test.kind \in Signature
  /\ ~Blocked(trial.test.at, Follows) /\ Sends
  /\ \E r \in Answers :
       /\ AfterPayload(Classify(r), trial.payload)
       /\ proven' = IF IsEvidence(r) THEN proven \cup {trial.test} ELSE proven
  /\ Frame

\* A request that fails, out of scope or otherwise: the loop goes on.
PayloadFails ==
  /\ trial # NoTrial /\ trial.test.kind \in Signature \cup {"graphql"}
  /\ Sends
  /\ IF trial.payload = PayloadsOf(trial.test)
     THEN EndsWith(trial.test, trial.of, trial.kept)
     ELSE /\ trial' = [trial EXCEPT !.payload = @ + 1]
          /\ UNCHANGED <<entries, answered, untested>>
  /\ UNCHANGED proven /\ Frame

Rank(v) == CASE v = "CONFIRMED" -> 4 [] v = "INTROSPECTION_DISABLED" -> 3
             [] v = "WAF_BLOCKED" -> 2 [] v = "INCONCLUSIVE" -> 1 [] OTHER -> 0

\* POST, then GET unless POST was decisive; the more telling of the two is
\* kept, and a confirmation is not withdrawn when the full query fails.
ProbeGraphql ==
  /\ trial # NoTrial /\ trial.test.kind = "graphql"
  /\ ~Blocked(trial.test.at, FALSE) /\ Sends
  /\ \E r \in Answers :
       LET v == Classify(r)
           best == IF trial.kept # NoVerdict /\ Rank(trial.kept) >= Rank(v)
                   THEN trial.kept ELSE v IN
       /\ IF trial.payload = 2 \/ Rank(v) >= 2
          THEN EndsWith(trial.test, 0, best)
          ELSE /\ trial' = [trial EXCEPT !.payload = 2, !.kept = v]
               /\ UNCHANGED <<entries, answered, untested>>
       /\ proven' = IF IsEvidence(r) THEN proven \cup {trial.test} ELSE proven
  /\ Frame

\* The boolean pair, then the timed pair unless the first was decisive; both
\* leave an entry.
TryBlindPair ==
  /\ trial # NoTrial /\ trial.test.kind = "blind"
  /\ ~Blocked(trial.test.at, TRUE) /\ Sends
  /\ \E sa, sb \in Statuses, wa, wb, d \in BOOLEAN :
       LET a == [status |-> sa, waf |-> wa]
           b == [status |-> sb, waf |-> wb]
           differ == d /\ (trial.payload = 1 => sa # sb)
           v == ClassifyBlind(a, b, differ)
           t == trial.test IN
       /\ entries' = WithEntry(t, trial.payload, v)
       /\ answered' = answered \cup {t}
       /\ proven' = IF differ /\ ~wa /\ ~wb /\ ~(sa = "invalid" /\ sb = "invalid")
                    THEN proven \cup {t} ELSE proven
       /\ trial' = IF Decisive(v) \/ trial.payload = 2 THEN NoTrial
                   ELSE [trial EXCEPT !.payload = 2]
  /\ UNCHANGED untested /\ Frame

BlindPairFails ==
  /\ trial # NoTrial /\ trial.test.kind = "blind"
  /\ Sends
  /\ trial' = IF trial.payload = 2 THEN NoTrial ELSE [trial EXCEPT !.payload = 2]
  /\ UNCHANGED <<untested, entries, answered, proven>> /\ Frame

ScanFinished == scanStage = "finished" /\ UNCHANGED scanVars

VulnNext ==
  \/ CrawlAgain \/ CrawlNothing \/ CrawlPage \/ CrawlEnds
  \/ NextStage \/ StartTest
  \/ TryPayload \/ PayloadFails \/ ProbeGraphql \/ TryBlindPair \/ BlindPairFails
  \/ ScanFinished

VulnSpec == ScanInit /\ [][VulnNext]_scanVars

-----------------------------------------------------------------------------

Verdicts == {"CONFIRMED", "POSSIBLE", "WAF_BLOCKED", "ENDPOINT_INVALID",
             "ENCODED_SAFE", "INTROSPECTION_DISABLED", "INCONCLUSIVE"}
Tests == [kind : {"url", "blind", "form", "header", "graphql"}, at : Addresses,
          method : {"get", "post"}, param : Names]

VulnTypeOK ==
  /\ site \in Sites /\ scanner \in Scanners
  /\ scanStage \in {"crawl", "urls", "forms", "headers", "finished"}
  /\ visited \subseteq Addresses /\ Cardinality(visited) <= MaxPages
  /\ \A i \in DOMAIN frontier : frontier[i].depth <= MaxDepth
  /\ \A t \in untested \cup answered \cup proven : t \in Tests
  /\ \A e \in entries : e.verdict \in Verdicts
  /\ trial # NoTrial => trial.kept \in Verdicts \cup {NoVerdict}

\* Whatever the pages link to, whatever their forms post to and wherever the
\* target redirects, no request leaves the hosts of the scan's scope: neither
\* the crawl's nor those of the threads that test.
TrafficStaysInScope == contacted \subseteq InScope

Keys(t) == {KeyOf(t, n) : n \in 0..Tries + 2}
Over(t) == trial = NoTrial \/ trial.test # t

\* The findings are what the target's answers support: a confirmed one has an
\* answer that proves it, every test that was answered has left an entry, and a
\* test that was proven is confirmed unless another test shares its key (a form
\* that is sent to one address by GET and by POST: the first to end is kept).
EntriesAreJustified ==
  /\ \A e \in entries : e.verdict = "CONFIRMED" => \E t \in proven : e.key \in Keys(t)
  /\ \A t \in answered : Over(t) => \E e \in entries : e.key \in Keys(t)
  /\ \A t \in proven :
       \/ ~Over(t)
       \/ \E e \in entries : e.key \in Keys(t) /\ e.verdict = "CONFIRMED"
       \/ \E u \in answered \ {t} : Keys(u) \cap Keys(t) # {}
=============================================================================
