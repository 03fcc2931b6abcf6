------------------------------ MODULE ThreatFeed ------------------------------
(***************************************************************************)
(* The received threat feed: the cached fetch of OTX pulses and campaigns  *)
(* (modules/threat_intel/otx_feed.py), the local indicators it is merged   *)
(* with (global_feed.py) and the routes that build the answer              *)
(* (web/routers/threat_feed.py and threat_sharing.py).                     *)
(*                                                                         *)
(* A request reads the local indicators, then looks in the cache and, when *)
(* that is too old, asks OTX page by page in a thread; what OTX holds      *)
(* changes meanwhile.  An indicator of OTX is known by the edition of the  *)
(* activity feed it was read from, a page holds one, and time is counted   *)
(* in ticks.                                                               *)
(***************************************************************************)
EXTENDS Naturals, Sequences, SequencesExt

CONSTANTS
  Feeders,      \* requests under way at once
  PageCount,    \* how many pages each edition of the activity feed has
  Limits,       \* the limits callers ask for
  CacheTtl,     \* _CACHE_TTL, in ticks
  MaxTick,      \* bound: ticks
  MaxLocal,     \* bound: the URLhaus rows a request finds (IocStore), and the
                \* community submissions (JsonStores)
  NotCached

ASSUME FeedAssumption ==
  /\ \A e \in DOMAIN PageCount : PageCount[e] \in Nat
  /\ 1 \in DOMAIN PageCount
  /\ Limits \subseteq Nat \ {0} /\ CacheTtl \in Nat \ {0}
  /\ MaxTick \in Nat /\ MaxLocal \in Nat

VARIABLES
  tick, edition,
  replacedAt,   \* history: when each past edition was replaced
  otxKey,       \* whether OTX_API_KEY is set
  feedKind,     \* "indicators" or "campaigns": each has a cache of its own,
                \* and the two do not meet
  otxCache,     \* _CACHE or _CAMPAIGN_CACHE
  feeder,       \* each request: what it asked for, read and got so far
  feed          \* the answer the last step gave, if it gave one

feedVars == <<tick, edition, replacedAt, feedKind, otxKey, otxCache, feeder,
              feed>>

FeedKinds == {"indicators", "campaigns"}
AtRest == [phase |-> "idle"]
NoFeed == [shown |-> <<>>]

FeedInit ==
  /\ tick = 0 /\ edition = 1 /\ replacedAt = <<>>
  /\ feedKind \in FeedKinds
  /\ otxKey \in BOOLEAN
  /\ otxCache = NotCached
  /\ feeder = [f \in Feeders |-> AtRest]
  /\ feed = NoFeed

-----------------------------------------------------------------------------
(* The world                                                               *)

FeedTick ==
  /\ tick < MaxTick
  /\ tick' = tick + 1
  /\ \/ UNCHANGED <<edition, replacedAt>>
     \/ /\ edition + 1 \in DOMAIN PageCount
        /\ edition' = edition + 1 /\ replacedAt' = Append(replacedAt, tick)
  /\ feed' = NoFeed
  /\ UNCHANGED <<feedKind, otxKey, otxCache, feeder>>

-----------------------------------------------------------------------------
(* get_live_ioc_feed, _build_feed, feed_source_statuses                    *)

First(s, n) == SubSeq(s, 1, IF Len(s) < n THEN Len(s) ELSE n)
From(source, e) == [from |-> source, edition |-> e]
Times(source, n) == [i \in 1..n |-> From(source, 0)]

\* Submissions are merged in only alongside live URLhaus rows.
LiveFeed(synced, submitted, limit) ==
  First(IF synced = 0 THEN <<>>
        ELSE Times("OPTISEC-GLOBAL", submitted) \o Times("URLHAUS", synced), limit)

OtxStatus(got) == IF got # <<>> THEN "connected"
                  ELSE IF otxKey THEN "configured_no_data" ELSE "not_configured"

UrlhausStatus(local) ==
  IF From("URLHAUS", 0) \in ToSet(local) THEN "connected" ELSE "not_configured"

\* Mutant of Shown: the two sources are shown together.
ShownTogether(got, local) == got \o local

\* OTX takes precedence.
Shown(got, local) == IF got # <<>> THEN got ELSE local

Answer(f, got) ==
  LET q == feeder[f] IN
  /\ feeder' = [feeder EXCEPT ![f] = AtRest]
  /\ feed' = [shown |-> Shown(got, q.local), asked |-> q.asked, limit |-> q.limit,
              otx |-> OtxStatus(got), urlhaus |-> UrlhausStatus(q.local),
              synced |-> q.synced]

-----------------------------------------------------------------------------
(* The requests                                                            *)

\* Mutant of Usable: what is cached stays good for ever.
UsableForEver == otxCache # NotCached

Usable == otxCache # NotCached /\ tick - otxCache.at < CacheTtl

\* live_feed, feed_home and get_threat_feed; get_campaigns has nothing local.
AskFeed(f) ==
  /\ feeder[f].phase = "idle"
  /\ \E n \in Limits, synced, submitted \in 0..MaxLocal :
       /\ feedKind = "campaigns" => synced = 0 /\ submitted = 0
       /\ feeder' = [feeder EXCEPT ![f] =
            [phase |-> "read", limit |-> n, asked |-> tick, got |-> <<>>,
             local |-> LiveFeed(synced, submitted, n), synced |-> synced]]
  /\ feed' = NoFeed
  /\ UNCHANGED <<tick, edition, replacedAt, feedKind, otxKey, otxCache>>

\* The cache knows the key it was filled with, not the limit.
LookInCache(f) ==
  LET q == feeder[f] IN
  /\ q.phase = "read"
  /\ CASE ~otxKey -> Answer(f, <<>>)
       [] otxKey /\ Usable -> Answer(f, First(otxCache.got, q.limit))
       [] OTHER -> /\ feeder' = [feeder EXCEPT ![f].phase = "fetching",
                                               ![f].asked = tick]
                   /\ feed' = NoFeed
  /\ UNCHANGED <<tick, edition, replacedAt, feedKind, otxKey, otxCache>>

Pages == IF feedKind = "campaigns" /\ PageCount[edition] > 1 THEN 1 ELSE PageCount[edition]

\* Another page, of the edition of the moment.
FetchPage(f) ==
  LET q == feeder[f] IN
  /\ q.phase = "fetching"
  /\ Len(q.got) < q.limit /\ Len(q.got) < Pages
  /\ feeder' = [feeder EXCEPT ![f].got = Append(@, From("ALIENVAULT-OTX", edition))]
  /\ feed' = NoFeed
  /\ UNCHANGED <<tick, edition, replacedAt, feedKind, otxKey, otxCache>>

\* Stored with the time the fetch began, and answered.
FetchEnds(f) ==
  LET q == feeder[f] IN
  /\ q.phase = "fetching"
  /\ Len(q.got) >= q.limit \/ Len(q.got) >= Pages
  /\ otxCache' = [at |-> q.asked, got |-> q.got]
  /\ Answer(f, q.got)
  /\ UNCHANGED <<tick, edition, replacedAt, feedKind, otxKey>>

\* A page that cannot be had loses those before it.
FetchFails(f) ==
  /\ feeder[f].phase = "fetching"
  /\ Answer(f, <<>>)
  /\ UNCHANGED <<tick, edition, replacedAt, feedKind, otxKey, otxCache>>

FeedNext ==
  \/ FeedTick
  \/ \E f \in Feeders :
       AskFeed(f) \/ LookInCache(f) \/ FetchPage(f) \/ FetchEnds(f) \/ FetchFails(f)

FeedSpec == FeedInit /\ [][FeedNext]_feedVars

-----------------------------------------------------------------------------

FeedTypeOK ==
  /\ tick \in 0..MaxTick /\ edition \in DOMAIN PageCount
  /\ Len(replacedAt) = edition - 1
  /\ feedKind \in FeedKinds
  /\ otxCache # NotCached =>
       /\ otxCache.at \in 0..tick
       /\ \A x \in ToSet(otxCache.got) : x.edition \in 1..edition
  /\ \A f \in Feeders : feeder[f].phase \in {"idle", "read", "fetching"}

\* An answer shows only what is real.  Every OTX indicator in it was at OTX
\* less than the life of the cache before the request looked, however fetches
\* overlap and whichever of them filled the cache last; local indicators are
\* shown only when URLhaus rows were stored and OTX gave nothing; and a source
\* said to be connected gave something.
FeedIsHonest ==
  feed # NoFeed =>
    /\ Len(feed.shown) <= feed.limit
    /\ \A x \in ToSet(feed.shown) :
         IF x.from = "ALIENVAULT-OTX"
         THEN /\ otxKey /\ feed.otx = "connected"
              /\ x.edition = edition \/ replacedAt[x.edition] + CacheTtl > feed.asked
         ELSE feed.synced > 0 /\ feed.otx # "connected"
    /\ feed.urlhaus = "connected" => feed.synced > 0

\* What the docstring of feed_source_statuses says ("not_configured: live
\* source with nothing synced / no key").
NotConfiguredMeansNothingSynced ==
  feed # NoFeed /\ feedKind = "indicators" /\ feed.urlhaus = "not_configured"
    => feed.synced = 0
=============================================================================
