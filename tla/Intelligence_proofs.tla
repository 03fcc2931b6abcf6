------------------------- MODULE Intelligence_proofs -------------------------
(***************************************************************************)
(* Theorems about what the platform finds out and shares, for any values   *)
(* of the constants: the received feed (ThreatFeed), the map (ThreatMap),  *)
(* the shared indicators (ThreatSharing), the correlations                 *)
(* (IocCorrelation), the merge of findings (OsintEntities), the scanners   *)
(* (VulnScan), the scores (RiskScores), and the composition                *)
(* (MCIntelligence).                                                       *)
(***************************************************************************)
EXTENDS MCIntelligence, FiniteSetTheorems, SequenceTheorems, WellFoundedInduction, TLAPS

-----------------------------------------------------------------------------
(* ThreatFeed                                                              *)

\* What was read from OTX at a time or later: it is there still, or was replaced no
\* earlier than that.
ReadSince(x, time) ==
  /\ x.from = "ALIENVAULT-OTX" /\ x.edition \in 1..edition
  /\ x.edition = edition \/ replacedAt[x.edition] >= time

\* Local indicators are there only if URLhaus rows were stored.
LocalOnly(local, synced) ==
  \A x \in ToSet(local) : x.from # "ALIENVAULT-OTX" /\ synced > 0

\* What is shown of an indicator.
Shows == [from : {"ALIENVAULT-OTX", "OPTISEC-GLOBAL", "URLHAUS"}, edition : Nat]

\* A request under way: what it asked for, read and got.
Request == [phase : {"read", "fetching"}, limit : Nat, asked : Nat, got : Seq(Shows),
            local : Seq(Shows), synced : Nat]

FeederInv(f) ==
  feeder[f] # AtRest =>
    /\ feeder[f] \in Request
    /\ feeder[f].asked <= tick
    /\ Len(feeder[f].local) <= feeder[f].limit
    /\ LocalOnly(feeder[f].local, feeder[f].synced)
    /\ feeder[f].phase = "fetching" => otxKey
    /\ feeder[f].phase = "read" => feeder[f].got = <<>>
    /\ Len(feeder[f].got) <= feeder[f].limit
    /\ \A x \in ToSet(feeder[f].got) : ReadSince(x, feeder[f].asked)

CacheInv ==
  otxCache # NotCached =>
    /\ otxCache.at \in 0..tick
    /\ otxCache.got \in Seq(Shows)
    /\ \A x \in ToSet(otxCache.got) : ReadSince(x, otxCache.at)

ClockInv ==
  /\ tick \in 0..MaxTick /\ edition \in DOMAIN PageCount /\ edition \in Nat \ {0}
  /\ replacedAt \in Seq(Nat) /\ Len(replacedAt) = edition - 1
  /\ \A e \in 1..(edition - 1) : replacedAt[e] <= tick
  /\ feedKind \in FeedKinds /\ otxKey \in BOOLEAN

FeedInv ==
  /\ ClockInv /\ CacheInv
  /\ feeder \in [Feeders -> Request \cup {AtRest}]
  /\ \A f \in Feeders : FeederInv(f)
  /\ FeedIsHonest

LEMMA FirstOnes ==
  ASSUME NEW S, NEW s \in Seq(S), NEW n \in Nat
  PROVE  /\ First(s, n) \in Seq(S) /\ Len(First(s, n)) <= n
         /\ ToSet(First(s, n)) \subseteq ToSet(s)
<1> DEFINE m == IF Len(s) < n THEN Len(s) ELSE n
<1>1. m \in Nat /\ m <= n /\ m <= Len(s) /\ Len(s) \in Nat
  OBVIOUS
<1>2. First(s, n) = SubSeq(s, 1, m)
  BY DEF First
<1> HIDE DEF m
<1>3. /\ SubSeq(s, 1, m) \in Seq(S) /\ Len(SubSeq(s, 1, m)) = m
      /\ DOMAIN SubSeq(s, 1, m) = 1..m
      /\ \A i \in 1..m : SubSeq(s, 1, m)[i] = s[i] /\ i \in DOMAIN s
  BY <1>1
<1>4. QED
  BY <1>1, <1>2, <1>3 DEF ToSet

LEMMA LocalFeed ==
  ASSUME NEW synced \in Nat, NEW submitted \in Nat, NEW n \in Nat
  PROVE  /\ LiveFeed(synced, submitted, n) \in Seq(Shows)
         /\ Len(LiveFeed(synced, submitted, n)) <= n
         /\ LocalOnly(LiveFeed(synced, submitted, n), synced)
<1> DEFINE Local == {e \in Shows : e.from # "ALIENVAULT-OTX"}
           whole == IF synced = 0 THEN <<>>
                    ELSE Times("OPTISEC-GLOBAL", submitted) \o Times("URLHAUS", synced)
<1>1. /\ From("OPTISEC-GLOBAL", 0) \in Local /\ From("URLHAUS", 0) \in Local
  BY DEF From, Shows
<1>2. \A e \in Local : e.from # "ALIENVAULT-OTX" /\ e \in Shows
  OBVIOUS
<1> HIDE DEF Local
<1>3. Times("OPTISEC-GLOBAL", submitted) \in Seq(Local) /\ Times("URLHAUS", synced) \in Seq(Local)
  BY <1>1 DEF Times
<1>4. whole \in Seq(Local)
  BY <1>3
<1>5. LiveFeed(synced, submitted, n) = First(whole, n)
  BY DEF LiveFeed
<1>6. synced = 0 => whole = <<>>
  OBVIOUS
<1> HIDE DEF whole
<1>7. /\ First(whole, n) \in Seq(Local) /\ Len(First(whole, n)) <= n
      /\ ToSet(First(whole, n)) \subseteq ToSet(whole)
  BY <1>4, FirstOnes
<1>8. ToSet(whole) \subseteq Local /\ (synced = 0 => ToSet(whole) = {})
  BY <1>4, <1>6 DEF ToSet
<1>9. First(whole, n) \in Seq(Shows)
  BY <1>2, <1>7
<1>10. QED
  BY <1>2, <1>5, <1>7, <1>8, <1>9 DEF LocalOnly

\* An answer is honest when what it got is recent enough.
LEMMA AnswerIsHonest ==
  ASSUME FeedInv, NEW f \in Feeders, feeder[f] # AtRest,
         NEW got \in Seq(Shows),
         Len(got) <= feeder[f].limit, got # <<>> => otxKey,
         \A x \in ToSet(got) :
           /\ x.from = "ALIENVAULT-OTX"
           /\ x.edition = edition \/ replacedAt[x.edition] + CacheTtl > feeder[f].asked,
         Answer(f, got), UNCHANGED <<tick, edition, replacedAt, feedKind, otxKey>>
  PROVE  /\ FeedIsHonest'
         /\ feeder' \in [Feeders -> Request \cup {AtRest}]
         /\ \A g \in Feeders : FeederInv(g)'
<1> DEFINE q == feeder[f]
<1>1. /\ feeder' = [feeder EXCEPT ![f] = AtRest]
      /\ feed' = [shown |-> Shown(got, q.local), asked |-> q.asked, limit |-> q.limit,
                  otx |-> OtxStatus(got), urlhaus |-> UrlhausStatus(q.local),
                  synced |-> q.synced]
  BY DEF Answer
<1>2. /\ q \in Request /\ Len(q.local) <= q.limit /\ LocalOnly(q.local, q.synced)
  BY DEF FeedInv, FeederInv
<1>3. /\ feed'.shown = Shown(got, q.local) /\ feed'.asked = q.asked /\ feed'.limit = q.limit
      /\ feed'.otx = OtxStatus(got) /\ feed'.urlhaus = UrlhausStatus(q.local)
      /\ feed'.synced = q.synced
  BY <1>1
<1>4. feeder' \in [Feeders -> Request \cup {AtRest}]
  BY <1>1 DEF FeedInv
<1>5. ASSUME NEW g \in Feeders PROVE FeederInv(g)'
  <2>1. feeder'[g] = AtRest \/ feeder'[g] = feeder[g]
    BY <1>1 DEF FeedInv
  <2>2. \A x, t : ReadSince(x, t)' <=> ReadSince(x, t)
    BY DEF ReadSince
  <2>3. FeederInv(g) /\ tick' = tick /\ otxKey' = otxKey
    BY DEF FeedInv
  <2>4. QED
    BY <2>1, <2>2, <2>3 DEF FeederInv
<1>6. CASE got # <<>>
  <2>1. feed'.shown = got /\ feed'.otx = "connected"
    BY <1>3, <1>6 DEF Shown, OtxStatus
  <2>2. \A x \in ToSet(got) : x.from = "ALIENVAULT-OTX"
          /\ (x.edition = edition' \/ replacedAt'[x.edition] + CacheTtl > feed'.asked)
    BY <1>3
  <2>3. feed'.urlhaus = "connected" => feed'.synced > 0
    BY <1>2, <1>3 DEF UrlhausStatus, LocalOnly
  <2>4. Len(feed'.shown) <= feed'.limit
    BY <1>3, <2>1
  <2>5. otxKey'
    BY <1>6
  <2>6. QED
    BY <1>4, <1>5, <2>1, <2>2, <2>3, <2>4, <2>5 DEF FeedIsHonest
<1>7. CASE got = <<>>
  <2>1. feed'.shown = q.local /\ feed'.otx # "connected"
    BY <1>3, <1>7 DEF Shown, OtxStatus
  <2>2. \A x \in ToSet(feed'.shown) : x.from # "ALIENVAULT-OTX" /\ feed'.synced > 0
    BY <1>2, <1>3, <2>1 DEF LocalOnly
  <2>3. feed'.urlhaus = "connected" => feed'.synced > 0
    BY <1>2, <1>3 DEF UrlhausStatus, LocalOnly
  <2>4. Len(feed'.shown) <= feed'.limit
    BY <1>2, <1>3, <2>1
  <2>5. QED
    BY <1>4, <1>5, <2>1, <2>2, <2>3, <2>4 DEF FeedIsHonest
<1>8. QED
  BY <1>6, <1>7

\* Time passes, and what OTX holds may change: what was read is as old as it was.
LEMMA TickKeeps ==
  ASSUME FeedInv, FeedTick
  PROVE  ClockInv' /\ \A x : \A t \in 0..tick : ReadSince(x, t) => ReadSince(x, t)'
<1>1. /\ tick \in 0..MaxTick /\ tick < MaxTick /\ tick' = tick + 1
      /\ edition \in Nat \ {0} /\ replacedAt \in Seq(Nat) /\ Len(replacedAt) = edition - 1
      /\ \A e \in 1..(edition - 1) : replacedAt[e] <= tick
      /\ edition \in DOMAIN PageCount
      /\ feedKind \in FeedKinds /\ otxKey \in BOOLEAN /\ UNCHANGED <<feedKind, otxKey>>
  BY DEF FeedInv, ClockInv, FeedTick
<1>2. MaxTick \in Nat
  BY FeedAssumption
<1>3. tick' \in 0..MaxTick /\ tick \in Nat
  BY <1>1, <1>2
<1>4. CASE UNCHANGED <<edition, replacedAt>>
  <2>1. \A e \in 1..(edition - 1) : replacedAt[e] <= tick'
    <3> SUFFICES ASSUME NEW e \in 1..(edition - 1) PROVE replacedAt[e] <= tick'
      OBVIOUS
    <3>1. replacedAt[e] \in Nat /\ replacedAt[e] <= tick
      BY <1>1
    <3>2. QED
      BY <1>1, <1>3, <3>1
  <2>2. ClockInv'
    BY <1>1, <1>3, <1>4, <2>1 DEF ClockInv
  <2>3. QED
    BY <1>4, <2>2 DEF ReadSince
<1>5. CASE /\ edition + 1 \in DOMAIN PageCount
           /\ edition' = edition + 1 /\ replacedAt' = Append(replacedAt, tick)
  <2>1. /\ replacedAt' \in Seq(Nat) /\ Len(replacedAt') = edition' - 1 /\ edition' \in Nat \ {0}
        /\ replacedAt'[edition] = tick
        /\ \A e \in 1..(edition - 1) : replacedAt'[e] = replacedAt[e] /\ replacedAt[e] \in Nat
    BY <1>1, <1>3, <1>5
  <2>2. \A e \in 1..(edition' - 1) : replacedAt'[e] <= tick'
    <3> SUFFICES ASSUME NEW e \in 1..(edition' - 1) PROVE replacedAt'[e] <= tick'
      OBVIOUS
    <3>1. e = edition \/ e \in 1..(edition - 1)
      BY <1>1, <1>5
    <3>2. CASE e = edition
      <4>1. replacedAt'[e] = tick
        BY <2>1, <3>2
      <4>2. QED
        BY <1>1, <1>3, <4>1
    <3>3. CASE e \in 1..(edition - 1)
      <4>1. replacedAt'[e] = replacedAt[e] /\ replacedAt[e] \in Nat /\ replacedAt[e] <= tick
        BY <1>1, <2>1, <3>3
      <4>2. QED
        BY <1>1, <1>3, <4>1
    <3>4. QED
      BY <3>1, <3>2, <3>3
  <2>3. ClockInv'
    BY <1>1, <1>3, <1>5, <2>1, <2>2 DEF ClockInv
  <2>4. ASSUME NEW x, NEW t \in 0..tick, ReadSince(x, t) PROVE ReadSince(x, t)'
    <3>1. x.edition \in 1..edition /\ x.from = "ALIENVAULT-OTX"
      BY <2>4 DEF ReadSince
    <3>2. CASE x.edition = edition
      <4>1. replacedAt'[x.edition] >= t
        BY <1>3, <2>1, <3>2
      <4>2. x.edition \in 1..edition'
        BY <1>1, <1>5, <3>1
      <4>3. QED
        BY <3>1, <4>1, <4>2 DEF ReadSince
    <3>3. CASE x.edition # edition
      <4>1. x.edition \in 1..(edition - 1) /\ x.edition \in 1..edition'
        BY <1>1, <1>5, <3>1, <3>3
      <4>2. replacedAt'[x.edition] >= t
        BY <2>1, <2>4, <3>3, <4>1 DEF ReadSince
      <4>3. QED
        BY <3>1, <4>1, <4>2 DEF ReadSince
    <3>4. QED
      BY <3>2, <3>3
  <2>5. QED
    BY <2>3, <2>4
<1>6. QED
  BY <1>4, <1>5 DEF FeedTick

LEMMA FeedInvStep == FeedInv /\ [FeedNext]_feedVars => FeedInv'
<1> SUFFICES ASSUME FeedInv, [FeedNext]_feedVars PROVE FeedInv'
  OBVIOUS
<1>1. /\ tick \in Nat /\ edition \in Nat \ {0} /\ replacedAt \in Seq(Nat)
      /\ Len(replacedAt) = edition - 1
      /\ \A e \in 1..(edition - 1) : replacedAt[e] <= tick
      /\ CacheTtl \in Nat \ {0} /\ Limits \subseteq Nat \ {0} /\ MaxLocal \in Nat
  BY FeedAssumption DEF FeedInv, ClockInv
<1>2. ASSUME NEW f \in Feeders, feeder[f] # AtRest
      PROVE  feeder[f] \in Request /\ FeederInv(f) /\ feeder[f].asked \in 0..tick
  <2>1. feeder[f] \in Request /\ FeederInv(f) /\ feeder[f].asked <= tick
    BY <1>2 DEF FeedInv, FeederInv
  <2>2. feeder[f].asked \in Nat
    BY <2>1 DEF Request
  <2>3. QED
    BY <1>1, <2>1, <2>2
<1>3. CASE FeedTick
  <2>1. ClockInv' /\ \A x : \A t \in 0..tick : ReadSince(x, t) => ReadSince(x, t)'
    BY <1>3, TickKeeps
  <2>2. /\ tick' = tick + 1 /\ feed' = NoFeed /\ UNCHANGED <<otxKey, otxCache, feeder>>
    BY <1>3 DEF FeedTick
  <2>3. CacheInv'
    <3> SUFFICES ASSUME otxCache # NotCached
                 PROVE  /\ otxCache.at \in 0..tick'
                        /\ otxCache.got \in Seq(Shows)
                        /\ \A x \in ToSet(otxCache.got) : ReadSince(x, otxCache.at)'
      BY <2>2 DEF CacheInv
    <3>1. /\ otxCache.at \in 0..tick
          /\ otxCache.got \in Seq(Shows)
          /\ \A x \in ToSet(otxCache.got) : ReadSince(x, otxCache.at)
      BY DEF FeedInv, CacheInv
    <3>2. otxCache.at \in 0..tick'
      BY <1>1, <2>2, <3>1
    <3>3. QED
      BY <2>1, <2>2, <3>1, <3>2
  <2>4. ASSUME NEW f \in Feeders PROVE FeederInv(f)'
    <3> SUFFICES ASSUME feeder[f] # AtRest PROVE FeederInv(f)'
      BY <2>2 DEF FeederInv
    <3>1. FeederInv(f) /\ feeder[f].asked \in 0..tick /\ feeder'[f] = feeder[f]
      BY <1>2, <2>2
    <3>2. feeder[f].asked <= tick'
      BY <1>1, <2>2, <3>1
    <3>3. \A x \in ToSet(feeder[f].got) : ReadSince(x, feeder[f].asked)'
      BY <2>1, <3>1 DEF FeederInv
    <3>4. QED
      BY <2>2, <3>1, <3>2, <3>3 DEF FeederInv
  <2>5. FeedIsHonest'
    BY <2>2 DEF FeedIsHonest
  <2>6. QED
    BY <2>1, <2>2, <2>3, <2>4, <2>5 DEF FeedInv
<1>4. ASSUME UNCHANGED <<tick, edition, replacedAt, feedKind, otxKey, otxCache>>
      PROVE  /\ ClockInv' /\ CacheInv' /\ \A x, t : ReadSince(x, t)' <=> ReadSince(x, t)
  <2>1. \A x, t : ReadSince(x, t)' <=> ReadSince(x, t)
    BY <1>4 DEF ReadSince
  <2>2. ClockInv'
    BY <1>4 DEF FeedInv, ClockInv
  <2>3. CacheInv'
    BY <1>4, <2>1 DEF FeedInv, CacheInv
  <2>4. QED
    BY <2>1, <2>2, <2>3
<1>5. ASSUME NEW f \in Feeders, AskFeed(f) PROVE FeedInv'
  <2>1. PICK n \in Limits, synced \in 0..MaxLocal, submitted \in 0..MaxLocal :
          feeder' = [feeder EXCEPT ![f] =
            [phase |-> "read", limit |-> n, asked |-> tick, got |-> <<>>,
             local |-> LiveFeed(synced, submitted, n), synced |-> synced]]
    BY <1>5 DEF AskFeed
  <2>2. UNCHANGED <<tick, edition, replacedAt, feedKind, otxKey, otxCache>> /\ feed' = NoFeed
    BY <1>5 DEF AskFeed
  <2>3. n \in Nat /\ synced \in Nat /\ submitted \in Nat
    BY <1>1
  <2> DEFINE local == LiveFeed(synced, submitted, n)
             asks == [phase |-> "read", limit |-> n, asked |-> tick, got |-> <<>>,
                      local |-> local, synced |-> synced]
  <2>4. /\ local \in Seq(Shows) /\ Len(local) <= n
        /\ LocalOnly(local, synced)
    BY <2>3, LocalFeed
  <2>5. feeder' = [feeder EXCEPT ![f] = asks]
    BY <2>1
  <2> HIDE DEF local
  <2>6. /\ asks \in Request /\ asks.asked = tick /\ asks.limit = n /\ asks.local = local
        /\ asks.synced = synced /\ asks.phase = "read" /\ asks.got = <<>>
    BY <1>1, <2>3, <2>4 DEF Request
  <2> HIDE DEF asks
  <2>7. feeder' \in [Feeders -> Request \cup {AtRest}] /\ feeder'[f] = asks
        /\ \A g \in Feeders \ {f} : feeder'[g] = feeder[g]
    BY <2>5, <2>6 DEF FeedInv
  <2>8. ASSUME NEW g \in Feeders PROVE FeederInv(g)'
    <3>1. CASE g = f
      <4>1. ToSet(asks.got) = {} /\ Len(asks.got) = 0
        BY <2>6 DEF ToSet
      <4>2. QED
        BY <1>1, <2>2, <2>3, <2>4, <2>6, <2>7, <3>1, <4>1 DEF FeederInv
    <3>2. CASE g # f
      <4>1. feeder'[g] = feeder[g] /\ FeederInv(g)
        BY <2>7, <3>2 DEF FeedInv
      <4>2. QED
        BY <1>4, <2>2, <4>1 DEF FeederInv
    <3>3. QED
      BY <3>1, <3>2
  <2>9. FeedIsHonest'
    BY <2>2 DEF FeedIsHonest
  <2>10. QED
    BY <1>4, <2>2, <2>7, <2>8, <2>9 DEF FeedInv
<1>6. ASSUME NEW f \in Feeders, feeder[f] # AtRest, UNCHANGED <<tick, edition, replacedAt, feedKind, otxKey, otxCache>>,
             NEW got, Answer(f, got),
             got \in Seq(Shows), Len(got) <= feeder[f].limit,
             got # <<>> => otxKey,
             \A x \in ToSet(got) :
               /\ x.from = "ALIENVAULT-OTX"
               /\ x.edition = edition \/ replacedAt[x.edition] + CacheTtl > feeder[f].asked
      PROVE  FeedInv'
  BY <1>4, <1>6, AnswerIsHonest DEF FeedInv
<1>7. ASSUME NEW f \in Feeders, feeder[f] # AtRest
      PROVE  /\ <<>> \in Seq(Shows) /\ Len(<<>>) <= feeder[f].limit
             /\ ToSet(<<>>) = {}
  <2>1. feeder[f].limit \in Nat
    BY <1>2, <1>7 DEF Request
  <2>2. QED
    BY <2>1 DEF ToSet
<1>8. ASSUME NEW f \in Feeders, LookInCache(f) PROVE FeedInv'
  <2>1. /\ feeder[f].phase = "read"
        /\ UNCHANGED <<tick, edition, replacedAt, feedKind, otxKey, otxCache>>
    BY <1>8 DEF LookInCache
  <2>2. feeder[f] # AtRest
    BY <2>1 DEF AtRest
  <2>3. /\ feeder[f] \in Request /\ FeederInv(f) /\ feeder[f].asked \in 0..tick
    BY <1>2, <2>2
  <2>4. feeder[f].limit \in Nat
    BY <2>3 DEF Request
  <2>5. CASE ~otxKey
    <3>1. Answer(f, <<>>)
      BY <1>8, <2>5 DEF LookInCache
    <3>2. QED
      BY <1>6, <1>7, <2>1, <2>2, <3>1
  <2>6. CASE otxKey /\ Usable
    <3>1. Answer(f, First(otxCache.got, feeder[f].limit))
      BY <1>8, <2>6 DEF LookInCache
    <3>2. /\ otxCache.at \in 0..tick /\ tick - otxCache.at < CacheTtl
          /\ otxCache.got \in Seq(Shows)
          /\ \A x \in ToSet(otxCache.got) : ReadSince(x, otxCache.at)
      BY <2>6 DEF FeedInv, CacheInv, Usable
    <3> DEFINE got == First(otxCache.got, feeder[f].limit)
    <3>3. /\ got \in Seq(Shows) /\ Len(got) <= feeder[f].limit
          /\ ToSet(got) \subseteq ToSet(otxCache.got)
      BY <2>4, <3>2, FirstOnes
    <3> HIDE DEF got
    <3>4. ASSUME NEW x \in ToSet(got)
          PROVE  /\ x.from = "ALIENVAULT-OTX"
                 /\ x.edition = edition \/ replacedAt[x.edition] + CacheTtl > feeder[f].asked
      <4>1. ReadSince(x, otxCache.at)
        BY <3>2, <3>3
      <4>2. CASE x.edition # edition
        <5>1. x.edition \in 1..(edition - 1) /\ replacedAt[x.edition] >= otxCache.at
          BY <1>1, <4>1, <4>2 DEF ReadSince
        <5>2. replacedAt[x.edition] \in Nat
          BY <1>1, <5>1
        <5>3. /\ feeder[f].asked \in Nat /\ feeder[f].asked <= tick /\ otxCache.at \in Nat
              /\ tick \in Nat /\ CacheTtl \in Nat
          BY <1>1, <2>3, <3>2
        <5>4. replacedAt[x.edition] + CacheTtl > feeder[f].asked
          BY <3>2, <5>1, <5>2, <5>3
        <5>5. QED
          BY <4>1, <5>4 DEF ReadSince
      <4>3. QED
        BY <4>1, <4>2 DEF ReadSince
    <3>5. QED
      BY <1>6, <2>1, <2>2, <2>6, <3>1, <3>3, <3>4 DEF got
  <2>7. CASE otxKey /\ ~Usable
    <3>1. /\ feeder' = [feeder EXCEPT ![f].phase = "fetching", ![f].asked = tick]
          /\ feed' = NoFeed
      BY <1>8, <2>7 DEF LookInCache
    <3> DEFINE goes == [feeder[f] EXCEPT !.phase = "fetching", !.asked = tick]
    <3>2. feeder' = [feeder EXCEPT ![f] = goes]
      BY <2>3, <3>1 DEF FeedInv, Request
    <3>3. /\ goes \in Request /\ goes.asked = tick /\ goes.limit = feeder[f].limit
          /\ goes.local = feeder[f].local /\ goes.synced = feeder[f].synced
          /\ goes.phase = "fetching" /\ goes.got = feeder[f].got
      BY <1>1, <2>3 DEF Request
    <3> HIDE DEF goes
    <3>4. feeder' \in [Feeders -> Request \cup {AtRest}] /\ feeder'[f] = goes
          /\ \A g \in Feeders \ {f} : feeder'[g] = feeder[g]
      BY <3>2, <3>3 DEF FeedInv
    <3>5. feeder[f].got = <<>>
      BY <2>1, <2>2, <2>3 DEF FeederInv
    <3>6. ASSUME NEW g \in Feeders PROVE FeederInv(g)'
      <4>1. CASE g = f
        <5>1. ToSet(goes.got) = {} /\ Len(goes.got) <= goes.limit
          BY <2>4, <3>3, <3>5 DEF ToSet
        <5>2. /\ Len(goes.local) <= goes.limit /\ LocalOnly(goes.local, goes.synced)
          BY <2>2, <2>3, <3>3 DEF FeederInv
        <5>3. QED
          BY <1>1, <2>1, <2>7, <3>3, <3>4, <4>1, <5>1, <5>2 DEF FeederInv
      <4>2. CASE g # f
        <5>1. feeder'[g] = feeder[g] /\ FeederInv(g)
          BY <3>4, <4>2 DEF FeedInv
        <5>2. QED
          BY <1>4, <2>1, <5>1 DEF FeederInv
      <4>3. QED
        BY <4>1, <4>2
    <3>7. FeedIsHonest'
      BY <3>1 DEF FeedIsHonest
    <3>8. QED
      BY <1>4, <2>1, <3>4, <3>6, <3>7 DEF FeedInv
  <2>8. QED
    BY <2>5, <2>6, <2>7
<1>9. ASSUME NEW f \in Feeders, FetchPage(f) PROVE FeedInv'
  <2>1. /\ feeder[f].phase = "fetching" /\ Len(feeder[f].got) < feeder[f].limit
        /\ feeder' = [feeder EXCEPT ![f].got = Append(@, From("ALIENVAULT-OTX", edition))]
        /\ feed' = NoFeed
        /\ UNCHANGED <<tick, edition, replacedAt, feedKind, otxKey, otxCache>>
    BY <1>9 DEF FetchPage
  <2>2. feeder[f] # AtRest
    BY <2>1 DEF AtRest
  <2>3. /\ feeder[f] \in Request /\ FeederInv(f) /\ feeder[f].asked \in 0..tick
    BY <1>2, <2>2
  <2> DEFINE page == From("ALIENVAULT-OTX", edition)
             more == Append(feeder[f].got, page)
             goes == [feeder[f] EXCEPT !.got = more]
  <2>4. feeder' = [feeder EXCEPT ![f] = goes]
    BY <2>1
  <2>5. /\ page = [from |-> "ALIENVAULT-OTX", edition |-> edition]
        /\ page \in Shows
    BY <1>1 DEF From, Shows
  <2>6. feeder[f].got \in Seq(Shows) /\ feeder[f].limit \in Nat
    BY <2>3 DEF Request
  <2> HIDE DEF page
  <2>7. ReadSince(page, feeder[f].asked)
    BY <1>1, <2>5 DEF ReadSince
  <2>8. /\ more \in Seq(Shows) /\ Len(more) <= feeder[f].limit
        /\ ToSet(more) \subseteq ToSet(feeder[f].got) \cup {page}
    BY <2>1, <2>5, <2>6 DEF ToSet
  <2> HIDE DEF more
  <2>9. /\ goes \in Request /\ goes.asked = feeder[f].asked /\ goes.limit = feeder[f].limit
        /\ goes.local = feeder[f].local /\ goes.synced = feeder[f].synced
        /\ goes.phase = "fetching" /\ goes.got = more
    BY <2>1, <2>3, <2>8 DEF Request
  <2> HIDE DEF goes
  <2>10. feeder' \in [Feeders -> Request \cup {AtRest}] /\ feeder'[f] = goes
        /\ \A g \in Feeders \ {f} : feeder'[g] = feeder[g]
    BY <2>4, <2>9 DEF FeedInv
  <2>11. ASSUME NEW g \in Feeders PROVE FeederInv(g)'
    <3>1. CASE g = f
      <4>1. \A x \in ToSet(more) : ReadSince(x, feeder[f].asked)'
        BY <1>4, <2>1, <2>2, <2>3, <2>8, <2>7 DEF FeederInv
      <4>2. QED
        BY <2>1, <2>2, <2>3, <2>8, <2>9, <2>10, <3>1, <4>1 DEF FeederInv
    <3>2. CASE g # f
      <4>1. feeder'[g] = feeder[g] /\ FeederInv(g)
        BY <2>10, <3>2 DEF FeedInv
      <4>2. QED
        BY <1>4, <2>1, <4>1 DEF FeederInv
    <3>3. QED
      BY <3>1, <3>2
  <2>12. FeedIsHonest'
    BY <2>1 DEF FeedIsHonest
  <2>13. QED
    BY <1>4, <2>1, <2>10, <2>11, <2>12 DEF FeedInv
<1>10. ASSUME NEW f \in Feeders, FetchEnds(f) PROVE FeedInv'
  <2> DEFINE q == feeder[f]
  <2>1. /\ q.phase = "fetching" /\ otxCache' = [at |-> q.asked, got |-> q.got]
        /\ Answer(f, q.got)
        /\ UNCHANGED <<tick, edition, replacedAt, feedKind, otxKey>>
    BY <1>10 DEF FetchEnds
  <2>2. q # AtRest
    BY <2>1 DEF AtRest
  <2>3. /\ q \in Request /\ FeederInv(f) /\ q.asked \in 0..tick
    BY <1>2, <2>2
  <2>4. q.got \in Seq(Shows)
    BY <2>3 DEF Request
  <2>5. /\ otxKey /\ Len(q.got) <= q.limit /\ \A x \in ToSet(q.got) : ReadSince(x, q.asked)
    BY <2>1, <2>2, <2>3 DEF FeederInv
  <2>6. ASSUME NEW x \in ToSet(q.got)
        PROVE  /\ x.from = "ALIENVAULT-OTX"
               /\ x.edition = edition \/ replacedAt[x.edition] + CacheTtl > q.asked
    <3>1. ReadSince(x, q.asked)
      BY <2>5
    <3>2. CASE x.edition # edition
      <4>1. x.edition \in 1..(edition - 1) /\ replacedAt[x.edition] >= q.asked
        BY <1>1, <3>1, <3>2 DEF ReadSince
      <4>2. replacedAt[x.edition] \in Nat
        BY <1>1, <4>1
      <4>3. replacedAt[x.edition] + CacheTtl > q.asked
        BY <1>1, <2>3, <4>1, <4>2, SMTT(30)
      <4>4. QED
        BY <3>1, <4>3 DEF ReadSince
    <3>3. QED
      BY <3>1, <3>2 DEF ReadSince
  <2>7. /\ FeedIsHonest' /\ feeder' \in [Feeders -> Request \cup {AtRest}]
        /\ \A g \in Feeders : FeederInv(g)'
    BY <2>1, <2>2, <2>4, <2>5, <2>6, AnswerIsHonest
  <2>8. \A x, t : ReadSince(x, t)' <=> ReadSince(x, t)
    BY <2>1 DEF ReadSince
  <2>9. ClockInv'
    BY <2>1 DEF FeedInv, ClockInv
  <2>10. otxCache'.at = q.asked /\ otxCache'.got = q.got
    BY <2>1
  <2>11. CacheInv'
    BY <2>1, <2>3, <2>4, <2>5, <2>8, <2>10 DEF CacheInv
  <2>12. QED
    BY <2>7, <2>9, <2>11 DEF FeedInv
<1>11. ASSUME NEW f \in Feeders, FetchFails(f) PROVE FeedInv'
  <2>1. /\ feeder[f].phase = "fetching" /\ Answer(f, <<>>)
        /\ UNCHANGED <<tick, edition, replacedAt, feedKind, otxKey, otxCache>>
    BY <1>11 DEF FetchFails
  <2>2. feeder[f] # AtRest
    BY <2>1 DEF AtRest
  <2>3. QED
    BY <1>6, <1>7, <2>1, <2>2
<1>12. CASE UNCHANGED feedVars
  <2>1. UNCHANGED <<tick, edition, replacedAt, feedKind, otxKey, otxCache, feeder, feed>>
    BY <1>12 DEF feedVars
  <2>2. \A f \in Feeders : FeederInv(f)'
    BY <1>4, <2>1 DEF FeedInv, FeederInv
  <2>3. FeedIsHonest'
    BY <2>1 DEF FeedInv, FeedIsHonest
  <2>4. QED
    BY <1>4, <2>1, <2>2, <2>3 DEF FeedInv
<1>13. QED
  BY <1>3, <1>5, <1>8, <1>9, <1>10, <1>11, <1>12 DEF FeedNext

\* An answer of the feed shows only what is real: what was at OTX less than the life of
\* the cache ago, however fetches overlap, and local rows only where there are some; for
\* any requests, editions, limits and life of the cache.
THEOREM FeedStaysHonest == FeedSpec => [](FeedTypeOK /\ FeedIsHonest)
<1>1. FeedInit => FeedInv
  <2> SUFFICES ASSUME FeedInit PROVE FeedInv
    OBVIOUS
  <2> USE DEF FeedInit
  <2>1. ClockInv
    BY FeedAssumption DEF ClockInv
  <2>2. CacheInv
    BY DEF CacheInv
  <2>3. feeder \in [Feeders -> Request \cup {AtRest}] /\ \A f \in Feeders : FeederInv(f)
    BY DEF FeederInv
  <2>4. FeedIsHonest
    BY DEF FeedIsHonest
  <2>5. QED
    BY <2>1, <2>2, <2>3, <2>4 DEF FeedInv
<1>2. FeedInv => FeedTypeOK /\ FeedIsHonest
  <2> SUFFICES ASSUME FeedInv PROVE FeedTypeOK
    BY DEF FeedInv
  <2>1. ClockInv /\ CacheInv /\ feeder \in [Feeders -> Request \cup {AtRest}]
    BY DEF FeedInv
  <2>2. \A f \in Feeders : feeder[f].phase \in {"idle", "read", "fetching"}
    BY <2>1 DEF Request, AtRest
  <2>3. otxCache # NotCached =>
          /\ otxCache.at \in 0..tick
          /\ \A x \in ToSet(otxCache.got) : x.edition \in 1..edition
    BY <2>1 DEF CacheInv, ReadSince
  <2>4. QED
    BY <2>1, <2>2, <2>3 DEF FeedTypeOK, ClockInv
<1>3. QED
  BY <1>1, <1>2, FeedInvStep, PTL DEF FeedSpec

-----------------------------------------------------------------------------
(* ThreatMap                                                               *)

\* What is known of some addresses.
Located ==
  UNION {[S -> [country : Countries, cachedAt : Nat]] : S \in SUBSET MapAddresses}

LEMMA LocatedFunctions ==
  /\ \A f \in Located :
        /\ DOMAIN f \subseteq MapAddresses
        /\ \A a \in DOMAIN f : f[a] \in [country : Countries, cachedAt : Nat]
  /\ \A S \in SUBSET MapAddresses :
        \A f \in [S -> [country : Countries, cachedAt : Nat]] : f \in Located
  /\ Nowhere \in Located
<1>1. ASSUME NEW S \in SUBSET MapAddresses,
             NEW f \in [S -> [country : Countries, cachedAt : Nat]]
      PROVE  f \in Located
  BY DEF Located
<1>2. ASSUME NEW f \in Located
      PROVE  /\ DOMAIN f \subseteq MapAddresses
             /\ \A a \in DOMAIN f : f[a] \in [country : Countries, cachedAt : Nat]
  <2>1. PICK S \in SUBSET MapAddresses : f \in [S -> [country : Countries, cachedAt : Nat]]
    BY DEF Located
  <2>2. QED
    BY <2>1
<1>3. Nowhere \in [{} -> [country : Countries, cachedAt : Nat]]
  BY DEF Nowhere
<1>4. QED
  BY <1>1, <1>2, <1>3

LocatingRequests ==
  [phase : {"locating", "saving"}, rows : SUBSET MapAddresses, cache : Located,
   located : Located, asked : Nat]
AnsweredMaps ==
  [phase : {"answered"}, rows : SUBSET MapAddresses, located : Located, asked : Nat]

\* What a request has located is of its rows, and was fresh when it was asked.
FreshlyLocated(m) ==
  /\ DOMAIN m.located \subseteq m.rows
  /\ \A a \in DOMAIN m.located : m.asked - m.located[a].cachedAt < GeoTtl

MapInv ==
  /\ mapTick \in 0..MaxMapTick /\ geoTorn \in BOOLEAN /\ geoCache \in Located
  /\ mapper \in [Mappers -> LocatingRequests \cup AnsweredMaps \cup {NoMapper}]
  /\ \A r \in Mappers : mapper[r].phase # "none" => FreshlyLocated(mapper[r])

LEMMA MapPhases ==
  ASSUME MapInv, NEW r \in Mappers
  PROVE  /\ mapper[r].phase \in {"none", "locating", "saving", "answered"}
         /\ mapper[r].phase \in {"locating", "saving"} => mapper[r] \in LocatingRequests
         /\ mapper[r].phase = "answered" => mapper[r] \in AnsweredMaps
<1>1. mapper[r] \in LocatingRequests \cup AnsweredMaps \cup {NoMapper}
  BY DEF MapInv
<1>2. /\ \A m \in LocatingRequests : m.phase \in {"locating", "saving"}
      /\ \A m \in AnsweredMaps : m.phase = "answered"
      /\ NoMapper.phase = "none"
  BY DEF LocatingRequests, AnsweredMaps, NoMapper
<1>3. QED
  BY <1>1, <1>2

LEMMA MapInvStep == MapInv /\ [MapNext]_mapVars => MapInv'
<1> SUFFICES ASSUME MapInv, [MapNext]_mapVars PROVE MapInv'
  OBVIOUS
<1>1. GeoTtl \in Nat \ {0} /\ MaxMapTick \in Nat /\ mapTick \in Nat
  BY ThreatMapAssumption DEF MapInv
<1>2. CASE MapTicks
  BY <1>1, <1>2 DEF MapInv, MapTicks
<1>3. ASSUME NEW r \in Mappers, NEW m,
             m \in LocatingRequests \cup AnsweredMaps, FreshlyLocated(m),
             mapper' = [mapper EXCEPT ![r] = m], mapTick' = mapTick,
             geoTorn' \in BOOLEAN, geoCache' \in Located
      PROVE  MapInv'
  BY <1>3 DEF MapInv, FreshlyLocated
<1>4. ASSUME NEW r \in Mappers, AskMap(r) PROVE MapInv'
  <2> DEFINE cache == IF geoTorn THEN Nowhere ELSE geoCache
  <2>1. cache \in Located
    BY LocatedFunctions DEF MapInv
  <2>2. PICK rows \in SUBSET MapAddresses :
          LET fresh == {a \in rows \cap DOMAIN cache : StillFresh(cache[a])}
          IN  mapper' = [mapper EXCEPT ![r] =
             IF rows = {} THEN [phase |-> "answered", rows |-> rows,
                                located |-> Nowhere, asked |-> mapTick]
             ELSE [phase |-> "locating", rows |-> rows, cache |-> cache,
                   located |-> [a \in fresh |-> cache[a]], asked |-> mapTick]]
    BY <1>4 DEF AskMap
  <2> HIDE DEF cache
  <2> DEFINE fresh == {a \in rows \cap DOMAIN cache : StillFresh(cache[a])}
             known == [a \in fresh |-> cache[a]]
             asks == [phase |-> "locating", rows |-> rows, cache |-> cache,
                      located |-> known, asked |-> mapTick]
             empty == [phase |-> "answered", rows |-> rows, located |-> Nowhere,
                       asked |-> mapTick]
  <2>3. mapTick' = mapTick /\ geoTorn' \in BOOLEAN /\ geoCache' \in Located
    BY <1>4 DEF AskMap, MapInv
  <2>4. CASE rows = {}
    <3>1. empty \in AnsweredMaps
      BY <1>1, LocatedFunctions DEF AnsweredMaps
    <3>2. FreshlyLocated(empty)
      BY DEF FreshlyLocated, Nowhere
    <3>3. mapper' = [mapper EXCEPT ![r] = empty]
      BY <2>2, <2>4
    <3> HIDE DEF empty
    <3>4. QED
      BY <1>3, <2>3, <3>1, <3>2, <3>3
  <2>5. CASE rows # {}
    <3>1. \A a \in DOMAIN cache : cache[a] \in [country : Countries, cachedAt : Nat]
      BY <2>1, LocatedFunctions
    <3>2. fresh \in SUBSET MapAddresses /\ known \in [fresh -> [country : Countries, cachedAt : Nat]]
      BY <3>1
    <3>3. known \in Located
      BY <3>2, LocatedFunctions
    <3>4. asks \in LocatingRequests
      BY <1>1, <2>1, <3>3 DEF LocatingRequests
    <3>5. FreshlyLocated(asks)
      BY DEF FreshlyLocated, StillFresh
    <3>6. mapper' = [mapper EXCEPT ![r] = asks]
      BY <2>2, <2>5
    <3> HIDE DEF asks
    <3>7. QED
      BY <1>3, <2>3, <3>4, <3>5, <3>6
  <2>6. QED
    BY <2>4, <2>5
<1>5. ASSUME NEW r \in Mappers, Locate(r) PROVE MapInv'
  <2> DEFINE m == mapper[r]
             missing == m.rows \ DOMAIN m.located
  <2>1. m \in LocatingRequests /\ FreshlyLocated(m)
    BY <1>5, MapPhases DEF Locate, MapInv
  <2>2. PICK known \in SUBSET missing : \E where \in [known -> Countries] :
          LET found == [a \in known |-> [country |-> where[a], cachedAt |-> m.asked]]
              With(f) == [a \in DOMAIN f \cup known |->
                            IF a \in known THEN found[a] ELSE f[a]]
          IN  mapper' = [mapper EXCEPT ![r] =
                [m EXCEPT !.phase = "saving", !.cache = With(m.cache),
                          !.located = With(m.located)]]
    BY <1>5 DEF Locate
  <2>3. PICK where \in [known -> Countries] :
          LET found == [a \in known |-> [country |-> where[a], cachedAt |-> m.asked]]
              With(f) == [a \in DOMAIN f \cup known |->
                            IF a \in known THEN found[a] ELSE f[a]]
          IN  mapper' = [mapper EXCEPT ![r] =
                [m EXCEPT !.phase = "saving", !.cache = With(m.cache),
                          !.located = With(m.located)]]
    BY <2>2
  <2> DEFINE found == [a \in known |-> [country |-> where[a], cachedAt |-> m.asked]]
             With(f) == [a \in DOMAIN f \cup known |->
                           IF a \in known THEN found[a] ELSE f[a]]
             next == [m EXCEPT !.phase = "saving", !.cache = With(m.cache),
                               !.located = With(m.located)]
  <2>4. /\ m.rows \in SUBSET MapAddresses /\ m.asked \in Nat
        /\ m.cache \in Located /\ m.located \in Located
    BY <2>1 DEF LocatingRequests
  <2>5. \A a \in known : found[a] \in [country : Countries, cachedAt : Nat]
                         /\ found[a].cachedAt = m.asked
    BY <2>4
  <2>6. ASSUME NEW f \in Located PROVE With(f) \in Located
    <3>1. /\ DOMAIN f \cup known \in SUBSET MapAddresses
          /\ \A a \in DOMAIN f : f[a] \in [country : Countries, cachedAt : Nat]
      BY <2>4, LocatedFunctions
    <3> HIDE DEF found
    <3>2. With(f) \in [DOMAIN f \cup known -> [country : Countries, cachedAt : Nat]]
      BY <2>5, <3>1
    <3> HIDE DEF With
    <3>3. QED
      BY <3>1, <3>2, LocatedFunctions
  <2>7. /\ DOMAIN With(m.located) = DOMAIN m.located \cup known
        /\ \A a \in known : With(m.located)[a] = found[a]
        /\ \A a \in DOMAIN m.located : a \notin known => With(m.located)[a] = m.located[a]
    OBVIOUS
  <2>8. mapper' = [mapper EXCEPT ![r] = next]
    BY <2>3
  <2>9. With(m.cache) \in Located /\ With(m.located) \in Located
    BY <2>4, <2>6
  <2> HIDE DEF With, found
  <2>10. /\ next \in LocatingRequests /\ next.rows = m.rows /\ next.asked = m.asked
        /\ next.located = With(m.located)
    BY <2>1, <2>9 DEF LocatingRequests
  <2>11. FreshlyLocated(next)
    <3>1. DOMAIN next.located \subseteq next.rows
      BY <2>1, <2>7, <2>10 DEF FreshlyLocated
    <3>2. ASSUME NEW a \in DOMAIN next.located
          PROVE  next.asked - next.located[a].cachedAt < GeoTtl
      <4>1. CASE a \in known
        BY <1>1, <2>4, <2>5, <2>7, <2>10, <4>1
      <4>2. CASE a \notin known
        BY <2>1, <2>7, <2>10, <4>2 DEF FreshlyLocated
      <4>3. QED
        BY <4>1, <4>2
    <3>3. QED
      BY <3>1, <3>2 DEF FreshlyLocated
  <2>12. mapTick' = mapTick /\ geoTorn' \in BOOLEAN /\ geoCache' \in Located
    BY <1>5 DEF Locate, MapInv
  <2> HIDE DEF next
  <2>13. QED
    BY <1>3, <2>8, <2>10, <2>11, <2>12
<1>6. ASSUME NEW r \in Mappers, SaveMap(r) PROVE MapInv'
  <2> DEFINE m == mapper[r]
             next == [phase |-> "answered", rows |-> m.rows, located |-> m.located,
                      asked |-> m.asked]
  <2>1. m \in LocatingRequests /\ FreshlyLocated(m)
    BY <1>6, MapPhases DEF SaveMap, MapInv
  <2>2. /\ next \in AnsweredMaps /\ m.cache \in Located
        /\ next.rows = m.rows /\ next.located = m.located /\ next.asked = m.asked
    BY <2>1 DEF LocatingRequests, AnsweredMaps
  <2>3. mapper' = [mapper EXCEPT ![r] = next]
    BY <1>6 DEF SaveMap
  <2>4. mapTick' = mapTick /\ geoTorn' \in BOOLEAN /\ geoCache' \in Located
    BY <1>6, <2>2 DEF SaveMap, MapInv
  <2>5. FreshlyLocated(next)
    BY <2>1, <2>2 DEF FreshlyLocated
  <2> HIDE DEF next
  <2>6. QED
    BY <1>3, <2>2, <2>3, <2>4, <2>5
<1>7. CASE UNCHANGED mapVars
  BY <1>7 DEF MapInv, mapVars, FreshlyLocated
<1>8. QED
  BY <1>2, <1>4, <1>5, <1>6, <1>7 DEF MapNext

\* The map shows addresses of a request's own rows, each located by the service no longer
\* ago than the cache may keep it, in the countries it counts them in: for any requests,
\* addresses and life of the cache, however requests overlap on the file.
THEOREM MapStaysLocated == MapSpec => [](MapTypeOK /\ PointsAreLocated)
<1>1. MapInit => MapInv
  <2> SUFFICES ASSUME MapInit PROVE MapInv
    OBVIOUS
  <2>1. NoMapper.phase = "none"
    BY DEF NoMapper
  <2>2. mapTick \in 0..MaxMapTick /\ geoTorn \in BOOLEAN /\ geoCache \in Located
    <3>1. mapTick = 0 /\ geoCache = Nowhere /\ geoTorn = FALSE
      BY DEF MapInit
    <3>2. mapTick \in 0..MaxMapTick
      BY <3>1, ThreatMapAssumption
    <3>3. geoTorn \in BOOLEAN
      BY <3>1
    <3>4. QED
      BY <3>1, <3>2, <3>3, LocatedFunctions
  <2>3. mapper = [r \in Mappers |-> NoMapper]
    BY DEF MapInit
  <2>4. QED
    BY <2>1, <2>2, <2>3 DEF MapInv
<1>2. MapInv => MapTypeOK
  <2> SUFFICES ASSUME MapInv PROVE MapTypeOK
    OBVIOUS
  <2>1. DOMAIN geoCache \subseteq MapAddresses
    BY LocatedFunctions DEF MapInv
  <2>2. QED
    BY <2>1, MapPhases DEF MapTypeOK, MapInv
<1>3. MapInv => PointsAreLocated
  <2> SUFFICES ASSUME MapInv, NEW r \in Mappers, mapper[r].phase = "answered"
               PROVE  LET m == mapper[r] IN
                      /\ DOMAIN m.located \subseteq m.rows
                      /\ \A a \in DOMAIN m.located :
                           /\ m.located[a].country \in Countries
                           /\ m.asked - m.located[a].cachedAt < GeoTtl
                      /\ \A c \in DOMAIN Points(m) :
                           c \in Countries /\ Points(m)[c] \in 1..Cardinality(m.rows)
    BY DEF PointsAreLocated
  <2> DEFINE m == mapper[r]
  <2>1. m \in AnsweredMaps /\ FreshlyLocated(m)
    BY MapPhases DEF MapInv
  <2>2. m.located \in Located /\ m.rows \in SUBSET MapAddresses
    BY <2>1 DEF AnsweredMaps
  <2>3. \A a \in DOMAIN m.located : m.located[a].country \in Countries
    BY <2>2, LocatedFunctions
  <2>4. IsFiniteSet(m.rows) /\ Cardinality(m.rows) \in Nat
    BY <2>2, ThreatMapAssumption, FS_Subset, FS_CardinalityType
  <2>5. ASSUME NEW c \in DOMAIN Points(m)
        PROVE  c \in Countries /\ Points(m)[c] \in 1..Cardinality(m.rows)
    <3> DEFINE there == {a \in DOMAIN m.located : m.located[a].country = c}
    <3>1. PICK a \in DOMAIN m.located : c = m.located[a].country
      BY DEF Points
    <3>2. Points(m)[c] = Cardinality(there)
      BY DEF Points
    <3>3. there \subseteq m.rows /\ there # {}
      BY <2>1, <3>1 DEF FreshlyLocated
    <3> HIDE DEF there
    <3>4. /\ IsFiniteSet(there) /\ Cardinality(there) \in Nat
          /\ Cardinality(there) <= Cardinality(m.rows) /\ Cardinality(there) # 0
      BY <2>4, <3>3, FS_Subset, FS_CardinalityType, FS_EmptySet
    <3>5. c \in Countries
      BY <2>3, <3>1
    <3>6. QED
      BY <2>4, <3>2, <3>4, <3>5
  <2>6. QED
    BY <2>1, <2>3, <2>5 DEF FreshlyLocated
<1>4. QED
  BY <1>1, <1>2, <1>3, MapInvStep, PTL DEF MapSpec

-----------------------------------------------------------------------------
(* ThreatSharing                                                           *)

Attempts ==
  [phase : {"posting", "recording"}, n : Nat, ioc : Indicators, tlp : Tlps,
   status : ShareStatuses]
PulseSet == [by : Nat, ioc : Indicators, tlp : Tlps, public : BOOLEAN]
RowSet == [by : Nat, ioc : Indicators, status : ShareStatuses]

\* A pulse was let out by the policy, and it is of an attempt that is being recorded
\* or is over.
PulseInv(p) ==
  /\ p.by \in 1..attempts
  /\ sharing.enabled /\ sharing.key /\ p.ioc \in WellFormed
  /\ p.tlp # "RED" /\ (p.public => p.tlp \in {"WHITE", "CLEAR"})
  /\ UnderWay(p.by) \/ Recorded(p.by) \/ p.by \in severed \/ p.ioc \in TooLong
  /\ \A s \in Sharers : attempt[s].phase # "idle" /\ attempt[s].n = p.by =>
       attempt[s].phase = "recording" /\ attempt[s].ioc = p.ioc

\* An attempt has a number of its own; it posts only what it may, and knows of a
\* success only when its pulse is there.
AttemptInv(s) ==
  attempt[s].phase # "idle" =>
    /\ attempt[s].n \in 1..attempts
    /\ \A t \in Sharers \ {s} : attempt[t].phase # "idle" => attempt[t].n # attempt[s].n
    /\ attempt[s].phase = "posting" =>
         /\ attempt[s].status = "none"
         /\ Refusal(attempt[s].ioc, attempt[s].tlp) = "none"
    /\ attempt[s].phase = "recording" =>
         /\ attempt[s].status # "none"
         /\ attempt[s].status = "success" =>
              \E p \in pulses : p.by = attempt[s].n /\ p.ioc = attempt[s].ioc

RowInv(r) ==
  /\ r.by \in 1..attempts /\ r.status # "none"
  /\ r.status = "success" => \E p \in pulses : p.by = r.by /\ p.ioc = r.ioc

SharingInv ==
  /\ attempts \in 0..MaxShares
  /\ attempt \in [Sharers -> Attempts \cup {Resting}]
  /\ pulses \subseteq PulseSet /\ trail \subseteq RowSet /\ severed \subseteq 1..attempts
  /\ \A s \in Sharers : AttemptInv(s)
  /\ \A p \in pulses : PulseInv(p)
  /\ \A r \in trail : RowInv(r)
  /\ \A o \in offered : o.shared => \E p \in pulses : p.ioc = o.ioc

LEMMA AttemptPhases ==
  ASSUME attempt \in [Sharers -> Attempts \cup {Resting}]
  PROVE  /\ Resting.phase = "idle" /\ \A a \in Attempts : a.phase \in {"posting", "recording"}
         /\ \A s \in Sharers : /\ attempt[s].phase \in {"idle", "posting", "recording"}
                               /\ attempt[s].phase # "idle" => attempt[s] \in Attempts
<1>1. Resting.phase = "idle" /\ \A a \in Attempts : a.phase \in {"posting", "recording"}
  BY DEF Resting, Attempts
<1>2. QED
  BY <1>1

\* What the policy lets out.
LEMMA NoRefusal ==
  ASSUME NEW v, NEW tlp, Refusal(v, tlp) = "none"
  PROVE  sharing.enabled /\ sharing.key /\ v \in WellFormed /\ tlp # "RED"
  BY DEF Refusal, ValidIoc, BlocksSharing

LEMMA RefusalStatus ==
  ASSUME NEW v, NEW tlp
  PROVE  Refusal(v, tlp) \in ShareStatuses \ {"success"}
  BY DEF Refusal, ShareStatuses

\* A pulse of an attempt that posts.
LEMMA NewPulse ==
  ASSUME SharingInv, NEW s \in Sharers, attempt[s].phase = "posting"
  PROVE  LET p == Pulse(attempt[s]) IN
         /\ p \in PulseSet /\ p.by = attempt[s].n /\ p.by \in 1..attempts
         /\ p.ioc = attempt[s].ioc
         /\ sharing.enabled /\ sharing.key /\ p.ioc \in WellFormed
         /\ p.tlp # "RED" /\ (p.public => p.tlp \in {"WHITE", "CLEAR"})
<1>1. attempt[s] \in Attempts /\ AttemptInv(s)
  BY AttemptPhases DEF SharingInv
<1>2. /\ attempt[s].n \in 1..attempts /\ attempt[s].n \in Nat
      /\ attempt[s].ioc \in Indicators /\ attempt[s].tlp \in Tlps
      /\ Refusal(attempt[s].ioc, attempt[s].tlp) = "none"
  BY <1>1 DEF AttemptInv, Attempts
<1>3. /\ sharing.enabled /\ sharing.key /\ attempt[s].ioc \in WellFormed
      /\ attempt[s].tlp # "RED"
  BY <1>2, NoRefusal
<1>4. AllowsPublicPulse(attempt[s].tlp) \in BOOLEAN
      /\ (AllowsPublicPulse(attempt[s].tlp) => attempt[s].tlp \in {"WHITE", "CLEAR"})
  BY DEF AllowsPublicPulse
<1>5. QED
  BY <1>2, <1>3, <1>4 DEF Pulse, PulseSet

LEMMA SharingInvStep == SharingInv /\ [SharingNext]_sharingVars => SharingInv'
<1> SUFFICES ASSUME SharingInv, [SharingNext]_sharingVars PROVE SharingInv'
  OBVIOUS
<1>1. /\ attempts \in Nat /\ MaxShares \in Nat /\ attempts <= MaxShares
      /\ WellFormed \subseteq Indicators
      /\ attempt \in [Sharers -> Attempts \cup {Resting}]
      /\ pulses \subseteq PulseSet /\ trail \subseteq RowSet /\ severed \subseteq 1..attempts
  BY SharingAssumption DEF SharingInv
<1>2. /\ Resting.phase = "idle" /\ \A a \in Attempts : a.phase \in {"posting", "recording"}
      /\ \A s \in Sharers : /\ attempt[s].phase \in {"idle", "posting", "recording"}
                            /\ attempt[s].phase # "idle" => attempt[s] \in Attempts
  BY <1>1, AttemptPhases
<1>3. sharing' = sharing
  BY DEF SharingNext, ShareIoc, OtxCreates, OtxRefuses, RecordShare, ShareFails,
         SharingStops, CutShort, OfferLocalIocs, sharingVars
<1>4. \A v, tlp : Refusal(v, tlp)' = Refusal(v, tlp)
  BY <1>3 DEF Refusal
<1>5. ASSUME NEW s \in Sharers, ShareIoc(s) PROVE SharingInv'
  <2>1. PICK v \in Indicators, tlp \in Tlps :
          attempt' = [attempt EXCEPT ![s] =
            [phase |-> IF Refusal(v, tlp) = "none" THEN "posting" ELSE "recording",
             n |-> attempts + 1, ioc |-> v, tlp |-> tlp, status |-> Refusal(v, tlp)]]
    BY <1>5 DEF ShareIoc
  <2>2. /\ attempts' = attempts + 1 /\ attempts < MaxShares /\ attempt[s].phase = "idle"
        /\ UNCHANGED <<pulses, trail, severed, offered>>
    BY <1>5 DEF ShareIoc
  <2> DEFINE a == [phase |-> IF Refusal(v, tlp) = "none" THEN "posting" ELSE "recording",
                   n |-> attempts + 1, ioc |-> v, tlp |-> tlp, status |-> Refusal(v, tlp)]
  <2>3. Refusal(v, tlp) \in ShareStatuses \ {"success"}
    BY RefusalStatus
  <2>4. /\ a \in Attempts /\ a.n = attempts + 1 /\ a.ioc = v /\ a.tlp = tlp
        /\ a.status = Refusal(v, tlp)
        /\ a.phase = "posting" => Refusal(v, tlp) = "none"
        /\ a.phase = "recording" => Refusal(v, tlp) # "none"
    BY <1>1, <2>3 DEF Attempts
  <2>5. attempt' = [attempt EXCEPT ![s] = a]
    BY <2>1
  <2> HIDE DEF a
  <2>6. /\ attempt' \in [Sharers -> Attempts \cup {Resting}] /\ attempt'[s] = a
        /\ \A t \in Sharers \ {s} : attempt'[t] = attempt[t]
    BY <1>1, <2>4, <2>5
  <2>7. 1..attempts \subseteq 1..attempts' /\ attempts + 1 \in 1..attempts'
        /\ attempts + 1 \notin 1..attempts /\ attempts' \in 0..MaxShares
    BY <1>1, <2>2
  <2>8. ASSUME NEW t \in Sharers PROVE AttemptInv(t)'
    <3>1. CASE t = s
      <4>1. \A u \in Sharers \ {s} : attempt[u].phase # "idle" => attempt[u].n # attempts + 1
        BY <2>7 DEF SharingInv, AttemptInv
      <4>2. QED
        BY <1>4, <2>3, <2>4, <2>6, <2>7, <3>1, <4>1 DEF AttemptInv
    <3>2. CASE t # s
      <4>1. attempt'[t] = attempt[t] /\ AttemptInv(t)
        BY <2>6, <3>2 DEF SharingInv
      <4>2. attempt[t].phase # "idle" => attempt[t].n # attempts + 1
        BY <2>7, <4>1 DEF AttemptInv
      <4>3. QED
        BY <1>4, <2>2, <2>4, <2>6, <2>7, <3>2, <4>1, <4>2 DEF AttemptInv
    <3>3. QED
      BY <3>1, <3>2
  <2>9. ASSUME NEW p \in pulses PROVE PulseInv(p)'
    <3>1. PulseInv(p) /\ p.by # attempts + 1
      BY <2>7 DEF SharingInv, PulseInv
    <3>2. UnderWay(p.by) => UnderWay(p.by)'
      BY <2>2, <2>6 DEF UnderWay
    <3>3. Recorded(p.by) => Recorded(p.by)'
      BY <2>2 DEF Recorded
    <3>4. \A t \in Sharers : attempt'[t].phase # "idle" /\ attempt'[t].n = p.by =>
            attempt'[t].phase = "recording" /\ attempt'[t].ioc = p.ioc
      BY <2>4, <2>6, <3>1 DEF PulseInv
    <3>5. QED
      BY <1>3, <2>2, <2>7, <3>1, <3>2, <3>3, <3>4 DEF PulseInv
  <2>10. \A r \in trail : RowInv(r)'
    BY <2>2, <2>7 DEF SharingInv, RowInv
  <2>11. QED
    BY <1>1, <2>2, <2>6, <2>7, <2>8, <2>9, <2>10 DEF SharingInv
<1>6. ASSUME NEW s \in Sharers, attempt[s].phase = "posting",
             NEW status \in {"success", "failed"}, Answered(s, status),
             UNCHANGED <<attempts, trail, severed, offered>>,
             \/ pulses' = pulses /\ status = "failed"
             \/ pulses' = pulses \cup {Pulse(attempt[s])}
      PROVE  SharingInv'
  <2> DEFINE a == [attempt[s] EXCEPT !.phase = "recording", !.status = status]
  <2>1. attempt[s] \in Attempts /\ AttemptInv(s)
    BY <1>2, <1>6 DEF SharingInv
  <2>2. /\ a \in Attempts /\ a.n = attempt[s].n /\ a.ioc = attempt[s].ioc
        /\ a.phase = "recording" /\ a.status = status
    BY <1>6, <2>1 DEF Attempts, ShareStatuses
  <2>3. attempt' = [attempt EXCEPT ![s] = a]
    BY <1>1, <1>6, <2>1 DEF Answered, Attempts
  <2> HIDE DEF a
  <2>4. /\ attempt' \in [Sharers -> Attempts \cup {Resting}] /\ attempt'[s] = a
        /\ \A t \in Sharers \ {s} : attempt'[t] = attempt[t]
    BY <1>1, <2>2, <2>3
  <2> DEFINE new == Pulse(attempt[s])
  <2>5. /\ new \in PulseSet /\ new.by = attempt[s].n /\ new.by \in 1..attempts
        /\ new.ioc = attempt[s].ioc
        /\ sharing.enabled /\ sharing.key /\ new.ioc \in WellFormed
        /\ new.tlp # "RED" /\ (new.public => new.tlp \in {"WHITE", "CLEAR"})
    BY <1>6, NewPulse
  <2>6. pulses \subseteq pulses' /\ pulses' \subseteq pulses \cup {new}
        /\ (status = "success" => new \in pulses')
    BY <1>6
  <2> HIDE DEF new
  <2>7. \A t \in Sharers \ {s} : attempt[t].phase # "idle" => attempt[t].n # attempt[s].n
    BY <1>6, <2>1 DEF AttemptInv
  <2>8. ASSUME NEW t \in Sharers PROVE AttemptInv(t)'
    <3>1. CASE t = s
      <4>1. attempt[s].n \in 1..attempts
        BY <1>6, <2>1 DEF AttemptInv
      <4>2. status = "success" => \E p \in pulses' : p.by = a.n /\ p.ioc = a.ioc
        BY <2>2, <2>5, <2>6
      <4>3. QED
        BY <1>6, <2>2, <2>4, <2>7, <3>1, <4>1, <4>2 DEF AttemptInv
    <3>2. CASE t # s
      <4>1. attempt'[t] = attempt[t] /\ AttemptInv(t)
        BY <2>4, <3>2 DEF SharingInv
      <4>2. QED
        BY <1>4, <1>6, <2>2, <2>4, <2>6, <2>7, <3>2, <4>1 DEF AttemptInv
    <3>3. QED
      BY <3>1, <3>2
  <2>9. ASSUME NEW p \in pulses PROVE PulseInv(p)'
    <3>1. PulseInv(p) /\ p.by # attempt[s].n
      BY <1>6 DEF SharingInv, PulseInv
    <3>2. UnderWay(p.by) => UnderWay(p.by)'
      BY <2>2, <2>4 DEF UnderWay
    <3>3. Recorded(p.by) => Recorded(p.by)'
      BY <1>6 DEF Recorded
    <3>4. \A t \in Sharers : attempt'[t].phase # "idle" /\ attempt'[t].n = p.by =>
            attempt'[t].phase = "recording" /\ attempt'[t].ioc = p.ioc
      BY <2>2, <2>4, <3>1 DEF PulseInv
    <3>5. QED
      BY <1>3, <1>6, <3>1, <3>2, <3>3, <3>4 DEF PulseInv
  <2>10. ASSUME NEW p, p = new PROVE PulseInv(p)'
    <3>1. UnderWay(p.by)'
      BY <2>2, <2>4, <2>5, <2>10 DEF UnderWay
    <3>2. \A t \in Sharers : attempt'[t].phase # "idle" /\ attempt'[t].n = p.by =>
            attempt'[t].phase = "recording" /\ attempt'[t].ioc = p.ioc
      BY <2>2, <2>4, <2>5, <2>7, <2>10
    <3>3. QED
      BY <1>3, <1>6, <2>5, <2>10, <3>1, <3>2 DEF PulseInv
  <2>11. \A r \in trail : RowInv(r)'
    BY <1>6, <2>6 DEF SharingInv, RowInv
  <2>12. \A o \in offered : o.shared => \E p \in pulses' : p.ioc = o.ioc
    BY <2>6 DEF SharingInv
  <2>13. \A p \in pulses' : p \in PulseSet /\ PulseInv(p)'
    BY <1>1, <2>5, <2>6, <2>9, <2>10
  <2>14. QED
    BY <1>1, <1>6, <2>4, <2>8, <2>11, <2>12, <2>13 DEF SharingInv
<1>7. ASSUME NEW s \in Sharers, OtxCreates(s) PROVE SharingInv'
  BY <1>6, <1>7 DEF OtxCreates
<1>8. ASSUME NEW s \in Sharers, OtxRefuses(s) PROVE SharingInv'
  BY <1>6, <1>8 DEF OtxRefuses
<1>9. ASSUME NEW s \in Sharers, RecordShare(s) PROVE SharingInv'
  <2>1. /\ attempt[s].phase = "recording" /\ attempt' = [attempt EXCEPT ![s] = Resting]
        /\ trail' = IF attempt[s].ioc \in TooLong THEN trail ELSE trail \cup {Row(attempt[s])}
        /\ UNCHANGED <<attempts, pulses, severed, offered>>
    BY <1>9 DEF RecordShare
  <2>2. attempt[s] \in Attempts /\ AttemptInv(s)
    BY <1>2, <2>1 DEF SharingInv
  <2>3. /\ attempt' \in [Sharers -> Attempts \cup {Resting}] /\ attempt'[s] = Resting
        /\ \A t \in Sharers \ {s} : attempt'[t] = attempt[t]
    BY <1>1, <2>1
  <2> DEFINE new == Row(attempt[s])
  <2>4. /\ new \in RowSet /\ new.by = attempt[s].n /\ new.status = attempt[s].status
        /\ new.ioc = attempt[s].ioc
    BY <2>2 DEF Row, RowSet, Attempts
  <2>5. trail \subseteq trail' /\ trail' \subseteq trail \cup {new}
        /\ (attempt[s].ioc \notin TooLong => new \in trail')
    BY <2>1
  <2> HIDE DEF new
  <2>6. ASSUME NEW t \in Sharers PROVE AttemptInv(t)'
    <3>1. CASE t = s
      BY <1>2, <2>3, <3>1 DEF AttemptInv
    <3>2. CASE t # s
      <4>1. attempt'[t] = attempt[t] /\ AttemptInv(t)
        BY <2>3, <3>2 DEF SharingInv
      <4>2. QED
        BY <1>2, <1>4, <2>1, <2>3, <4>1 DEF AttemptInv
    <3>3. QED
      BY <3>1, <3>2
  <2>7. ASSUME NEW p \in pulses PROVE PulseInv(p)'
    <3>1. PulseInv(p)
      BY DEF SharingInv
    <3>2. Recorded(p.by) => Recorded(p.by)'
      BY <2>5 DEF Recorded
    <3>3. UnderWay(p.by) => UnderWay(p.by)' \/ Recorded(p.by)' \/ p.ioc \in TooLong
      <4>1. CASE attempt[s].n = p.by
        BY <2>1, <2>4, <2>5, <3>1, <4>1 DEF Recorded, PulseInv
      <4>2. CASE attempt[s].n # p.by
        BY <2>3, <4>2 DEF UnderWay
      <4>3. QED
        BY <4>1, <4>2
    <3>4. \A t \in Sharers : attempt'[t].phase # "idle" /\ attempt'[t].n = p.by =>
            attempt'[t].phase = "recording" /\ attempt'[t].ioc = p.ioc
      BY <1>2, <2>3, <3>1 DEF PulseInv
    <3>5. QED
      BY <1>3, <2>1, <3>1, <3>2, <3>3, <3>4 DEF PulseInv
  <2>8. ASSUME NEW r, r = new PROVE RowInv(r)'
    BY <2>1, <2>2, <2>4, <2>8 DEF RowInv, AttemptInv
  <2>9. \A r \in trail : RowInv(r)'
    BY <2>1 DEF SharingInv, RowInv
  <2>10. \A r \in trail' : r \in RowSet /\ RowInv(r)'
    BY <1>1, <2>4, <2>5, <2>8, <2>9
  <2>11. QED
    BY <1>1, <2>1, <2>3, <2>6, <2>7, <2>10 DEF SharingInv
<1>10. ASSUME NEW R \in SUBSET Busy, CutShort(R) PROVE SharingInv'
  <2>1. /\ attempt' = [s \in Sharers |-> IF s \in R THEN Resting ELSE attempt[s]]
        /\ severed' = severed \cup {attempt[s].n : s \in R}
        /\ UNCHANGED <<attempts, trail, offered>>
    BY <1>10 DEF CutShort
  <2>2. PICK S \in SUBSET {s \in R : attempt[s].phase = "posting"} :
          pulses' = pulses \cup {Pulse(attempt[s]) : s \in S}
    BY <1>10 DEF CutShort
  <2>3. /\ attempt' \in [Sharers -> Attempts \cup {Resting}]
        /\ \A s \in Sharers : attempt'[s].phase # "idle" => s \notin R /\ attempt'[s] = attempt[s]
        /\ \A s \in Sharers \ R : attempt'[s] = attempt[s]
    BY <1>1, <1>2, <2>1
  <2>4. R \subseteq Sharers /\ \A s \in R : attempt[s].phase # "idle" /\ attempt[s].n \in severed'
    BY <1>10, <2>1 DEF Busy
  <2>5. severed' \subseteq 1..attempts /\ severed \subseteq severed'
    BY <1>1, <2>1, <2>4 DEF SharingInv, AttemptInv
  <2>6. pulses \subseteq pulses'
    BY <2>2
  <2>7. ASSUME NEW s \in Sharers PROVE AttemptInv(s)'
    <3>1. CASE s \in R
      BY <2>3, <3>1 DEF AttemptInv
    <3>2. CASE s \notin R
      <4>1. attempt'[s] = attempt[s] /\ AttemptInv(s)
        BY <2>3, <3>2 DEF SharingInv
      <4>2. QED
        BY <1>4, <2>1, <2>3, <2>6, <4>1 DEF AttemptInv
    <3>3. QED
      BY <3>1, <3>2
  <2>8. ASSUME NEW p \in pulses PROVE PulseInv(p)'
    <3>1. PulseInv(p)
      BY DEF SharingInv
    <3>2. UnderWay(p.by) => UnderWay(p.by)' \/ p.by \in severed'
      BY <2>3, <2>4 DEF UnderWay
    <3>3. Recorded(p.by) => Recorded(p.by)'
      BY <2>1 DEF Recorded
    <3>4. QED
      BY <1>3, <2>1, <2>3, <2>5, <3>1, <3>2, <3>3 DEF PulseInv
  <2>9. ASSUME NEW s \in S, NEW p, p = Pulse(attempt[s])
        PROVE  PulseInv(p)' /\ p \in PulseSet
    <3>1. /\ p \in PulseSet /\ p.by = attempt[s].n /\ p.by \in 1..attempts
          /\ sharing.enabled /\ sharing.key /\ p.ioc \in WellFormed
          /\ p.tlp # "RED" /\ (p.public => p.tlp \in {"WHITE", "CLEAR"})
      BY <2>4, <2>9, NewPulse
    <3>2. s \in R /\ s \in Sharers /\ attempt[s].phase # "idle" /\ p.by \in severed'
      BY <2>4, <3>1
    <3>3. AttemptInv(s)
      BY <3>2 DEF SharingInv
    <3>4. \A t \in Sharers : attempt'[t].phase # "idle" => attempt'[t].n # p.by
      BY <2>3, <3>1, <3>2, <3>3 DEF AttemptInv
    <3>5. PulseInv(p)'
      BY <1>3, <2>1, <3>1, <3>2, <3>4 DEF PulseInv
    <3>6. QED
      BY <3>1, <3>5
  <2>10. pulses' \subseteq PulseSet /\ \A p \in pulses' : PulseInv(p)'
    BY <1>1, <2>2, <2>8, <2>9
  <2>11. \A r \in trail : RowInv(r)'
    BY <2>1, <2>6 DEF SharingInv, RowInv
  <2>12. \A o \in offered : o.shared => \E p \in pulses' : p.ioc = o.ioc
    BY <2>6 DEF SharingInv
  <2>13. QED
    BY <1>1, <2>1, <2>3, <2>5, <2>7, <2>10, <2>11, <2>12 DEF SharingInv
<1>11. ASSUME UNCHANGED <<attempt, attempts, pulses, trail, severed>>,
              \A o \in offered' : o.shared => \E p \in pulses : p.ioc = o.ioc
       PROVE  SharingInv'
  <2>1. \A s \in Sharers : AttemptInv(s)'
    BY <1>4, <1>11 DEF SharingInv, AttemptInv
  <2>2. \A p \in pulses : PulseInv(p)'
    BY <1>3, <1>11 DEF SharingInv, PulseInv, UnderWay, Recorded
  <2>3. \A r \in trail : RowInv(r)'
    BY <1>11 DEF SharingInv, RowInv
  <2>4. QED
    BY <1>11, <2>1, <2>2, <2>3 DEF SharingInv
<1>12. CASE OfferLocalIocs
  <2>1. PICK fetched \in BOOLEAN :
          offered' = {[ioc |-> v, shared |-> v \in AlreadyShared] : v \in LocalIocs(fetched)}
    BY <1>12 DEF OfferLocalIocs
  <2>2. UNCHANGED <<attempt, attempts, pulses, trail, severed>>
    BY <1>12 DEF OfferLocalIocs
  <2>3. \A v \in AlreadyShared : \E p \in pulses : p.ioc = v
    BY DEF AlreadyShared, SharingInv, RowInv
  <2>4. ASSUME NEW o \in offered', o.shared PROVE \E p \in pulses : p.ioc = o.ioc
    <3>1. PICK v \in LocalIocs(fetched) : o = [ioc |-> v, shared |-> v \in AlreadyShared]
      BY <2>1
    <3>2. o.ioc = v /\ v \in AlreadyShared
      BY <2>4, <3>1
    <3>3. QED
      BY <2>3, <3>2
  <2>5. QED
    BY <1>11, <2>2, <2>4
<1>13. CASE UNCHANGED sharingVars
  BY <1>11, <1>13 DEF sharingVars, SharingInv
<1>14. QED
  BY <1>5, <1>7, <1>8, <1>9, <1>10, <1>12, <1>13 DEF SharingNext, ShareFails, SharingStops

\* Only what the policy lets out leaves the installation, and the audit trail is true of
\* it: for any requests, indicators and policies, whatever OTX answers, whichever answer is
\* lost, and wherever a worker stops.
THEOREM AuditStaysTruthful == SharingSpec => [](SharingTypeOK /\ AuditIsTruthful)
<1>1. SharingInit => SharingInv
  <2> SUFFICES ASSUME SharingInit PROVE SharingInv
    OBVIOUS
  <2>1. Resting.phase = "idle"
    BY DEF Resting
  <2>2. /\ attempts = 0 /\ attempt = [s \in Sharers |-> Resting]
        /\ pulses = {} /\ trail = {} /\ severed = {} /\ offered = {}
    BY DEF SharingInit
  <2>3. \A s \in Sharers : AttemptInv(s)
    BY <2>1, <2>2 DEF AttemptInv
  <2>4. QED
    BY <2>2, <2>3, SharingAssumption DEF SharingInv
<1>2. SharingInv => SharingTypeOK
  <2> SUFFICES ASSUME SharingInv PROVE SharingTypeOK
    OBVIOUS
  <2>1. /\ \A s \in Sharers : attempt[s].phase \in {"idle", "posting", "recording"}
        /\ \A s \in Sharers : attempt[s].phase = "posting" => attempt[s].status = "none"
    BY AttemptPhases DEF SharingInv, AttemptInv
  <2>2. \A p \in pulses : p.by \in 1..attempts /\ p.ioc \in Indicators /\ p.tlp \in Tlps
    BY DEF SharingInv, PulseInv, PulseSet
  <2>3. \A r \in trail : r.by \in 1..attempts /\ r.status \in ShareStatuses \ {"none"}
    BY DEF SharingInv, RowInv, RowSet
  <2>4. QED
    BY <2>1, <2>2, <2>3 DEF SharingTypeOK, SharingInv
<1>3. SharingInv => AuditIsTruthful
  <2> SUFFICES ASSUME SharingInv PROVE AuditIsTruthful
    OBVIOUS
  <2>1. /\ \A p \in pulses : PulseInv(p) /\ \A r \in trail : RowInv(r)
        /\ \A o \in offered : o.shared => \E p \in pulses : p.ioc = o.ioc
    BY DEF SharingInv
  <2>2. \A r \in trail : r.status = "success" => \E p \in pulses : p.by = r.by
    BY DEF SharingInv, RowInv
  <2>3. \A p \in pulses :
       /\ sharing.enabled /\ sharing.key /\ p.ioc \in WellFormed
       /\ p.tlp # "RED" /\ (p.public => p.tlp \in {"WHITE", "CLEAR"})
       /\ UnderWay(p.by) \/ Recorded(p.by) \/ p.by \in severed \/ p.ioc \in TooLong
    BY DEF SharingInv, PulseInv
  <2>4. QED
    BY <2>2, <2>3 DEF AuditIsTruthful, SharingInv
<1>4. QED
  BY <1>1, <1>2, <1>3, SharingInvStep, PTL DEF SharingSpec

-----------------------------------------------------------------------------
(* IocCorrelation                                                          *)

\* A set of numbers has a least one: the order of the numbers is well founded.
LEMMA LeastOf ==
  ASSUME NEW T, T \subseteq Nat, T # {}
  PROVE  \E x \in T : \A y \in T : x <= y
<1> DEFINE R == OpToRel(<, Nat)
<1>1. IsWellFoundedOn(R, Nat)
  BY NatLessThanWellFounded
<1>2. \A x, y \in Nat : y < x => <<y, x>> \in R
  BY DEF OpToRel
<1> HIDE DEF R
<1>3. PICK x \in T : \A y \in T : ~ (<<y, x>> \in R)
  BY <1>1, WFMin
<1>4. \A y \in T : ~ (y < x)
  BY <1>2, <1>3, Zenon
<1>5. \A y \in T : x <= y
  BY <1>4
<1>6. QED
  BY <1>5

\* Induction up to a number, over the set of the numbers a fact holds of: the
\* least number outside of it would be no successor of one inside.
LEMMA UpTo ==
  ASSUME NEW n \in Nat, NEW T, 0 \in T, \A k \in 1..n : k - 1 \in T => k \in T
  PROVE  0..n \subseteq T
<1> DEFINE Out == {k \in 0..n : k \notin T}
<1>1. ASSUME Out # {} PROVE FALSE
  <2>0. Out \subseteq Nat
    OBVIOUS
  <2> HIDE DEF Out
  <2>1. PICK m \in Out : \A k \in Out : m <= k
    BY <1>1, <2>0, LeastOf
  <2>2. m \in 0..n /\ m \notin T /\ m # 0
    BY <2>1 DEF Out
  <2>3. m \in 1..n /\ m - 1 \in 0..n /\ ~ (m <= m - 1)
    BY <2>2
  <2>4. m - 1 \in T
    BY <2>1, <2>3 DEF Out
  <2>5. QED
    BY <2>2, <2>3, <2>4
<1>2. QED
  BY <1>1

\* The recursion that defines a sum has a solution.
LEMMA SumExists ==
  ASSUME NEW n \in Nat, NEW v \in [1..n -> Nat]
  PROVE  \E s : s = [k \in 0..n |-> IF k = 0 THEN 0 ELSE s[k - 1] + v[k]]
<1> DEFINE Good(m) == \E s : s = [k \in 0..m |-> IF k = 0 THEN 0 ELSE s[k - 1] + v[k]]
           T == {m \in 0..n : Good(m)}
<1>1. Good(0)
  <2>1. [k \in 0..0 |-> 0] = [k \in 0..0 |-> IF k = 0 THEN 0 ELSE [j \in 0..0 |-> 0][k - 1] + v[k]]
    OBVIOUS
  <2>2. QED
    BY <2>1
<1>2. ASSUME NEW m \in 1..n, Good(m - 1) PROVE Good(m)
  <2>3. PICK s : s = [k \in 0..(m - 1) |-> IF k = 0 THEN 0 ELSE s[k - 1] + v[k]]
    BY <1>2
  <2> DEFINE t == [k \in 0..m |-> IF k = m THEN s[m - 1] + v[m] ELSE s[k]]
  <2>4. \A k \in 0..m : t[k] = IF k = 0 THEN 0 ELSE t[k - 1] + v[k]
    BY <2>3
  <2>5. t = [k \in 0..m |-> IF k = 0 THEN 0 ELSE t[k - 1] + v[k]]
    BY <2>4
  <2> HIDE DEF t
  <2>6. QED
    BY <2>5
<1> HIDE DEF Good
<1>3. 0 \in T /\ \A k \in 1..n : k - 1 \in T => k \in T
  BY <1>1, <1>2
<1>4. 0..n \subseteq T
  <2> HIDE DEF T
  <2>1. QED
    BY <1>3, UpTo
<1>5. Good(n)
  BY <1>4
<1>6. QED
  BY <1>5 DEF Good

\* A total is the last of its partial sums.
LEMMA TotalByPart ==
  ASSUME NEW n \in Nat, NEW v \in [1..n -> Nat]
  PROVE  \E s : /\ Total(v) = s[n] /\ s[0] = 0
                /\ \A k \in 1..n : s[k] = s[k - 1] + v[k]
<1>1. Len(v) = n
  OBVIOUS
<1> DEFINE sum == CHOOSE s : s = [k \in 0..n |-> IF k = 0 THEN 0 ELSE s[k - 1] + v[k]]
<1>2. sum = [k \in 0..n |-> IF k = 0 THEN 0 ELSE sum[k - 1] + v[k]]
  BY SumExists
<1>3. Total(v) = sum[n]
  BY <1>1 DEF Total
<1> HIDE DEF sum
<1>4. sum[0] = 0 /\ \A k \in 1..n : sum[k] = sum[k - 1] + v[k]
  BY <1>2
<1>5. QED
  BY <1>3, <1>4

\* A total is a number no smaller than each of its terms.
LEMMA TotalIsNat ==
  ASSUME NEW n \in Nat, NEW v \in [1..n -> Nat]
  PROVE  /\ Total(v) \in Nat
         /\ \A k \in 1..n : v[k] <= Total(v)
<1>1. PICK s : /\ Total(v) = s[n] /\ s[0] = 0
               /\ \A k \in 1..n : s[k] = s[k - 1] + v[k]
  BY TotalByPart
<1> DEFINE T == {k \in 0..n : s[k] \in Nat /\ \A j \in 1..k : v[j] <= s[k]}
<1>2. 0 \in T
  BY <1>1
<1>3. ASSUME NEW k \in 1..n, k - 1 \in T PROVE k \in T
  <2>1. /\ s[k] = s[k - 1] + v[k] /\ s[k - 1] \in Nat /\ v[k] \in Nat
        /\ \A j \in 1..(k - 1) : v[j] <= s[k - 1]
    BY <1>1, <1>3
  <2>2. ASSUME NEW j \in 1..k PROVE v[j] <= s[k]
    <3>1. v[j] \in Nat /\ (j = k \/ j \in 1..(k - 1))
      OBVIOUS
    <3>2. QED
      BY <2>1, <3>1
  <2>3. QED
    BY <2>1, <2>2
<1>4. 0..n \subseteq T
  <2> HIDE DEF T
  <2>1. QED
    BY <1>2, <1>3, UpTo
<1>5. n \in T
  BY <1>4
<1>6. QED
  BY <1>1, <1>5

\* What one more term adds to both sides.
LEMMA OneMoreTerm ==
  ASSUME NEW m \in Nat, NEW t \in Nat, NEW w \in Nat, NEW s \in Nat, NEW v \in Nat,
         m * w <= v, m * t <= s
  PROVE  m * (t + w) <= s + v
<1>1. m * (t + w) = m * t + m * w
  OBVIOUS
<1>2. \A a \in Nat : m * a \in Nat
  OBVIOUS
<1>3. PICK p, q : p = m * t /\ q = m * w
  OBVIOUS
<1>4. p \in Nat /\ q \in Nat /\ p <= s /\ q <= v
  BY <1>2, <1>3
<1>5. p + q <= s + v
  BY <1>4
<1>6. QED
  BY <1>1, <1>3, <1>5

\* A weighted sum is no less than its least score times the sum of the weights.
LEMMA WeightedIsAbove ==
  ASSUME NEW n \in Nat, NEW v \in [1..n -> Nat], NEW w \in [1..n -> Nat], NEW m \in Nat,
         \A k \in 1..n : m * w[k] <= v[k]
  PROVE  m * Total(w) <= Total(v)
<1>1. PICK s : /\ Total(v) = s[n] /\ s[0] = 0
               /\ \A k \in 1..n : s[k] = s[k - 1] + v[k]
  BY TotalByPart
<1>2. PICK t : /\ Total(w) = t[n] /\ t[0] = 0
               /\ \A k \in 1..n : t[k] = t[k - 1] + w[k]
  BY TotalByPart
<1> DEFINE T == {k \in 0..n : s[k] \in Nat /\ t[k] \in Nat /\ m * t[k] <= s[k]}
<1>3. ASSUME NEW k \in 1..n, k - 1 \in T PROVE k \in T
  <2>1. /\ s[k - 1] \in Nat /\ t[k - 1] \in Nat /\ m * t[k - 1] <= s[k - 1]
        /\ w[k] \in Nat /\ v[k] \in Nat /\ m * w[k] <= v[k]
    BY <1>3
  <2>2. m * (t[k - 1] + w[k]) <= s[k - 1] + v[k]
    BY <2>1, OneMoreTerm
  <2>3. s[k - 1] + v[k] \in Nat /\ t[k - 1] + w[k] \in Nat
    <3>1. \A a, b \in Nat : a + b \in Nat
      OBVIOUS
    <3>2. QED
      BY <2>1, <3>1
  <2>4. s[k] = s[k - 1] + v[k] /\ t[k] = t[k - 1] + w[k]
    BY <1>1, <1>2
  <2>5. s[k] \in Nat /\ t[k] \in Nat /\ m * t[k] <= s[k]
    BY <2>2, <2>3, <2>4, ZenonT(30)
  <2>6. k \in 0..n
    OBVIOUS
  <2>7. QED
    BY <2>5, <2>6, ZenonT(30)
<1>4. 0 \in T
  BY <1>1, <1>2
<1>5. 0..n \subseteq T
  <2> HIDE DEF T
  <2>1. QED
    BY <1>3, <1>4, UpTo
<1>6. n \in T
  BY <1>5
<1>7. QED
  BY <1>1, <1>2, <1>6

\* What a quotient is no less than.
LEMMA Quotient ==
  ASSUME NEW a \in Nat, NEW b \in Nat, b > 0, NEW m \in Nat, m * b <= a
  PROVE  a \div b \in Nat /\ m <= a \div b
  OBVIOUS

\* Two answers that differ in names nobody verified.
Alike(a, b) ==
  /\ DOMAIN a = DOMAIN b
  /\ \A k \in DOMAIN a :
       /\ a[k].id = b[k].id /\ a[k].type = b[k].type /\ a[k].malware = b[k].malware
       /\ a[k].score = b[k].score /\ a[k].source = b[k].source /\ a[k].net = b[k].net
       /\ VerifiedAdversary(a[k]) = VerifiedAdversary(b[k])

LEMMA ErasedIsAlike ==
  ASSUME NEW iocs \in Feeds
  PROVE  Alike(iocs, Erased(iocs))
<1> DEFINE b == Erased(iocs)
<1>1. DOMAIN b = DOMAIN iocs
  BY DEF Erased
<1>2. ASSUME NEW k \in DOMAIN iocs
      PROVE  /\ iocs[k].id = b[k].id /\ iocs[k].type = b[k].type
             /\ iocs[k].malware = b[k].malware /\ iocs[k].score = b[k].score
             /\ iocs[k].source = b[k].source /\ iocs[k].net = b[k].net
             /\ VerifiedAdversary(iocs[k]) = VerifiedAdversary(b[k])
  <2>1. DOMAIN iocs[k] = Fields
    BY CorrelationAssumption
  <2>2. CASE iocs[k].adversary \in Actors
    BY <2>2 DEF Erased
  <2>3. CASE iocs[k].adversary \notin Actors
    <3>1. b[k] = [iocs[k] EXCEPT !.adversary = NoActor]
      BY <2>3 DEF Erased
    <3>2. /\ b[k].adversary = NoActor /\ b[k].id = iocs[k].id /\ b[k].type = iocs[k].type
          /\ b[k].malware = iocs[k].malware /\ b[k].score = iocs[k].score
          /\ b[k].source = iocs[k].source /\ b[k].net = iocs[k].net
      BY <2>1, <3>1 DEF Fields
    <3>3. QED
      BY <2>3, <3>2, CorrelationAssumption DEF VerifiedAdversary
  <2>4. QED
    BY <2>2, <2>3
<1>3. QED
  BY <1>1, <1>2 DEF Alike

LEMMA ClusterOfAlike ==
  ASSUME NEW a, NEW b, Alike(a, b), NEW at, at \subseteq DOMAIN a,
         NEW strategy, NEW name, NEW adversary
  PROVE  Cluster(strategy, name, a, at, adversary) = Cluster(strategy, name, b, at, adversary)
<1>1. TypesOf(a, at) = TypesOf(b, at) /\ SourcesOf(a, at) = SourcesOf(b, at)
  BY DEF Alike, TypesOf, SourcesOf
<1>2. AddressesOf(a, at) = AddressesOf(b, at)
  BY DEF Alike, AddressesOf
<1>3. ActorsIn(a, at) = ActorsIn(b, at)
  BY DEF Alike, ActorsIn
<1>4. ClusterScore(a, at, adversary) = ClusterScore(b, at, adversary)
  <2> DEFINE weight(x) == [k \in DOMAIN x |-> IF k \in at THEN WeightOf(x[k].type) ELSE 0]
             weighted(x) == [k \in DOMAIN x |-> x[k].score * weight(x)[k]]
  <2>1. weight(a) = weight(b)
    BY DEF Alike
  <2>2. weighted(a) = weighted(b)
    BY <2>1 DEF Alike
  <2> DEFINE actor == IF adversary = NoActor THEN 0
                      ELSE IF adversary \in HighRisk THEN 8000 ELSE 4000
             score(w, v, types) ==
               AtMost(100000,
                 (1000 * Total(v)) \div Total(w)
                 + AtMost(10000, 3000 * (Cardinality(types) - 1))
                 + actor + AtMost(8000, 1500 * (Cardinality(at) - 1)))
  <2>3. \A x : ClusterScore(x, at, adversary) = score(weight(x), weighted(x), TypesOf(x, at))
    BY DEF ClusterScore
  <2> HIDE DEF score, weight, weighted
  <2>4. QED
    BY <1>1, <2>1, <2>2, <2>3
<1>5. Relations(a, at) = Relations(b, at)
  <2> DEFINE pairs(x) == {p \in at \X at : p[1] < p[2] /\ x[p[1]].type # x[p[2]].type}
             Before(p, q) == p[1] < q[1] \/ (p[1] = q[1] /\ p[2] < q[2])
             kept(x) == {p \in pairs(x) :
                           Cardinality({q \in pairs(x) : Before(q, p)}) < MaxRelations}
             link(x, p) == [source |-> x[p[1]].id, target |-> x[p[2]].id,
                            relation |-> RelationLabel(x[p[1]].type, x[p[2]].type)]
  <2>1. \A p \in at \X at : /\ a[p[1]].type = b[p[1]].type /\ a[p[2]].type = b[p[2]].type
                            /\ a[p[1]].id = b[p[1]].id /\ a[p[2]].id = b[p[2]].id
    BY DEF Alike
  <2>2. pairs(a) = pairs(b)
    BY <2>1
  <2>3. kept(a) = kept(b)
    BY <2>2, Zenon
  <2>4. \A p \in kept(a) : link(a, p) = link(b, p)
    BY <2>1, Zenon
  <2>5. {link(a, p) : p \in kept(a)} = {link(b, p) : p \in kept(b)}
    <3> HIDE DEF kept, link
    <3>1. QED
      BY <2>3, <2>4
  <2>6. QED
    BY <2>5, Zenon DEF Relations
<1>6. PatternsOf(a, at) = PatternsOf(b, at)
  BY <1>1, <1>2, <1>3, Zenon DEF PatternsOf
<1>7. QED
  BY <1>4, <1>5, <1>6, Zenon DEF Cluster

LEMMA ClustersOfAlike ==
  ASSUME NEW a, NEW b, Alike(a, b), NEW o
  PROVE  Clusters(a, o) = Clusters(b, o)
<1> DEFINE Of(x, strategy, name, at) ==
             Cluster(strategy, name, x, at, FirstActor(x, at, o))
           nets(x) == {x[k].net : k \in AddressesOf(x, DOMAIN x)} \ {NoNet}
<1>1. \A m : OfFamily(a, m) = OfFamily(b, m)
  BY DEF Alike, OfFamily
<1>2. \A m : OfActor(a, m) = OfActor(b, m)
  BY DEF Alike, OfActor
<1>3. \A m : OfNet(a, m) = OfNet(b, m)
  BY DEF Alike, OfNet
<1>4. ActorsIn(a, DOMAIN a) = ActorsIn(b, DOMAIN b)
  BY DEF Alike, ActorsIn
<1>5. nets(a) = nets(b)
  BY DEF Alike, AddressesOf
<1>6. {a[k].malware : k \in DOMAIN a} = {b[k].malware : k \in DOMAIN b}
  BY DEF Alike
<1>7. ASSUME NEW at, at \subseteq DOMAIN a, NEW strategy, NEW name
      PROVE  Of(a, strategy, name, at) = Of(b, strategy, name, at)
  <2>1. ActorsIn(a, at) = ActorsIn(b, at)
    BY <1>7 DEF Alike, ActorsIn
  <2>2. FirstActor(a, at, o) = FirstActor(b, at, o)
    <3> DEFINE Earliest(S) ==
                 LET named == {k \in DOMAIN o : o[k] \in S}
                 IN  IF named = {} THEN NoActor
                     ELSE o[CHOOSE k \in named : \A j \in named : k <= j]
    <3>1. \A x : FirstActor(x, at, o) = Earliest(ActorsIn(x, at))
      BY DEF FirstActor
    <3> HIDE DEF Earliest
    <3>2. QED
      BY <2>1, <3>1
  <2>3. QED
    BY <1>7, <2>2, ClusterOfAlike
<1>8. \A m : /\ OfFamily(a, m) \subseteq DOMAIN a /\ OfActor(a, m) \subseteq DOMAIN a
             /\ OfNet(a, m) \subseteq DOMAIN a
  BY DEF OfFamily, OfActor, OfNet
<1>9. /\ \A m : Of(a, "malware_family", m, OfFamily(a, m))
                  = Of(b, "malware_family", m, OfFamily(b, m))
      /\ \A n : Of(a, "network_infrastructure", n, OfNet(a, n))
                  = Of(b, "network_infrastructure", n, OfNet(b, n))
      /\ \A m : Cluster("adversary", m, a, OfActor(a, m), m)
                  = Cluster("adversary", m, b, OfActor(b, m), m)
  <2>1. \A m : Of(a, "malware_family", m, OfFamily(a, m))
                 = Of(b, "malware_family", m, OfFamily(b, m))
    <3> HIDE DEF Of
    <3>1. QED
      BY <1>1, <1>7, <1>8
  <2>2. \A n : Of(a, "network_infrastructure", n, OfNet(a, n))
                 = Of(b, "network_infrastructure", n, OfNet(b, n))
    <3> HIDE DEF Of
    <3>1. QED
      BY <1>3, <1>7, <1>8
  <2>3. \A m : Cluster("adversary", m, a, OfActor(a, m), m)
                 = Cluster("adversary", m, b, OfActor(b, m), m)
    BY <1>2, <1>8, ClusterOfAlike
  <2>4. QED
    BY <2>1, <2>2, <2>3
<1>10. QED
  <2> DEFINE Several(at) == Cardinality(at) >= 2
             families(x) == {Of(x, "malware_family", m, OfFamily(x, m)) :
                               m \in {x[k].malware : k \in DOMAIN x}}
             actors(x) == {Cluster("adversary", m, x, OfActor(x, m), m) :
                             m \in {n \in ActorsIn(x, DOMAIN x) : Several(OfActor(x, n))}}
             shared(x) == {Of(x, "network_infrastructure", n, OfNet(x, n)) :
                             n \in {m \in nets(x) : Several(OfNet(x, m))}}
  <2>1. families(a) = families(b)
    <3> HIDE DEF Of
    <3>1. QED
      BY <1>6, <1>9
  <2>2. actors(a) = actors(b)
    BY <1>2, <1>4, <1>9
  <2>3. shared(a) = shared(b)
    <3> HIDE DEF Of, nets
    <3>1. QED
      BY <1>3, <1>5, <1>9
  <2>4. \A x : Clusters(x, o) = families(x) \cup actors(x) \cup shared(x)
    BY Zenon DEF Clusters
  <2> HIDE DEF families, actors, shared
  <2>5. QED
    BY <2>1, <2>2, <2>3, <2>4

LEMMA WeightsArePositive == \A type : WeightOf(type) \in Nat /\ WeightOf(type) > 0
<1>1. DOMAIN Weights = {"hash_sha256", "hash_sha512", "hash_sha1", "hash_md5", "cve", "ip",
                        "domain", "url", "cidr", "mutex", "yara", "email", "filepath"}
  BY DEF Weights
<1>2. \A type \in DOMAIN Weights : Weights[type] \in Nat /\ Weights[type] > 0
  BY <1>1 DEF Weights
<1>3. QED
  BY <1>2 DEF WeightOf

LEMMA ProductOrder ==
  ASSUME NEW a \in Nat, NEW b \in Nat, a <= b, NEW c \in Nat
  PROVE  a * c \in Nat /\ b * c \in Nat /\ a * c <= b * c
<1>1. PICK d \in Nat : b = a + d
  BY b - a \in Nat /\ b = a + (b - a)
<1>2. b * c = a * c + d * c
  BY <1>1
<1>3. a * c \in Nat /\ d * c \in Nat
  <2>1. \A x, y \in Nat : x * y \in Nat
    OBVIOUS
  <2>2. QED
    BY <1>1, <2>1
<1>4. PICK p, q : p = a * c /\ q = d * c
  OBVIOUS
<1>5. p + q \in Nat /\ p <= p + q
  BY <1>3, <1>4
<1>6. QED
  BY <1>2, <1>3, <1>4, <1>5

LEMMA ScoresOfFeeds ==
  ASSUME NEW iocs \in Feeds, NEW k \in DOMAIN iocs
  PROVE  iocs[k].score \in Nat /\ iocs[k].score <= 100
<1>1. iocs[k].score \in 0..100
  BY CorrelationAssumption, Zenon
<1>2. QED
  BY <1>1

\* The positions of a cluster: there is one, and a member of the lowest score.
LEMMA LowestMember ==
  ASSUME NEW iocs \in Feeds, NEW at, at \subseteq DOMAIN iocs, at # {}
  PROVE  \E m \in at : \A k \in at : iocs[m].score <= iocs[k].score
<1> DEFINE T == {iocs[k].score : k \in at}
<1>1. T \subseteq Nat /\ T # {}
  BY ScoresOfFeeds
<1>2. PICK x \in T : \A y \in T : x <= y
  <2> HIDE DEF T
  <2>1. QED
    BY <1>1, LeastOf
<1>3. QED
  BY <1>2

\* A cluster scores no more than a hundred points, and no less than its lowest member.
LEMMA ScoreIsBetween ==
  ASSUME NEW iocs \in Feeds, NEW at, at \subseteq DOMAIN iocs, at # {}, NEW adversary
  PROVE  /\ ClusterScore(iocs, at, adversary) <= 100000
         /\ \E m \in at : 1000 * iocs[m].score <= ClusterScore(iocs, at, adversary)
<1> DEFINE weight == [k \in DOMAIN iocs |-> IF k \in at THEN WeightOf(iocs[k].type) ELSE 0]
           weighted == [k \in DOMAIN iocs |-> iocs[k].score * weight[k]]
           actor == IF adversary = NoActor THEN 0
                    ELSE IF adversary \in HighRisk THEN 8000 ELSE 4000
           mean == (1000 * Total(weighted)) \div Total(weight)
           diverse == AtMost(10000, 3000 * (Cardinality(TypesOf(iocs, at)) - 1))
           large == AtMost(8000, 1500 * (Cardinality(at) - 1))
<1> DEFINE n == Len(iocs)
<1>1. n \in Nat /\ DOMAIN iocs = 1..n
  BY CorrelationAssumption
<1>2. \A k \in 1..n : iocs[k].score \in Nat /\ iocs[k].score <= 100
  BY <1>1, ScoresOfFeeds
<1>3. weight \in [1..n -> Nat]
  BY <1>1, WeightsArePositive
<1>4. PICK m \in at : \A k \in at : iocs[m].score <= iocs[k].score
  BY LowestMember
<1> DEFINE low == iocs[m].score
<1>5. low \in Nat /\ low <= 100
  BY <1>1, <1>2
<1>6. weighted \in [1..n -> Nat] /\ \A k \in 1..n : low * weight[k] <= weighted[k]
  <2>1. ASSUME NEW k \in 1..n
        PROVE  weighted[k] \in Nat /\ low * weight[k] <= weighted[k]
    <3>1. weighted[k] = iocs[k].score * weight[k] /\ weight[k] \in Nat
      BY <1>1, <1>3
    <3>2. CASE k \in at
      <4>1. low <= iocs[k].score
        BY <1>4, <3>2
      <4> HIDE DEF weighted, weight, low
      <4>2. QED
        BY <1>2, <1>5, <3>1, <4>1, ProductOrder
    <3>3. CASE k \notin at
      <4>1. weight[k] = 0
        BY <1>1, <3>3
      <4> HIDE DEF weighted, weight, low
      <4>2. \A x \in Nat : x * 0 = 0
        OBVIOUS
      <4>3. QED
        BY <1>2, <1>5, <3>1, <4>1, <4>2
    <3>4. QED
      BY <3>2, <3>3
  <2>2. weighted = [k \in 1..n |-> weighted[k]]
    BY <1>1
  <2> HIDE DEF weighted
  <2>3. QED
    BY <2>1, <2>2
<1>7. m \in 1..n /\ weight[m] \in Nat /\ weight[m] > 0
  BY <1>1, WeightsArePositive
<1> HIDE DEF weight, weighted, n, low
<1>8. Total(weight) \in Nat /\ Total(weight) > 0 /\ Total(weighted) \in Nat
  <2>1. Total(weight) \in Nat /\ weight[m] <= Total(weight)
    BY <1>1, <1>3, <1>7, TotalIsNat
  <2>2. Total(weighted) \in Nat
    BY <1>1, <1>6, TotalIsNat
  <2>3. QED
    BY <1>7, <2>1, <2>2
<1>9. low * Total(weight) <= Total(weighted)
  BY <1>1, <1>3, <1>5, <1>6, WeightedIsAbove
<1>10. mean \in Nat /\ 1000 * low <= mean
  <2>1. PICK a, b : a = Total(weight) /\ b = Total(weighted)
    OBVIOUS
  <2>2. a \in Nat /\ a > 0 /\ b \in Nat /\ low * a <= b
    BY <1>8, <1>9, <2>1
  <2>3. (1000 * low) * a = 1000 * (low * a)
    BY <1>5, <2>2
  <2>4. low * a \in Nat
    BY <1>5, <2>2, ProductOrder
  <2>5. (1000 * low) * a <= 1000 * b
    <3>1. PICK p : p = low * a
      OBVIOUS
    <3>2. 1000 * p <= 1000 * b
      BY <2>2, <2>4, <3>1
    <3>3. QED
      BY <2>3, <3>1, <3>2
  <2>6. 1000 * b \in Nat /\ 1000 * low \in Nat
    BY <1>5, <2>2
  <2>7. (1000 * b) \div a \in Nat /\ 1000 * low <= (1000 * b) \div a
    BY <2>2, <2>5, <2>6, Quotient
  <2>8. QED
    BY <2>1, <2>7
<1>11. Cardinality(at) \in Nat /\ Cardinality(at) >= 1 /\ Cardinality(TypesOf(iocs, at)) \in Nat
       /\ Cardinality(TypesOf(iocs, at)) >= 1
  <2>1. IsFiniteSet(at)
    <3>1. IsFiniteSet(1..n)
      BY <1>1, FS_Interval
    <3>2. QED
      BY <1>1, <3>1, FS_Subset
  <2>2. IsFiniteSet(TypesOf(iocs, at))
    <3> DEFINE f == [k \in at |-> iocs[k].type]
    <3>1. f \in Surjection(at, TypesOf(iocs, at))
      BY DEF TypesOf, Surjection
    <3> HIDE DEF f
    <3>2. QED
      BY <2>1, <3>1, FS_Surjection
  <2>3. TypesOf(iocs, at) # {}
    BY DEF TypesOf
  <2>4. \A S : IsFiniteSet(S) /\ S # {} => Cardinality(S) \in Nat /\ Cardinality(S) # 0
    BY FS_CardinalityType, FS_EmptySet
  <2>5. QED
    BY <2>1, <2>2, <2>3, <2>4
<1>12. diverse \in Nat /\ large \in Nat
  BY <1>11 DEF AtMost
<1>13. actor \in Nat
  OBVIOUS
<1>14. ClusterScore(iocs, at, adversary) = AtMost(100000, mean + diverse + actor + large)
  BY DEF ClusterScore, weight, weighted
<1> HIDE DEF mean, diverse, actor, large
<1>15. /\ AtMost(100000, mean + diverse + actor + large) <= 100000
       /\ 1000 * low <= AtMost(100000, mean + diverse + actor + large)
  BY <1>5, <1>10, <1>12, <1>13 DEF AtMost
<1>16. QED
  BY <1>14, <1>15 DEF low

\* An actor a cluster is put down to is named by one of its members.
LEMMA FirstActorIsNamed ==
  ASSUME NEW iocs, NEW at, NEW o, DOMAIN o \subseteq Nat, FirstActor(iocs, at, o) \in Actors
  PROVE  \E k \in at : iocs[k].adversary = FirstActor(iocs, at, o)
<1> DEFINE named == {k \in DOMAIN o : o[k] \in ActorsIn(iocs, at)}
           first == CHOOSE k \in named : \A j \in named : k <= j
<1>1. named # {}
  <2>1. named = {} => FirstActor(iocs, at, o) = NoActor
    BY DEF FirstActor
  <2>2. QED
    BY <2>1, CorrelationAssumption
<1>2. FirstActor(iocs, at, o) = o[first]
  BY <1>1 DEF FirstActor
<1>3. \E k \in named : \A j \in named : k <= j
  <2>1. named \subseteq Nat
    OBVIOUS
  <2> HIDE DEF named
  <2>2. QED
    BY <1>1, <2>1, LeastOf
<1>4. first \in named
  <2> HIDE DEF named
  <2>1. QED
    BY <1>3
<1> HIDE DEF first
<1>5. PICK k \in at : VerifiedAdversary(iocs[k]) = o[first] /\ o[first] # NoActor
  BY <1>4 DEF ActorsIn
<1>6. iocs[k].adversary = o[first]
  BY <1>5 DEF VerifiedAdversary
<1>7. QED
  BY <1>2, <1>6

\* The families, the actors and the networks an answer has clusters of.
LEMMA ClustersAre ==
  ASSUME NEW iocs, NEW o
  PROVE  \A c : c \in Clusters(iocs, o) <=>
           \/ \E m \in {iocs[k].malware : k \in DOMAIN iocs} :
                c = Cluster("malware_family", m, iocs, OfFamily(iocs, m),
                            FirstActor(iocs, OfFamily(iocs, m), o))
           \/ \E a \in ActorsIn(iocs, DOMAIN iocs) :
                /\ Cardinality(OfActor(iocs, a)) >= 2
                /\ c = Cluster("adversary", a, iocs, OfActor(iocs, a), a)
           \/ \E n \in {iocs[k].net : k \in AddressesOf(iocs, DOMAIN iocs)} \ {NoNet} :
                /\ Cardinality(OfNet(iocs, n)) >= 2
                /\ c = Cluster("network_infrastructure", n, iocs, OfNet(iocs, n),
                               FirstActor(iocs, OfNet(iocs, n), o))
<1> DEFINE Of(strategy, name, at) ==
             Cluster(strategy, name, iocs, at, FirstActor(iocs, at, o))
           Several(at) == Cardinality(at) >= 2
           names == {iocs[k].malware : k \in DOMAIN iocs}
           nets == {iocs[k].net : k \in AddressesOf(iocs, DOMAIN iocs)} \ {NoNet}
           families == {Of("malware_family", m, OfFamily(iocs, m)) : m \in names}
           actors == {Cluster("adversary", a, iocs, OfActor(iocs, a), a) :
                        a \in {b \in ActorsIn(iocs, DOMAIN iocs) : Several(OfActor(iocs, b))}}
           shared == {Of("network_infrastructure", n, OfNet(iocs, n)) :
                        n \in {m \in nets : Several(OfNet(iocs, m))}}
<1>1. Clusters(iocs, o) = families \cup actors \cup shared
  BY Zenon DEF Clusters
<1>2. \A c : c \in families <=> \E m \in names : c = Of("malware_family", m, OfFamily(iocs, m))
  BY Zenon
<1>3. \A c : c \in actors <=>
        \E a \in ActorsIn(iocs, DOMAIN iocs) :
          Several(OfActor(iocs, a)) /\ c = Cluster("adversary", a, iocs, OfActor(iocs, a), a)
  BY Zenon
<1>4. \A c : c \in shared <=>
        \E n \in nets : /\ Several(OfNet(iocs, n))
                        /\ c = Of("network_infrastructure", n, OfNet(iocs, n))
  BY Zenon
<1>5. \A c : c \in Clusters(iocs, o) <=> c \in families \/ c \in actors \/ c \in shared
  <2> HIDE DEF families, actors, shared
  <2>1. QED
    BY <1>1
<1> HIDE DEF families, actors, shared
<1>6. QED
  BY <1>2, <1>3, <1>4, <1>5, Zenon

\* What is true of each cluster of an answer.
LEMMA ClusterIsHonest ==
  ASSUME NEW iocs \in Feeds, NEW o, DOMAIN o \subseteq Nat, NEW c \in Clusters(iocs, o)
  PROVE  /\ c.adversary \in Actors => \E k \in c.members : iocs[k].adversary = c.adversary
         /\ c.score <= 100000
         /\ \E k \in c.members : 1000 * iocs[k].score <= c.score
         /\ c.strategy = "network_infrastructure" =>
              \A k \in c.members : iocs[k].net = c.name
<1>1. ASSUME NEW strategy, NEW name, NEW at, NEW adversary,
             c = Cluster(strategy, name, iocs, at, adversary),
             at \subseteq DOMAIN iocs, at # {},
             adversary \in Actors => \E k \in at : iocs[k].adversary = adversary,
             strategy = "network_infrastructure" => \A k \in at : iocs[k].net = name
      PROVE  /\ c.adversary \in Actors => \E k \in c.members : iocs[k].adversary = c.adversary
             /\ c.score <= 100000
             /\ \E k \in c.members : 1000 * iocs[k].score <= c.score
             /\ c.strategy = "network_infrastructure" =>
                  \A k \in c.members : iocs[k].net = c.name
  <2>1. /\ c.strategy = strategy /\ c.name = name /\ c.adversary = adversary
        /\ c.members = at /\ c.score = ClusterScore(iocs, at, adversary)
    BY <1>1 DEF Cluster
  <2>2. /\ ClusterScore(iocs, at, adversary) <= 100000
        /\ \E m \in at : 1000 * iocs[m].score <= ClusterScore(iocs, at, adversary)
    BY <1>1, ScoreIsBetween
  <2>3. QED
    BY <1>1, <2>1, <2>2
<1>2. CASE \E m \in {iocs[k].malware : k \in DOMAIN iocs} :
             c = Cluster("malware_family", m, iocs, OfFamily(iocs, m),
                         FirstActor(iocs, OfFamily(iocs, m), o))
  <2>1. PICK m \in {iocs[k].malware : k \in DOMAIN iocs} :
          c = Cluster("malware_family", m, iocs, OfFamily(iocs, m),
                      FirstActor(iocs, OfFamily(iocs, m), o))
    BY <1>2
  <2>2. OfFamily(iocs, m) \subseteq DOMAIN iocs /\ OfFamily(iocs, m) # {}
    BY <2>1 DEF OfFamily
  <2>3. "malware_family" # "network_infrastructure"
    OBVIOUS
  <2>4. QED
    BY <1>1, <2>1, <2>2, <2>3, FirstActorIsNamed
<1>3. CASE \E a \in ActorsIn(iocs, DOMAIN iocs) :
             /\ Cardinality(OfActor(iocs, a)) >= 2
             /\ c = Cluster("adversary", a, iocs, OfActor(iocs, a), a)
  <2>1. PICK a \in ActorsIn(iocs, DOMAIN iocs) :
          c = Cluster("adversary", a, iocs, OfActor(iocs, a), a)
    BY <1>3
  <2>2. PICK k \in DOMAIN iocs : VerifiedAdversary(iocs[k]) = a /\ a # NoActor
    BY <2>1 DEF ActorsIn
  <2>3. /\ OfActor(iocs, a) \subseteq DOMAIN iocs /\ k \in OfActor(iocs, a)
        /\ iocs[k].adversary = a
    BY <2>2 DEF OfActor, VerifiedAdversary
  <2>4. "adversary" # "network_infrastructure"
    OBVIOUS
  <2>5. QED
    BY <1>1, <2>1, <2>3, <2>4
<1>4. CASE \E n \in {iocs[k].net : k \in AddressesOf(iocs, DOMAIN iocs)} \ {NoNet} :
             /\ Cardinality(OfNet(iocs, n)) >= 2
             /\ c = Cluster("network_infrastructure", n, iocs, OfNet(iocs, n),
                            FirstActor(iocs, OfNet(iocs, n), o))
  <2>1. PICK n \in {iocs[k].net : k \in AddressesOf(iocs, DOMAIN iocs)} :
          c = Cluster("network_infrastructure", n, iocs, OfNet(iocs, n),
                      FirstActor(iocs, OfNet(iocs, n), o))
    BY <1>4
  <2>2. /\ OfNet(iocs, n) \subseteq DOMAIN iocs /\ OfNet(iocs, n) # {}
        /\ \A k \in OfNet(iocs, n) : iocs[k].net = n
    BY <2>1 DEF OfNet, AddressesOf
  <2>3. QED
    BY <1>1, <2>1, <2>2, FirstActorIsNamed
<1>5. QED
  BY <1>2, <1>3, <1>4, ClustersAre

\* Each indicator is in the cluster of one family.
LEMMA OneFamily ==
  ASSUME NEW iocs, NEW o, NEW k \in DOMAIN iocs
  PROVE  Cardinality({c \in Clusters(iocs, o) :
                        c.strategy = "malware_family" /\ k \in c.members}) = 1
<1> DEFINE Of(m) == Cluster("malware_family", m, iocs, OfFamily(iocs, m),
                            FirstActor(iocs, OfFamily(iocs, m), o))
           all == {c \in Clusters(iocs, o) : c.strategy = "malware_family" /\ k \in c.members}
<1>1. \A strategy, name, at, adversary :
        /\ Cluster(strategy, name, iocs, at, adversary).strategy = strategy
        /\ Cluster(strategy, name, iocs, at, adversary).members = at
  BY DEF Cluster
<1>2. "malware_family" # "adversary" /\ "malware_family" # "network_infrastructure"
  OBVIOUS
<1>3. Of(iocs[k].malware) \in all
  <2>1. Of(iocs[k].malware) \in Clusters(iocs, o)
    BY ClustersAre
  <2>2. k \in OfFamily(iocs, iocs[k].malware)
    BY DEF OfFamily
  <2>3. QED
    BY <1>1, <2>1, <2>2
<1>4. ASSUME NEW c \in all PROVE c = Of(iocs[k].malware)
  <2>1. PICK m : c = Of(m)
    BY <1>1, <1>2, ClustersAre
  <2>2. k \in OfFamily(iocs, m)
    BY <1>1, <2>1
  <2>3. m = iocs[k].malware
    BY <2>2 DEF OfFamily
  <2>4. QED
    BY <2>1, <2>3
<1> HIDE DEF Of
<1>5. all = {Of(iocs[k].malware)}
  BY <1>3, <1>4
<1>6. QED
  BY <1>5, FS_Singleton

\* The clusters of an answer, or some of them, are honest.
LEMMA ReportIsHonest ==
  ASSUME NEW report, report.of \in Feeds,
         DOMAIN hashOrder \subseteq Nat,
         report.clusters \subseteq Clusters(report.of, hashOrder)
  PROVE  HonestClusters(report)
<1> DEFINE iocs == report.of
           all == Clusters(Erased(iocs), hashOrder)
<1>1. all = Clusters(iocs, hashOrder)
  BY ErasedIsAlike, ClustersOfAlike
<1>2. \A k \in DOMAIN iocs : Cardinality({c \in Clusters(iocs, hashOrder) :
        c.strategy = "malware_family" /\ k \in c.members}) = 1
  BY OneFamily
<1>3. \A c \in Clusters(iocs, hashOrder) :
        /\ c.adversary \in Actors => \E k \in c.members : iocs[k].adversary = c.adversary
        /\ c.score <= 100000
        /\ \E k \in c.members : 1000 * iocs[k].score <= c.score
        /\ c.strategy = "network_infrastructure" =>
             \A k \in c.members : iocs[k].net = c.name
  BY ClusterIsHonest
<1> DEFINE FamiliesOf(k) == {c \in all : c.strategy = "malware_family" /\ k \in c.members}
<1>4. \A k \in DOMAIN iocs : Cardinality(FamiliesOf(k)) = 1
  BY <1>1, <1>2, Zenon
<1>5. report.clusters \subseteq all
  BY <1>1
<1>6. ASSUME NEW c \in report.clusters
      PROVE  /\ c.adversary \in Actors =>
                  \E k \in c.members : iocs[k].adversary = c.adversary
             /\ c.score <= 100000
             /\ \E k \in c.members : 1000 * iocs[k].score <= c.score
             /\ c.strategy = "network_infrastructure" =>
                  \A k \in c.members : iocs[k].net = c.name
  <2>1. c \in Clusters(iocs, hashOrder)
    OBVIOUS
  <2>2. QED
    BY <1>3, <2>1
<1>7. QED
  BY <1>4, <1>5, <1>6 DEF HonestClusters

\* The networks a submission is told it shares are clusters of the engine.
SharedAreClusters(iocs, shared, listed) ==
  \A s \in shared :
    \E c \in Clusters(iocs, listed) :
      /\ c.strategy = "network_infrastructure" /\ c.name = s.subnet
      /\ \A v \in s.values : \E k \in c.members : iocs[k].id = v

\* The indicators of a submission that are addresses.
IpsOf(iocs) == {k \in DOMAIN iocs : iocs[k].type = "ip"}

LEMMA SharedIsCluster ==
  ASSUME NEW iocs \in Feeds, NEW n, n \in {iocs[k].net : k \in IpsOf(iocs)}, n # NoNet,
         NEW some, some = {k \in IpsOf(iocs) : iocs[k].net = n}, Cardinality(some) >= 2
  PROVE  \E c \in Clusters(iocs, hashOrder) :
           /\ c.strategy = "network_infrastructure" /\ c.name = n
           /\ \A k \in DOMAIN iocs : iocs[k].type = "ip" /\ iocs[k].net = n => k \in c.members
<1> DEFINE c == Cluster("network_infrastructure", n, iocs, OfNet(iocs, n),
                        FirstActor(iocs, OfNet(iocs, n), hashOrder))
<1>1. some \subseteq OfNet(iocs, n) /\ OfNet(iocs, n) \subseteq DOMAIN iocs
  BY DEF OfNet, IpTypes, IpsOf
<1>2. IsFiniteSet(OfNet(iocs, n))
  <2>1. PICK size \in Nat : DOMAIN iocs = 1..size
    BY CorrelationAssumption
  <2>2. IsFiniteSet(1..size)
    BY FS_Interval
  <2>3. QED
    BY <1>1, <2>1, <2>2, FS_Subset
<1>3. Cardinality(OfNet(iocs, n)) >= 2
  <2>1. /\ Cardinality(some) \in Nat /\ Cardinality(OfNet(iocs, n)) \in Nat
        /\ Cardinality(some) <= Cardinality(OfNet(iocs, n))
    BY <1>1, <1>2, FS_Subset, FS_CardinalityType
  <2>2. QED
    BY <2>1
<1>4. n \in {iocs[k].net : k \in AddressesOf(iocs, DOMAIN iocs)} \ {NoNet}
  BY DEF AddressesOf, IpTypes, IpsOf
<1>5. c \in Clusters(iocs, hashOrder)
  BY <1>3, <1>4, ClustersAre
<1>6. /\ c.strategy = "network_infrastructure" /\ c.name = n /\ c.members = OfNet(iocs, n)
  BY DEF Cluster
<1>7. \A k \in DOMAIN iocs : iocs[k].type = "ip" /\ iocs[k].net = n => k \in OfNet(iocs, n)
  BY DEF OfNet, IpTypes
<1> HIDE DEF c
<1>8. QED
  BY <1>5, <1>6, <1>7

\* An order of the actors lists each of them once.
LEMMA OrderListsActors ==
  ASSUME NEW o \in SetToSeqs(Actors)
  PROVE  Range(o) = Actors /\ Len(o) = Cardinality(Actors) /\ DOMAIN o \subseteq Nat
<1> DEFINE n == Cardinality(Actors)
<1>1. IsFiniteSet(Actors) /\ n \in Nat
  BY CorrelationAssumption, FS_CardinalityType
<1>2. o \in [1..n -> Actors] /\ \A i, j \in 1..n : i # j => o[i] # o[j]
  BY DEF SetToSeqs
<1>3. Cardinality(1..n) = n /\ IsFiniteSet(1..n)
  <2>1. n = 1 - 1 \/ 1 <= n
    BY <1>1
  <2>2. 1 \in Int /\ n \in Int
    BY <1>1
  <2> HIDE DEF n
  <2>3. IsFiniteSet(1..n) /\ Cardinality(1..n) = IF 1 > n THEN 0 ELSE n - 1 + 1
    BY <2>2, FS_Interval
  <2>4. QED
    BY <1>1, <2>3
<1> HIDE DEF n
<1>4. o \in Injection(1..n, Actors)
  BY <1>2 DEF Injection, IsInjective
<1>5. o \in Surjection(1..n, Actors)
  BY <1>1, <1>3, <1>4, FS_Injection DEF n
<1>6. Range(o) = Actors
  BY <1>2, <1>5 DEF Surjection, Range
<1>7. Len(o) = n /\ DOMAIN o \subseteq Nat
  BY <1>1, <1>2
<1>8. QED
  BY <1>6, <1>7 DEF n

\* A whole result, or one cluster of it: what the clusters of one answer are.
IsReport(c, listed) ==
  /\ DOMAIN c = {"kind", "of", "is_live", "clusters"} /\ c.kind = "report"
  /\ c.of \in Feeds /\ c.clusters \subseteq Clusters(c.of, listed)

\* What a request holds in each phase.
CorrelatorInv(r) ==
  LET q == correlator[r] IN
  /\ q.phase \in {"none", "answered", "submitted", "running", "correlated", "saving"}
  /\ q.phase \in {"correlated", "saving", "answered"} => IsReport(q.report, hashOrder)
  /\ q.phase = "submitted" => q.of \in Feeds /\ SharedAreClusters(q.of, q.shared, hashOrder)
  /\ q.phase = "saving" =>
       /\ q = [phase |-> "saving", report |-> q.report, overlapped |-> q.overlapped]
       /\ q.overlapped \in BOOLEAN

CorrInv ==
  /\ Range(hashOrder) = Actors /\ Len(hashOrder) = Cardinality(Actors)
  /\ DOMAIN hashOrder \subseteq Nat
  /\ cacheFile.kind \in {"absent", "torn", "legacy", "report"}
  /\ cacheFile.kind = "report" => IsReport(cacheFile, hashOrder)
  /\ correlator = [r \in Correlators |-> correlator[r]]
  /\ \A r \in Correlators : CorrelatorInv(r)

LEMMA CorrInvStep == CorrInv /\ [CorrNext]_corrVars => CorrInv'
<1> SUFFICES ASSUME CorrInv, [CorrNext]_corrVars PROVE CorrInv'
  OBVIOUS
<1>1. /\ correlator = [r \in Correlators |-> correlator[r]]
      /\ \A r \in Correlators : CorrelatorInv(r)
      /\ cacheFile.kind \in {"absent", "torn", "legacy", "report"}
      /\ cacheFile.kind = "report" => IsReport(cacheFile, hashOrder)
  BY DEF CorrInv
<1>2. ASSUME NEW r \in Correlators, NEW q, correlator' = [correlator EXCEPT ![r] = q],
             \/ q.phase \in {"none", "running"}
             \/ /\ q.phase = "submitted" /\ q.of \in Feeds
                /\ SharedAreClusters(q.of, q.shared, hashOrder)
             \/ q.phase \in {"correlated", "answered"} /\ IsReport(q.report, hashOrder),
             hashOrder' = hashOrder,
             cacheFile'.kind \in {"absent", "torn", "legacy", "report"},
             cacheFile'.kind = "report" => IsReport(cacheFile', hashOrder)
      PROVE  CorrInv'
  <2>1. /\ correlator'[r] = q /\ \A s \in Correlators \ {r} : correlator'[s] = correlator[s]
        /\ correlator' = [s \in Correlators |-> correlator'[s]]
    BY <1>1, <1>2
  <2>2. ASSUME NEW s \in Correlators PROVE CorrelatorInv(s)'
    <3>1. CASE s = r
      BY <1>2, <2>1, <3>1 DEF CorrelatorInv
    <3>2. CASE s # r
      BY <1>1, <1>2, <2>1, <3>2 DEF CorrelatorInv
    <3>3. QED
      BY <3>1, <3>2
  <2>3. QED
    BY <1>2, <2>1, <2>2 DEF CorrInv
<1>3. ASSUME NEW r \in Correlators, AskCorrelations(r) PROVE CorrInv'
  <2>1. \/ correlator' = [correlator EXCEPT ![r] = [phase |-> "running"]]
        \/ /\ correlator' = [correlator EXCEPT ![r] = [phase |-> "answered", report |-> cacheFile]]
           /\ cacheFile.kind = "report"
    BY <1>3 DEF AskCorrelations, AnsweredWith, Loadable
  <2>2. UNCHANGED <<hashOrder, cacheFile>>
    BY <1>3 DEF AskCorrelations
  <2>3. QED
    BY <1>1, <1>2, <2>1, <2>2
<1>4. ASSUME NEW r \in Correlators, AskCluster(r) PROVE CorrInv'
  <2>1. PICK c \in cacheFile.clusters :
          correlator' = [correlator EXCEPT ![r] =
            [phase |-> "answered", report |-> [cacheFile EXCEPT !.clusters = {c}]]]
    BY <1>4 DEF AskCluster, AnsweredWith
  <2>2. UNCHANGED <<hashOrder, cacheFile>>
    BY <1>4 DEF AskCluster
  <2> DEFINE report == [cacheFile EXCEPT !.clusters = {c}]
             q == [phase |-> "answered", report |-> report]
  <2>3. IsReport(report, hashOrder)
    <3>1. IsReport(cacheFile, hashOrder)
      BY <1>1, <1>4 DEF AskCluster, Loadable
    <3>2. /\ DOMAIN report = {"kind", "of", "is_live", "clusters"} /\ report.kind = "report"
          /\ report.of = cacheFile.of /\ report.clusters = {c}
      BY <3>1 DEF IsReport
    <3>3. QED
      BY <2>1, <3>1, <3>2 DEF IsReport
  <2> HIDE DEF report
  <2>4. /\ q.phase = "answered" /\ IsReport(q.report, hashOrder)
        /\ correlator' = [correlator EXCEPT ![r] = q]
    BY <2>1, <2>3 DEF report
  <2> HIDE DEF q
  <2>5. QED
    BY <1>1, <1>2, <2>2, <2>4
<1>5. ASSUME NEW r \in Correlators, Correlate(r) PROVE CorrInv'
  <2>1. PICK iocs \in Feeds :
          correlator' = [correlator EXCEPT ![r] =
            [phase |-> "correlated", report |-> CorrelationReport(iocs, hashOrder)]]
    BY <1>5 DEF Correlate
  <2>2. UNCHANGED <<hashOrder, cacheFile>>
    BY <1>5 DEF Correlate
  <2>3. IsReport(CorrelationReport(iocs, hashOrder), hashOrder)
    <3>1. PICK live : live = (iocs # <<>>)
      OBVIOUS
    <3>2. CorrelationReport(iocs, hashOrder) =
            [kind |-> "report", of |-> iocs, is_live |-> live,
             clusters |-> Clusters(iocs, hashOrder)]
      BY <3>1, Zenon DEF CorrelationReport
    <3>3. QED
      BY <3>2 DEF IsReport
  <2> DEFINE q == [phase |-> "correlated", report |-> CorrelationReport(iocs, hashOrder)]
  <2>4. /\ q.phase = "correlated" /\ IsReport(q.report, hashOrder)
        /\ correlator' = [correlator EXCEPT ![r] = q]
    BY <2>1, <2>3
  <2> HIDE DEF q
  <2>5. QED
    BY <1>1, <1>2, <2>2, <2>4
<1>6. ASSUME NEW r \in Correlators, SaveBegins(r) PROVE CorrInv'
  <2> DEFINE others == {q \in Correlators \ {r} : Saving(q)}
  <2>1. /\ correlator[r].phase = "correlated" /\ cacheFile' = Torn /\ hashOrder' = hashOrder
        /\ correlator' = [q \in Correlators |->
             IF q = r THEN [phase |-> "saving", report |-> correlator[r].report,
                            overlapped |-> others # {}]
             ELSE IF q \in others THEN [correlator[q] EXCEPT !.overlapped = TRUE]
             ELSE correlator[q]]
    BY <1>6 DEF SaveBegins
  <2>0. hashOrder' = hashOrder
    BY <1>6 DEF SaveBegins
  <2>2. ASSUME NEW q \in Correlators PROVE CorrelatorInv(q)'
    <3>1. CASE q = r
      <4>1. /\ correlator'[q] = [phase |-> "saving", report |-> correlator[r].report,
                                 overlapped |-> others # {}]
            /\ IsReport(correlator[r].report, hashOrder)
        BY <1>1, <2>1, <3>1 DEF CorrelatorInv
      <4>2. (others # {}) \in BOOLEAN
        OBVIOUS
      <4> HIDE DEF others
      <4>3. QED
        BY <2>0, <4>1, <4>2 DEF CorrelatorInv
    <3>2. CASE q # r /\ q \in others
      <4>1. /\ correlator[q] = [phase |-> "saving", report |-> correlator[q].report,
                                overlapped |-> correlator[q].overlapped]
            /\ IsReport(correlator[q].report, hashOrder)
        BY <1>1, <3>2 DEF CorrelatorInv, Saving
      <4>2. correlator'[q] = [correlator[q] EXCEPT !.overlapped = TRUE]
        BY <2>1, <3>2
      <4>3. PICK report, met :
              correlator[q] = [phase |-> "saving", report |-> report, overlapped |-> met]
        BY <4>1
      <4>4. PICK yes : yes = TRUE
        OBVIOUS
      <4> DEFINE before == [phase |-> "saving", report |-> report, overlapped |-> met]
      <4>5. correlator'[q] = [before EXCEPT !.overlapped = yes]
        BY <4>2, <4>3, <4>4, Zenon
      <4>6. [before EXCEPT !.overlapped = yes]
              = [phase |-> "saving", report |-> report, overlapped |-> yes]
        OBVIOUS
      <4>7. correlator'[q] = [phase |-> "saving", report |-> report, overlapped |-> yes]
        BY <4>5, <4>6, Zenon
      <4>8. IsReport(report, hashOrder)
        BY <4>1, <4>3
      <4>9. yes \in BOOLEAN
        BY <4>4
      <4>10. QED
        BY <2>0, <4>7, <4>8, <4>9 DEF CorrelatorInv
    <3>3. CASE q # r /\ q \notin others
      <4>1. correlator'[q] = correlator[q]
        BY <2>1, <3>3
      <4>2. QED
        BY <1>1, <2>1, <4>1 DEF CorrelatorInv
    <3>4. QED
      BY <3>1, <3>2, <3>3
  <2>3. cacheFile'.kind = "torn"
    BY <2>1 DEF Torn
  <2>4. correlator' = [q \in Correlators |-> correlator'[q]]
    BY <2>1
  <2>5. QED
    BY <2>1, <2>2, <2>3, <2>4 DEF CorrInv
<1>7. ASSUME NEW r \in Correlators, SaveEnds(r) PROVE CorrInv'
  <2>1. /\ correlator' = [correlator EXCEPT ![r] =
                            [phase |-> "answered", report |-> correlator[r].report]]
        /\ cacheFile' = correlator[r].report \/ cacheFile' = Torn
        /\ hashOrder' = hashOrder
    BY <1>7 DEF SaveEnds, AnsweredWith
  <2>2. IsReport(correlator[r].report, hashOrder) /\ Torn.kind = "torn"
    BY <1>1, <1>7 DEF SaveEnds, Saving, CorrelatorInv, Torn
  <2>3. correlator[r].report.kind = "report"
    BY <2>2 DEF IsReport
  <2>4. QED
    BY <1>2, <2>1, <2>2, <2>3
<1>8. ASSUME NEW r \in Correlators, SaveFails(r) PROVE CorrInv'
  <2>1. Waiting.phase = "none"
    BY DEF Waiting
  <2>2. QED
    BY <1>1, <1>2, <1>8, <2>1 DEF SaveFails
<1>9. ASSUME NEW r \in Correlators, CorrelateSubmitted(r) PROVE CorrInv'
  <2>0. UNCHANGED <<hashOrder, cacheFile>>
    BY <1>9 DEF CorrelateSubmitted
  <2> DEFINE At(iocs, type) == {k \in DOMAIN iocs : iocs[k].type = type}
             InNet(iocs, n) == {iocs[k].id : k \in {j \in At(iocs, "ip") : iocs[j].net = n}}
             nets(iocs) == {iocs[k].net : k \in At(iocs, "ip")} \ {NoNet}
             Shared(iocs) == {[subnet |-> n, values |-> InNet(iocs, n)] :
                                n \in {o \in nets(iocs) : Cardinality({k \in At(iocs, "ip") :
                                                            iocs[k].net = o}) >= 2}}
  <2>1. \E iocs \in Feeds : \E matches, hosted :
          correlator' = [correlator EXCEPT ![r] =
            [phase |-> "submitted", of |-> iocs, matches |-> matches, hosted |-> hosted,
             shared |-> Shared(iocs)]]
    BY <1>9, ZenonT(60) DEF CorrelateSubmitted
  <2>2. PICK iocs \in Feeds : \E matches, hosted :
          correlator' = [correlator EXCEPT ![r] =
            [phase |-> "submitted", of |-> iocs, matches |-> matches, hosted |-> hosted,
             shared |-> Shared(iocs)]]
    BY <2>1
  <2>3. ASSUME NEW s \in Shared(iocs)
        PROVE  \E c \in Clusters(iocs, hashOrder) :
                 /\ c.strategy = "network_infrastructure" /\ c.name = s.subnet
                 /\ \A v \in s.values : \E k \in c.members : iocs[k].id = v
    <3>1. PICK n \in nets(iocs) :
            /\ Cardinality({k \in At(iocs, "ip") : iocs[k].net = n}) >= 2
            /\ s = [subnet |-> n, values |-> InNet(iocs, n)]
      BY <2>3, Zenon
    <3>2. PICK c \in Clusters(iocs, hashOrder) :
            /\ c.strategy = "network_infrastructure" /\ c.name = n
            /\ \A k \in DOMAIN iocs : iocs[k].type = "ip" /\ iocs[k].net = n => k \in c.members
      <4>1. At(iocs, "ip") = IpsOf(iocs)
        BY DEF IpsOf
      <4>2. PICK some : some = {k \in IpsOf(iocs) : iocs[k].net = n}
        OBVIOUS
      <4>3. n \in {iocs[k].net : k \in IpsOf(iocs)} /\ n # NoNet /\ Cardinality(some) >= 2
        <5> HIDE DEF At
        <5>1. QED
          BY <3>1, <4>1, <4>2
      <4>4. QED
        BY <4>2, <4>3, SharedIsCluster
    <3>3. \A v \in InNet(iocs, n) : \E k \in c.members : iocs[k].id = v
      BY <3>2
    <3>4. QED
      BY <3>1, <3>2, <3>3
  <2> HIDE DEF Shared
  <2>4. SharedAreClusters(iocs, Shared(iocs), hashOrder)
    BY <2>3 DEF SharedAreClusters
  <2>5. PICK matches, hosted :
          correlator' = [correlator EXCEPT ![r] =
            [phase |-> "submitted", of |-> iocs, matches |-> matches, hosted |-> hosted,
             shared |-> Shared(iocs)]]
    BY <2>2
  <2> DEFINE q == [phase |-> "submitted", of |-> iocs, matches |-> matches,
                   hosted |-> hosted, shared |-> Shared(iocs)]
  <2>6. /\ q.phase = "submitted" /\ q.of \in Feeds /\ SharedAreClusters(q.of, q.shared, hashOrder)
        /\ correlator' = [correlator EXCEPT ![r] = q]
    BY <2>4, <2>5
  <2> HIDE DEF q
  <2>7. QED
    BY <1>1, <1>2, <2>0, <2>6
<1>10. CASE UNCHANGED corrVars
  BY <1>10 DEF CorrInv, corrVars, CorrelatorInv
<1>11. QED
  BY <1>3, <1>4, <1>5, <1>6, <1>7, <1>8, <1>9, <1>10 DEF CorrNext

LEMMA CorrInitially == CorrInit => CorrInv
<1> SUFFICES ASSUME CorrInit PROVE CorrInv
  OBVIOUS
<1>1. /\ Range(hashOrder) = Actors /\ Len(hashOrder) = Cardinality(Actors)
      /\ DOMAIN hashOrder \subseteq Nat
  BY OrderListsActors DEF CorrInit
<1>2. /\ cacheFile.kind \in {"absent", "legacy"}
      /\ correlator = [r \in Correlators |-> Waiting] /\ Waiting.phase = "none"
  BY DEF CorrInit, Absent, Legacy, Waiting
<1>3. QED
  BY <1>1, <1>2 DEF CorrInv, CorrelatorInv

LEMMA CorrTypes == CorrInv => CorrTypeOK
  BY DEF CorrInv, CorrTypeOK, CorrelatorInv

\* A request for correlations is answered with a result of this code over one answer
\* of the feed, or with a cluster of it: never with a file two writers have mixed or
\* one was killed over, nor with the samples of an older version.
THEOREM AnswersAreWhole ==
  CorrSpec => [](/\ CorrTypeOK
                 /\ \A r \in Correlators : correlator[r].phase = "answered" =>
                      IsReport(correlator[r].report, hashOrder))
<1>1. CorrInv => \A r \in Correlators : correlator[r].phase = "answered" =>
                   IsReport(correlator[r].report, hashOrder)
  BY DEF CorrInv, CorrelatorInv
<1>2. QED
  BY <1>1, CorrInitially, CorrInvStep, CorrTypes, PTL DEF CorrSpec

LEMMA CorrInvIsHonest == CorrInv => ClustersAreHonest
<1> SUFFICES ASSUME CorrInv PROVE ClustersAreHonest
  OBVIOUS
<1>1. ASSUME NEW r \in Correlators, correlator[r].phase \in {"answered", "correlated"}
      PROVE  correlator[r].report.kind = "report" /\ HonestClusters(correlator[r].report)
  <2>1. IsReport(correlator[r].report, hashOrder) /\ DOMAIN hashOrder \subseteq Nat
    BY <1>1 DEF CorrInv, CorrelatorInv
  <2>2. QED
    BY <2>1, ReportIsHonest DEF IsReport
<1>2. ASSUME NEW r \in Correlators, correlator[r].phase = "submitted"
      PROVE  \A s \in correlator[r].shared :
               \E c \in Clusters(correlator[r].of, hashOrder) :
                 /\ c.strategy = "network_infrastructure" /\ c.name = s.subnet
                 /\ \A v \in s.values : \E k \in c.members : correlator[r].of[k].id = v
  <2>1. SharedAreClusters(correlator[r].of, correlator[r].shared, hashOrder)
    BY <1>2 DEF CorrInv, CorrelatorInv
  <2>2. QED
    BY <2>1 DEF SharedAreClusters
<1>3. QED
  BY <1>1, <1>2 DEF ClustersAreHonest

\* No name that a pulse's author made up changes a cluster, its actor, its score or its
\* patterns, however many indicators an answer has and whatever they say; every
\* indicator is in the cluster of exactly one family; a cluster's actor is named by one
\* of its members and its score lies between that of its lowest member and a hundred;
\* and the networks a submission shares are clusters of the engine.
THEOREM ClustersStayHonest == CorrSpec => []ClustersAreHonest
  BY CorrInitially, CorrInvStep, CorrInvIsHonest, PTL DEF CorrSpec

-----------------------------------------------------------------------------
(* OsintEntities                                                           *)

\* A merged record has its fields.
IsEntity(e) ==
  e = [type |-> e.type, sources |-> e.sources, occurrences |-> e.occurrences,
       severity |-> e.severity, detail |-> e.detail, timestamp |-> e.timestamp,
       notBefore |-> e.notBefore]

Sightings(k) == {f \in taken : Key(f) = k}

EntitiesInv ==
  /\ taken \subseteq Findings /\ IsFiniteSet(taken)
  /\ merged = [k \in DOMAIN merged |-> merged[k]]
  /\ order \in Seq(DOMAIN merged)
  /\ \A k \in DOMAIN merged : \E i \in DOMAIN order : order[i] = k
  /\ \A i, j \in DOMAIN order : order[i] = order[j] => i = j
  /\ \A f \in taken : Key(f) \in DOMAIN merged
  /\ \A k \in DOMAIN merged :
       /\ IsEntity(merged[k]) /\ merged[k].sources \subseteq ToSet(SourceOrder)
       /\ IsFiniteSet(merged[k].sources) /\ merged[k].sources # {}
       /\ merged[k].occurrences = Cardinality(Sightings(k))

\* What a later sighting makes of an entity.
LEMMA LaterSources ==
  ASSUME NEW e, NEW f, IsEntity(e)
  PROVE  /\ IsEntity(LaterSighting(e, f))
         /\ LaterSighting(e, f).sources = e.sources \cup {f.source}
         /\ LaterSighting(e, f).occurrences = e.occurrences + 1
<1> DEFINE later == LaterSighting(e, f)
<1>1. /\ later = [type |-> e.type, sources |-> e.sources \cup {f.source},
                  occurrences |-> e.occurrences + 1,
                  severity |-> Backfilled(e.severity, f.severity),
                  detail |-> Backfilled(e.detail, f.detail),
                  timestamp |-> Backfilled(e.timestamp, f.timestamp),
                  notBefore |-> Backfilled(e.notBefore, f.notBefore)]
  <2>1. e = [type |-> e.type, sources |-> e.sources, occurrences |-> e.occurrences,
             severity |-> e.severity, detail |-> e.detail, timestamp |-> e.timestamp,
             notBefore |-> e.notBefore]
    BY DEF IsEntity
  <2>2. PICK t, s, o, y, d, m, n :
          e = [type |-> t, sources |-> s, occurrences |-> o, severity |-> y, detail |-> d,
               timestamp |-> m, notBefore |-> n]
    BY <2>1
  <2>3. PICK s2, o2, y2, d2, m2, n2 :
          /\ s2 = e.sources \cup {f.source} /\ o2 = e.occurrences + 1
          /\ y2 = Backfilled(e.severity, f.severity) /\ d2 = Backfilled(e.detail, f.detail)
          /\ m2 = Backfilled(e.timestamp, f.timestamp)
          /\ n2 = Backfilled(e.notBefore, f.notBefore)
    OBVIOUS
  <2>4. later = [e EXCEPT !.sources = s2, !.occurrences = o2, !.severity = y2,
                          !.detail = d2, !.timestamp = m2, !.notBefore = n2]
    BY <2>3 DEF LaterSighting
  <2>5. later = [type |-> e.type, sources |-> s2, occurrences |-> o2, severity |-> y2,
                 detail |-> d2, timestamp |-> m2, notBefore |-> n2]
    BY <2>2, <2>4
  <2>6. QED
    BY <2>3, <2>5
<1>2. QED
  BY <1>1 DEF IsEntity

LEMMA EntitiesInvStep == EntitiesInv /\ [EntitiesNext]_entityVars => EntitiesInv'
<1> SUFFICES ASSUME EntitiesInv, [EntitiesNext]_entityVars PROVE EntitiesInv'
  OBVIOUS
<1>1. CASE UNCHANGED entityVars
  <2>1. merged' = merged /\ order' = order /\ taken' = taken
    BY <1>1 DEF entityVars
  <2>2. \A k : Sightings(k)' = Sightings(k)
    BY <2>1 DEF Sightings
  <2>3. QED
    BY <2>1, <2>2 DEF EntitiesInv
<1>2. ASSUME NEW f \in Findings, MergeFinding(f) PROVE EntitiesInv'
  <2>1. /\ f \notin taken /\ taken' = taken \cup {f}
        /\ IF Key(f) \in DOMAIN merged
           THEN /\ merged' = [merged EXCEPT ![Key(f)] = LaterSighting(@, f)]
                /\ order' = order
           ELSE /\ merged' = [k \in DOMAIN merged \cup {Key(f)} |->
                                IF k = Key(f) THEN FirstSighting(f) ELSE merged[k]]
                /\ order' = Append(order, Key(f))
    BY <1>2 DEF MergeFinding
  <2>2. taken' \subseteq Findings /\ IsFiniteSet(taken')
    BY <2>1, FS_AddElement DEF EntitiesInv
  <2>3. f.source \in ToSet(SourceOrder)
    BY EntitiesAssumption
  <2>4. \A k : k # Key(f) => Sightings(k)' = Sightings(k)
    BY <2>1 DEF Sightings
  <2>5. /\ IsFiniteSet(Sightings(Key(f)))
        /\ Cardinality(Sightings(Key(f))') = Cardinality(Sightings(Key(f))) + 1
    <3>1. Sightings(Key(f))' = Sightings(Key(f)) \cup {f} /\ f \notin Sightings(Key(f))
      BY <2>1 DEF Sightings
    <3>2. IsFiniteSet(Sightings(Key(f)))
      BY FS_Subset DEF Sightings, EntitiesInv
    <3>3. QED
      BY <3>1, <3>2, FS_AddElement
  <2> DEFINE key == Key(f)
  <2>6. CASE key \in DOMAIN merged
    <3>1. merged' = [merged EXCEPT ![key] = LaterSighting(merged[key], f)] /\ order' = order
      BY <2>1, <2>6
    <3>2. DOMAIN merged' = DOMAIN merged
      BY <3>1
    <3>3. IsEntity(merged[key])
      BY <2>6 DEF EntitiesInv
    <3>4. PICK e : e = merged[key]
      OBVIOUS
    <3> DEFINE later == LaterSighting(e, f)
    <3>5. /\ IsEntity(later) /\ later.sources = e.sources \cup {f.source}
          /\ later.occurrences = e.occurrences + 1
      BY <3>3, <3>4, LaterSources
    <3>6. merged' = [merged EXCEPT ![key] = later]
      BY <3>1, <3>4
    <3> HIDE DEF later, key
    <3>7. merged'[key] = later /\ \A k \in DOMAIN merged \ {key} : merged'[k] = merged[k]
      BY <2>6, <3>6
    <3>8. ASSUME NEW k \in DOMAIN merged'
          PROVE  /\ IsEntity(merged'[k]) /\ merged'[k].sources \subseteq ToSet(SourceOrder)
                 /\ IsFiniteSet(merged'[k].sources) /\ merged'[k].sources # {}
                 /\ merged'[k].occurrences = Cardinality(Sightings(k)')
      <4>1. CASE k = key
        <5>1. /\ e.sources \subseteq ToSet(SourceOrder) /\ IsFiniteSet(e.sources)
              /\ e.occurrences = Cardinality(Sightings(key))
          BY <2>6, <3>4 DEF EntitiesInv
        <5>2. IsFiniteSet(later.sources) /\ later.sources # {}
          BY <3>5, <5>1, FS_AddElement
        <5>3. QED
          BY <2>3, <2>5, <3>5, <3>7, <4>1, <5>1, <5>2 DEF key
      <4>2. CASE k # key
        BY <2>4, <3>2, <3>7, <4>2 DEF EntitiesInv, key
      <4>3. QED
        BY <4>1, <4>2
    <3>9. \A g \in taken' : Key(g) \in DOMAIN merged'
      BY <2>1, <2>6, <3>2 DEF EntitiesInv, key
    <3>10. merged' = [k \in DOMAIN merged' |-> merged'[k]]
      BY <3>6 DEF EntitiesInv
    <3>11. /\ order' \in Seq(DOMAIN merged')
           /\ \A k \in DOMAIN merged' : \E i \in DOMAIN order' : order'[i] = k
           /\ \A i, j \in DOMAIN order' : order'[i] = order'[j] => i = j
      BY <3>1, <3>2 DEF EntitiesInv
    <3>12. QED
      BY <2>2, <3>8, <3>9, <3>10, <3>11 DEF EntitiesInv
  <2>7. CASE key \notin DOMAIN merged
    <3>1. /\ merged' = [k \in DOMAIN merged \cup {key} |->
                          IF k = key THEN FirstSighting(f) ELSE merged[k]]
          /\ order' = Append(order, key)
      BY <2>1, <2>7
    <3>2. /\ IsEntity(FirstSighting(f)) /\ FirstSighting(f).sources = {f.source}
          /\ FirstSighting(f).occurrences = 1
      BY DEF FirstSighting, IsEntity
    <3>3. Sightings(key) = {}
      BY <2>7 DEF Sightings, EntitiesInv
    <3>4. Cardinality(Sightings(key)') = 1
      BY <2>5, <3>3, FS_EmptySet
    <3> HIDE DEF key
    <3>5. /\ DOMAIN merged' = DOMAIN merged \cup {key} /\ merged'[key] = FirstSighting(f)
          /\ \A k \in DOMAIN merged : merged'[k] = merged[k]
      BY <2>7, <3>1
    <3>6. ASSUME NEW k \in DOMAIN merged'
          PROVE  /\ IsEntity(merged'[k]) /\ merged'[k].sources \subseteq ToSet(SourceOrder)
                 /\ IsFiniteSet(merged'[k].sources) /\ merged'[k].sources # {}
                 /\ merged'[k].occurrences = Cardinality(Sightings(k)')
      <4>1. CASE k = key
        BY <2>3, <3>2, <3>4, <3>5, <4>1, FS_Singleton
      <4>2. CASE k # key
        BY <2>4, <3>5, <4>2 DEF EntitiesInv, key
      <4>3. QED
        BY <4>1, <4>2
    <3>7. \A g \in taken' : Key(g) \in DOMAIN merged'
      BY <2>1, <3>5 DEF EntitiesInv, key
    <3>8. merged' = [k \in DOMAIN merged' |-> merged'[k]]
      BY <3>1
    <3>9. order \in Seq(DOMAIN merged) /\ DOMAIN order = 1..Len(order) /\ Len(order) \in Nat
      BY DEF EntitiesInv
    <3>10. /\ order' \in Seq(DOMAIN merged') /\ DOMAIN order' = 1..(Len(order) + 1)
           /\ \A i \in DOMAIN order : order'[i] = order[i] /\ order'[i] \in DOMAIN merged
           /\ order'[Len(order) + 1] = key
      BY <3>1, <3>5, <3>9
    <3>11. \A k \in DOMAIN merged' : \E i \in DOMAIN order' : order'[i] = k
      <4>1. ASSUME NEW k \in DOMAIN merged PROVE \E i \in DOMAIN order' : order'[i] = k
        <5>1. PICK i \in DOMAIN order : order[i] = k
          BY DEF EntitiesInv
        <5>2. i \in DOMAIN order' /\ order'[i] = k
          BY <3>9, <3>10, <5>1
        <5>3. QED
          BY <5>2
      <4>2. Len(order) + 1 \in DOMAIN order'
        BY <3>9, <3>10
      <4>3. QED
        BY <3>5, <3>10, <4>1, <4>2
    <3>12. ASSUME NEW i \in DOMAIN order', NEW j \in DOMAIN order', order'[i] = order'[j]
           PROVE  i = j
      <4>1. /\ i \in DOMAIN order \/ i = Len(order) + 1
            /\ j \in DOMAIN order \/ j = Len(order) + 1
        BY <3>9, <3>10
      <4>2. QED
        BY <2>7, <3>10, <3>12, <4>1 DEF EntitiesInv
    <3>13. QED
      BY <2>2, <3>6, <3>7, <3>8, <3>10, <3>11, <3>12 DEF EntitiesInv
  <2>8. QED
    BY <2>6, <2>7
<1>3. QED
  BY <1>1, <1>2 DEF EntitiesNext

LEMMA EntitiesInitially == EntitiesInit => EntitiesInv
<1> SUFFICES ASSUME EntitiesInit PROVE EntitiesInv
  OBVIOUS
<1>1. merged = [k \in {} |-> None] /\ order = <<>> /\ taken = {}
  BY DEF EntitiesInit
<1>2. DOMAIN merged = {} /\ DOMAIN order = {} /\ order \in Seq(DOMAIN merged)
  BY <1>1
<1>3. QED
  BY <1>1, <1>2, FS_EmptySet DEF EntitiesInv

LEMMA EntitiesTypes == EntitiesInv => EntitiesTypeOK
<1> SUFFICES ASSUME EntitiesInv PROVE EntitiesTypeOK
  OBVIOUS
<1>1. ToSet(order) = DOMAIN merged
  <2>1. \A i \in DOMAIN order : order[i] \in DOMAIN merged
    BY DEF EntitiesInv
  <2>2. \A k \in DOMAIN merged : \E i \in DOMAIN order : order[i] = k
    BY DEF EntitiesInv
  <2>3. QED
    BY <2>1, <2>2 DEF ToSet
<1>2. IsInjective(order)
  BY DEF EntitiesInv, IsInjective
<1>3. QED
  BY <1>1, <1>2 DEF EntitiesInv, EntitiesTypeOK, Sightings

LEMMA LesserOfTwo ==
  ASSUME NEW x \in Int, NEW y \in Int
  PROVE  Min({x, y}) = IF x <= y THEN x ELSE y
  BY DEF Min

LEMMA GreaterOfTwo ==
  ASSUME NEW x \in Int, NEW y \in Int
  PROVE  Max({x, y}) = IF x >= y THEN x ELSE y
  BY DEF Max

\* What a source is worth, and of some sources the most.
Worths == {50, 60, 65, 70, 80, 82, 85, 87, 88, 90, 92, 95}

LEMMA HighestWorth ==
  ASSUME NEW T \in SUBSET Worths, T # {}
  PROVE  Max(T) \in T /\ \A x \in T : x <= Max(T)
<1>1. \E x \in T : \A y \in T : x >= y
  <2>1. \A x \in T : x \in {50, 60, 65, 70, 80, 82, 85, 87, 88, 90, 92, 95}
    BY DEF Worths
  <2>2. CASE 95 \in T
    BY <2>1, <2>2
  <2>3. CASE 92 \in T /\ 95 \notin T
    BY <2>1, <2>3
  <2>4. CASE 90 \in T /\ T \cap {92, 95} = {}
    BY <2>1, <2>4
  <2>5. CASE 88 \in T /\ T \cap {90, 92, 95} = {}
    BY <2>1, <2>5
  <2>6. CASE 87 \in T /\ T \cap {88, 90, 92, 95} = {}
    BY <2>1, <2>6
  <2>7. CASE 85 \in T /\ T \cap {87, 88, 90, 92, 95} = {}
    BY <2>1, <2>7
  <2>8. CASE 82 \in T /\ T \cap {85, 87, 88, 90, 92, 95} = {}
    BY <2>1, <2>8
  <2>9. CASE 80 \in T /\ T \cap {82, 85, 87, 88, 90, 92, 95} = {}
    BY <2>1, <2>9
  <2>10. CASE 70 \in T /\ T \cap {80, 82, 85, 87, 88, 90, 92, 95} = {}
    BY <2>1, <2>10
  <2>11. CASE 65 \in T /\ T \cap {70, 80, 82, 85, 87, 88, 90, 92, 95} = {}
    BY <2>1, <2>11
  <2>12. CASE 60 \in T /\ T \cap {65, 70, 80, 82, 85, 87, 88, 90, 92, 95} = {}
    BY <2>1, <2>12
  <2>13. CASE T \cap {60, 65, 70, 80, 82, 85, 87, 88, 90, 92, 95} = {}
    BY <2>1, <2>13
  <2>14. QED
    BY <2>2, <2>3, <2>4, <2>5, <2>6, <2>7, <2>8, <2>9, <2>10, <2>11, <2>12, <2>13
<1>2. PICK top \in T : top = Max(T) /\ \A y \in T : top >= y
  BY <1>1 DEF Max
<1>3. \A x \in T : x \in Int
  BY DEF Worths
<1>4. QED
  BY <1>2, <1>3

LEMMA WorthOf == \A source : Reliability(source) \in Worths
  BY DEF Reliability, Worths

\* A further source takes nothing from what the best one is worth, and its
\* confirmation outweighs the oldest date.
LEMMA ConfirmationRaises ==
  ASSUME NEW e, NEW g, NEW source, source \notin e.sources, IsFiniteSet(e.sources),
         e.sources # {}, g.sources = e.sources \cup {source}
  PROVE  CalculateConfidence(g) >= CalculateConfidence(e)
<1> DEFINE worths(x) == {Reliability(s) : s \in x.sources}
<1>1. PICK m \in Worths, n \in Worths : m = Max(worths(e)) /\ n = Max(worths(g)) /\ m <= n
  <2>1. worths(e) \in SUBSET Worths /\ worths(g) \in SUBSET Worths
    BY WorthOf
  <2>2. worths(e) # {} /\ worths(e) \subseteq worths(g)
    OBVIOUS
  <2> HIDE DEF worths
  <2>3. Max(worths(e)) \in worths(e) /\ Max(worths(g)) \in worths(g)
    BY <2>1, <2>2, HighestWorth
  <2>4. Max(worths(e)) <= Max(worths(g))
    BY <2>1, <2>2, <2>3, HighestWorth
  <2>5. QED
    BY <2>1, <2>3, <2>4
<1>2. PICK c \in Nat : Cardinality(e.sources) = c /\ Cardinality(g.sources) = c + 1
  BY FS_AddElement, FS_CardinalityType, ZenonT(60)
<1>3. PICK a \in {-10, 0, 5}, b \in {-10, 0, 5} :
        a = FreshnessAdjustment(e) /\ b = FreshnessAdjustment(g)
  BY DEF FreshnessAdjustment
<1>4. PICK x \in Int, y \in Int :
        x = m + 15 * (c - 1) + a /\ y = n + 15 * (c + 1 - 1) + b
  BY <1>2, <1>3 DEF Worths
<1>5. x <= y
  <2>1. m \in Int /\ n \in Int
    BY DEF Worths
  <2>2. QED
    BY <1>1, <1>2, <1>3, <1>4, <2>1
<1>6. /\ CalculateConfidence(e) = Max({0, Min({100, x})})
      /\ CalculateConfidence(g) = Max({0, Min({100, y})})
  <2>1. \A w : CalculateConfidence(w) =
                Max({0, Min({100, Max(worths(w)) + 15 * (Cardinality(w.sources) - 1)
                                    + FreshnessAdjustment(w)})})
    BY DEF CalculateConfidence, ConfirmationBonus
  <2> HIDE DEF worths
  <2>2. /\ x = Max(worths(e)) + 15 * (Cardinality(e.sources) - 1) + FreshnessAdjustment(e)
        /\ y = Max(worths(g)) + 15 * (Cardinality(g.sources) - 1) + FreshnessAdjustment(g)
    BY <1>1, <1>2, <1>3, <1>4
  <2>3. QED
    BY <2>1, <2>2
<1>7. PICK u \in Int, v \in Int : u = Min({100, x}) /\ v = Min({100, y}) /\ u <= v
  BY <1>5, LesserOfTwo
<1>8. Max({0, u}) <= Max({0, v})
  <2>1. /\ Max({0, u}) = IF 0 >= u THEN 0 ELSE u
        /\ Max({0, v}) = IF 0 >= v THEN 0 ELSE v
    BY GreaterOfTwo
  <2>2. QED
    BY <1>7, <2>1
<1>9. QED
  BY <1>6, <1>7, <1>8

\* A step merges one finding, and only into the entity it names.
LEMMA MergeRaises ==
  EntitiesInv /\ [EntitiesNext]_entityVars
    => [\A k \in DOMAIN merged :
          merged'[k].sources # merged[k].sources =>
            CalculateConfidence(merged'[k]) >= CalculateConfidence(merged[k])]_entityVars
<1> SUFFICES ASSUME EntitiesInv, NEW f \in Findings, MergeFinding(f), NEW k \in DOMAIN merged,
                    merged'[k].sources # merged[k].sources
             PROVE  CalculateConfidence(merged'[k]) >= CalculateConfidence(merged[k])
  BY DEF EntitiesNext
<1>1. CASE Key(f) \notin DOMAIN merged
  <2>1. merged'[k] = merged[k]
    BY <1>1 DEF MergeFinding
  <2>2. QED
    BY <2>1
<1>2. CASE Key(f) \in DOMAIN merged
  <2>1. merged' = [merged EXCEPT ![Key(f)] = LaterSighting(merged[Key(f)], f)]
    BY <1>2 DEF MergeFinding
  <2>2. k = Key(f) /\ merged'[k] = LaterSighting(merged[k], f)
    BY <1>2, <2>1
  <2>3. PICK e, g : e = merged[k] /\ g = merged'[k]
    OBVIOUS
  <2>4. g.sources = e.sources \cup {f.source}
    <3>1. IsEntity(e)
      BY <2>3 DEF EntitiesInv
    <3>2. QED
      BY <2>2, <2>3, <3>1, LaterSources
  <2>5. IsFiniteSet(e.sources) /\ e.sources # {} /\ f.source \notin e.sources
    BY <2>3, <2>4 DEF EntitiesInv
  <2>6. QED
    BY <2>3, <2>4, <2>5, ConfirmationRaises
<1>3. QED
  BY <1>1, <1>2

\* A further source that reports an entity never lowers the confidence in it, for any
\* findings and any order of the sources.
THEOREM CorroborationCounts == EntitiesSpec => []EntitiesTypeOK /\ CorroborationNeverLowers
<1>1. QED
  BY EntitiesInitially, EntitiesInvStep, EntitiesTypes, MergeRaises, PTL
     DEF EntitiesSpec, CorroborationNeverLowers

-----------------------------------------------------------------------------
(* VulnScan                                                                *)

SiteForms == [at : Addresses, method : {"get", "post"}, inputs : SUBSET Names]

ScanTypes ==
  /\ site \in Sites /\ scanner \in Scanners
  /\ scanStage \in {"crawl", "urls", "forms", "headers", "finished"}
  /\ frontier \in Seq([at : Addresses, depth : 0..MaxDepth])
  /\ visited \subseteq Addresses /\ IsFiniteSet(visited) /\ Cardinality(visited) <= MaxPages
  /\ gathered \in [urls : SUBSET Addresses, forms : SUBSET SiteForms]
  /\ untested \subseteq Tests /\ answered \subseteq Tests /\ proven \subseteq Tests
  /\ \A e \in entries : e.verdict \in Verdicts

\* Some test other than t was answered and may have left an entry with this key.
Another(key, t) == \E u \in answered \ {t} : key \in Keys(u)

\* The test under way was taken from the untested ones for good, has confirmed
\* nothing so far, and finds an entry with its key only where another test left it
\* or, in the second pair of a blind one, where its own first pair did.
TrialInv ==
  trial # NoTrial =>
    /\ trial \in [test : Tests, payload : Nat, kept : Verdicts \cup {NoVerdict}, of : Nat]
    /\ trial.payload \in 1..PayloadsOf(trial.test) /\ trial.of \in 0..Tries + 2
    /\ trial.kept # "CONFIRMED"
    /\ trial.test \notin untested
    /\ \A e \in entries :
         \/ e.key \notin Keys(trial.test)
         \/ Another(e.key, trial.test)
         \/ /\ trial.test.kind = "blind" /\ trial.payload = 2
            /\ e.key = KeyOf(trial.test, 1)

\* The kinds of test that may have begun or wait by a stage.
KindsBy(stage) ==
  CASE stage = "crawl" -> {}
    [] stage = "urls" -> {"url", "blind", "graphql"}
    [] stage = "forms" -> {"url", "blind", "graphql", "form"}
    [] OTHER -> {"url", "blind", "graphql", "form", "header"}

Pending == untested \cup {t \in Tests : trial # NoTrial /\ t = trial.test}

\* No test is run again: what was answered does not wait, and the blind tests of an
\* address come after all of its others.
OrderInv ==
  /\ untested \cap answered = {}
  /\ \A t \in Pending \cup answered : t.kind \in KindsBy(scanStage)
  /\ \A u \in Pending, b \in Pending \cup answered :
       u.kind = "url" /\ b.kind = "blind" => u.at # b.at

\* EntriesAreJustified, of the test under way too, and that an entry comes from a
\* test that was answered.
JustInv ==
  /\ \A e \in entries : e.verdict = "CONFIRMED" => \E t \in proven : e.key \in Keys(t)
  /\ \A t \in answered : \E e \in entries : e.key \in Keys(t)
  /\ \A e \in entries : \E t \in answered : e.key \in Keys(t)
  /\ \A t \in proven :
       \/ \E e \in entries : e.key \in Keys(t) /\ e.verdict = "CONFIRMED"
       \/ \E u \in answered \ {t} : Keys(u) \cap Keys(t) # {}

ScanInv ==
  ScanTypes /\ TrialInv /\ OrderInv /\ JustInv /\ TrafficStaysInScope

\* What the sites are made of.
LEMMA SiteShape ==
  ASSUME NEW s \in Sites
  PROVE  /\ s.links \in [Addresses -> Seq(Addresses)]
         /\ s.params \in [Addresses -> SUBSET Names]
         /\ s.forms \in [Addresses -> SUBSET SiteForms]
  BY VulnScanAssumption DEF SiteForms

\* A request reaches hosts of the scope only.
LEMMA ContactsInScope ==
  ASSUME NEW a, NEW follow PROVE Contacts(a, follow) \subseteq InScope
  BY DEF Contacts, Allows

\* A test has at least one payload, and its keys are those of its payloads.
LEMMA PayloadsAreFew ==
  ASSUME NEW t PROVE PayloadsOf(t) \in 1..Tries + 2
<1>1. Tries \in Nat \ {0}
  BY VulnScanAssumption
<1>2. QED
  BY <1>1 DEF PayloadsOf

LEMMA OwnKey ==
  ASSUME NEW t, NEW n \in 0..Tries + 2 PROVE KeyOf(t, n) \in Keys(t)
  BY DEF Keys

\* The two pairs of a blind test have keys of their own.
LEMMA PairsDiffer ==
  ASSUME NEW t, t.kind = "blind" PROVE KeyOf(t, 1) # KeyOf(t, 2)
<1>1. Tries \in Nat
  BY VulnScanAssumption
<1>2. /\ KeyOf(t, 1) = <<t.at, t.param, Tries + 1>>
      /\ KeyOf(t, 2) = <<t.at, t.param, Tries + 2>>
  BY DEF KeyOf
<1>3. KeyOf(t, 1)[3] # KeyOf(t, 2)[3]
  BY <1>1, <1>2
<1>4. QED
  BY <1>3

\* The tests of a stage are tests, of the stage's kind.
UrlTestsAreTests == \A t \in UrlTests : t \in Tests /\ t.kind \in {"url", "graphql"}

LEMMA UrlTestsShape ==
  /\ site \in Sites
  /\ gathered \in [urls : SUBSET Addresses, forms : SUBSET SiteForms]
  => UrlTestsAreTests
<1> SUFFICES ASSUME site \in Sites, NEW t \in UrlTests,
                    gathered \in [urls : SUBSET Addresses, forms : SUBSET SiteForms]
             PROVE  t \in Tests /\ t.kind \in {"url", "graphql"}
  BY DEF UrlTestsAreTests
<1>1. /\ Base \in Addresses /\ GraphqlPaths \subseteq Addresses /\ {"", "id"} \subseteq Names
      /\ site.params \in [Addresses -> SUBSET Names]
  BY VulnScanAssumption, SiteShape
<1>2. CASE scanner = "graphql"
  <2>1. PICK a \in GraphqlPaths : t = Test("graphql", a, "post", "")
    BY <1>2 DEF UrlTests
  <2>2. QED
    BY <1>1, <2>1 DEF Test, Tests
<1>3. CASE scanner # "graphql"
  <2>1. PICK a \in {Base} \cup gathered.urls : t \in {Test("url", a, "get", p) : p \in ParamsOf(a)}
    BY <1>3 DEF UrlTests
  <2>2. PICK p \in ParamsOf(a) : t = Test("url", a, "get", p)
    BY <2>1
  <2>3. a \in Addresses
    BY <1>1, <2>1
  <2>4. p \in Names
    BY <1>1, <2>2, <2>3 DEF ParamsOf
  <2>5. QED
    BY <2>2, <2>3, <2>4 DEF Test, Tests
<1>4. QED
  BY <1>2, <1>3

LEMMA BlindTestsShape ==
  ASSUME site \in Sites, NEW a \in Addresses, NEW t \in BlindTests(a)
  PROVE  t \in Tests /\ t.kind = "blind" /\ t.at = a
<1>1. {"id"} \subseteq Names /\ site.params \in [Addresses -> SUBSET Names]
  BY VulnScanAssumption, SiteShape
<1>2. PICK p \in ParamsOf(a) : t = Test("blind", a, "get", p)
  BY DEF BlindTests
<1>3. p \in Names
  BY <1>1, <1>2 DEF ParamsOf
<1>4. QED
  BY <1>2, <1>3 DEF Test, Tests

LEMMA FormTestsShape ==
  ASSUME NEW forms \in SUBSET SiteForms, NEW t \in FormTests(forms)
  PROVE  t \in Tests /\ t.kind = "form"
<1>1. PICK f \in forms : t \in {Test("form", f.at, f.method, i) : i \in f.inputs}
  BY DEF FormTests
<1>2. PICK i \in f.inputs : t = Test("form", f.at, f.method, i)
  BY <1>1
<1>3. QED
  BY <1>2 DEF SiteForms, Test, Tests

LEMMA HeaderTestsShape ==
  ASSUME NEW t \in HeaderTests PROVE t \in Tests /\ t.kind = "header"
<1>1. PICK h \in Headers : t = Test("header", Base, "get", h)
  BY DEF HeaderTests
<1>2. Base \in Addresses /\ h \in Names
  BY <1>1, VulnScanAssumption
<1>3. QED
  BY <1>1, <1>2 DEF Test, Tests

\* A test that ends, or that goes on to its second pair, with an entry of verdict v,
\* keeps the entries justified if only real evidence is called confirmed and evidence
\* is never called otherwise.
LEMMA EntryIsJustified ==
  ASSUME JustInv, NEW t, NEW n \in 0..Tries + 2, NEW v,
         \A e \in entries : e.key = KeyOf(t, n) => Another(e.key, t),
         entries' = WithEntry(t, n, v), answered' = answered \cup {t},
         proven' = proven \/ (v = "CONFIRMED" /\ proven' = proven \cup {t}),
         v = "CONFIRMED" => t \in proven'
  PROVE  JustInv'
<1>1. \A e \in entries' :
        \/ e \in entries
        \/ e = [key |-> KeyOf(t, n), verdict |-> v]
  BY DEF WithEntry
<1>2. \E e \in entries' : e.key = KeyOf(t, n)
  <2> DEFINE new == [key |-> KeyOf(t, n), verdict |-> v]
  <2>1. (\E e \in entries : e.key = KeyOf(t, n)) \/ new \in entries'
    BY DEF WithEntry
  <2>2. new.key = KeyOf(t, n)
    OBVIOUS
  <2>3. entries \subseteq entries'
    BY DEF WithEntry
  <2>4. QED
    BY <2>1, <2>2, <2>3
<1>3. entries \subseteq entries' /\ proven \subseteq proven'
  BY DEF WithEntry
<1>4. KeyOf(t, n) \in Keys(t)
  BY OwnKey
<1>5. ASSUME NEW e \in entries', e.verdict = "CONFIRMED" PROVE \E u \in proven' : e.key \in Keys(u)
  <2>1. CASE e \in entries
    BY <1>3, <1>5, <2>1 DEF JustInv
  <2>2. CASE e = [key |-> KeyOf(t, n), verdict |-> v]
    BY <1>4, <1>5, <2>2
  <2>3. QED
    BY <1>1, <2>1, <2>2
<1>6. ASSUME NEW u \in answered' PROVE \E e \in entries' : e.key \in Keys(u)
  BY <1>2, <1>3, <1>4 DEF JustInv
<1>7. ASSUME NEW e \in entries' PROVE \E u \in answered' : e.key \in Keys(u)
  <2>1. CASE e \in entries
    BY <2>1 DEF JustInv
  <2>2. CASE e = [key |-> KeyOf(t, n), verdict |-> v]
    BY <1>4, <2>2
  <2>3. QED
    BY <1>1, <2>1, <2>2
<1>8. ASSUME NEW u \in proven'
      PROVE  \/ \E e \in entries' : e.key \in Keys(u) /\ e.verdict = "CONFIRMED"
             \/ \E w \in answered' \ {u} : Keys(w) \cap Keys(u) # {}
  <2>1. CASE u \in proven
    BY <1>3, <2>1 DEF JustInv
  <2>2. CASE u = t /\ v = "CONFIRMED" /\ \E e \in entries : e.key = KeyOf(t, n)
    <3>1. PICK w \in answered \ {t} : KeyOf(t, n) \in Keys(w)
      BY <2>2 DEF Another
    <3>2. Keys(w) \cap Keys(t) # {}
      BY <1>4, <3>1
    <3>3. QED
      BY <2>2, <3>1, <3>2
  <2>3. CASE u = t /\ v = "CONFIRMED" /\ ~\E e \in entries : e.key = KeyOf(t, n)
    <3> DEFINE new == [key |-> KeyOf(t, n), verdict |-> v]
    <3>1. new \in entries'
      BY <2>3 DEF WithEntry
    <3>2. new.key \in Keys(u) /\ new.verdict = "CONFIRMED"
      BY <1>4, <2>3
    <3>3. QED
      BY <3>1, <3>2
  <2>4. QED
    BY <2>1, <2>2, <2>3
<1>9. QED
  BY <1>5, <1>6, <1>7, <1>8 DEF JustInv

\* The verdicts of an entry.
LEMMA EntryVerdict ==
  ASSUME \A e \in entries : e.verdict \in Verdicts, NEW t, NEW n, NEW v \in Verdicts,
         entries' = WithEntry(t, n, v)
  PROVE  \A e \in entries' : e.verdict \in Verdicts
  BY DEF WithEntry

\* When a test is over, no other is run again.
LEMMA OrderAfterTest ==
  ASSUME ScanTypes, OrderInv, trial # NoTrial, trial.test \in Tests,
         trial.test \notin untested, NEW v, untested' = Remaining(trial.test, v),
         trial' = NoTrial, answered' \subseteq answered \cup {trial.test},
         scanStage' = scanStage
  PROVE  OrderInv' /\ untested' \subseteq Tests
<1> DEFINE t == trial.test
<1>1. t \in Pending
  BY DEF Pending
<1>2. Pending' = untested'
  BY DEF Pending
<1>3. untested \subseteq Pending
  BY DEF Pending
<1>4. CASE untested' \subseteq untested
  <2>1. untested' \cap answered' = {}
    BY <1>4 DEF OrderInv
  <2>2. ASSUME NEW u \in untested' \cup answered' PROVE u.kind \in KindsBy(scanStage)'
    BY <1>1, <1>3, <1>4 DEF OrderInv
  <2>3. ASSUME NEW u \in untested', NEW b \in untested' \cup answered',
               u.kind = "url", b.kind = "blind"
        PROVE  u.at # b.at
    BY <1>1, <1>3, <1>4, <2>3 DEF OrderInv
  <2>4. untested' \subseteq Tests
    BY <1>4 DEF ScanTypes
  <2>5. QED
    BY <1>2, <2>1, <2>2, <2>3, <2>4 DEF OrderInv
<1>5. CASE /\ t.kind = "url" /\ untested' = untested \cup BlindTests(t.at)
           /\ ~\E u \in untested : u.kind = "url" /\ u.at = t.at
  <2>1. t.at \in Addresses
    BY DEF Tests
  <2>2. \A b \in BlindTests(t.at) : b \in Tests /\ b.kind = "blind" /\ b.at = t.at
    BY <2>1, BlindTestsShape DEF ScanTypes
  <2>3. \A b \in answered : b.kind = "blind" => b.at # t.at
    BY <1>1, <1>5 DEF OrderInv
  <2>4. untested' \cap answered' = {}
    <3>1. ASSUME NEW b \in BlindTests(t.at) PROVE b \notin answered /\ b # t
      BY <1>5, <2>2, <2>3
    <3>2. QED
      BY <1>5, <3>1 DEF OrderInv
  <2>5. "blind" \in KindsBy(scanStage)
    BY <1>1, <1>5 DEF OrderInv, KindsBy, ScanTypes
  <2>6. ASSUME NEW u \in untested' \cup answered' PROVE u.kind \in KindsBy(scanStage)'
    BY <1>1, <1>3, <1>5, <2>2, <2>5 DEF OrderInv
  <2>7. ASSUME NEW u \in untested', NEW b \in untested' \cup answered',
               u.kind = "url", b.kind = "blind"
        PROVE  u.at # b.at
    <3>1. u \in untested /\ u.at # t.at
      BY <1>5, <2>2, <2>7
    <3>2. CASE b \in BlindTests(t.at)
      BY <2>2, <3>1, <3>2
    <3>3. CASE b \in untested \cup answered
      BY <1>3, <2>7, <3>1, <3>3 DEF OrderInv
    <3>4. b # t
      BY <1>5, <2>7
    <3>5. QED
      BY <1>5, <3>2, <3>3, <3>4
  <2>8. untested' \subseteq Tests
    BY <1>5, <2>2 DEF ScanTypes
  <2>9. QED
    BY <1>2, <2>4, <2>6, <2>7, <2>8 DEF OrderInv
<1>6. QED
  <2>1. Remaining(t, v) \subseteq untested
        \/ /\ t.kind = "url" /\ Remaining(t, v) = untested \cup BlindTests(t.at)
           /\ ~\E u \in untested : u.kind = "url" /\ u.at = t.at
    BY DEF Remaining
  <2>2. QED
    BY <1>4, <1>5, <2>1

\* An answer is confirmed exactly when it is the evidence that is asked for.
LEMMA ConfirmedIsEvidence ==
  ASSUME NEW r \in Answers
  PROVE  /\ Classify(r) = "CONFIRMED" <=> IsEvidence(r)
         /\ Classify(r) \in Verdicts
  BY DEF Classify, Gate, Through, ClassifyReflection, ClassifyGraphql, IsEvidence,
         ExpectedStatus, Verdicts, Answers

\* What a test that ends leaves behind.
LEMMA EndKeepsInv ==
  ASSUME ScanInv, trial # NoTrial, trial.test.kind # "blind",
         NEW n \in 0..Tries + 2, NEW v \in Verdicts \cup {NoVerdict},
         EndsWith(trial.test, n, v), Frame, TrafficStaysInScope',
         proven' = proven \/ (v = "CONFIRMED" /\ proven' = proven \cup {trial.test}),
         v = "CONFIRMED" => trial.test \in proven'
  PROVE  ScanInv'
<1> DEFINE t == trial.test
<1>1. t \in Tests /\ t \notin untested
  BY DEF ScanInv, TrialInv
<1>2. /\ trial' = NoTrial /\ untested' = Remaining(t, v)
      /\ entries' = IF v = NoVerdict THEN entries ELSE WithEntry(t, n, v)
      /\ answered' = IF v = NoVerdict THEN answered ELSE answered \cup {t}
  BY DEF EndsWith
<1>3. OrderInv' /\ untested' \subseteq Tests
  <2>1. answered' \subseteq answered \cup {t} /\ scanStage' = scanStage
    BY <1>2 DEF Frame
  <2>2. QED
    BY <1>1, <1>2, <2>1, OrderAfterTest DEF ScanInv
<1>4. JustInv' /\ \A e \in entries' : e.verdict \in Verdicts
  <2>1. CASE v = NoVerdict
    <3>1. entries' = entries /\ answered' = answered /\ proven' = proven
      BY <1>2, <2>1 DEF NoVerdict
    <3>2. QED
      BY <3>1 DEF ScanInv, JustInv, ScanTypes
  <2>2. CASE v # NoVerdict
    <3>1. \A e \in entries : e.key = KeyOf(t, n) => Another(e.key, t)
      BY OwnKey DEF ScanInv, TrialInv
    <3>2. entries' = WithEntry(t, n, v) /\ answered' = answered \cup {t}
      BY <1>2, <2>2
    <3>3. JustInv'
      BY <3>1, <3>2, EntryIsJustified DEF ScanInv
    <3>4. QED
      BY <2>2, <3>2, <3>3, EntryVerdict DEF ScanInv, ScanTypes
  <2>3. QED
    BY <2>1, <2>2
<1>5. TrialInv'
  BY <1>2 DEF TrialInv
<1>6. ScanTypes'
  <2>1. answered' \subseteq Tests /\ proven' \subseteq Tests
    BY <1>1, <1>2 DEF ScanInv, ScanTypes
  <2>2. QED
    BY <1>3, <1>4, <2>1 DEF ScanInv, ScanTypes, Frame
<1>7. QED
  BY <1>3, <1>4, <1>5, <1>6 DEF ScanInv

\* A test that goes on to its next payload.
LEMMA GoesOnKeepsInv ==
  ASSUME ScanInv, trial # NoTrial, trial.test.kind # "blind",
         trial.payload # PayloadsOf(trial.test),
         NEW n \in 0..Tries + 2, NEW v \in (Verdicts \cup {NoVerdict}) \ {"CONFIRMED"},
         trial' = [test |-> trial.test, payload |-> trial.payload + 1, kept |-> v, of |-> n],
         UNCHANGED <<entries, answered, untested, proven>>, Frame, TrafficStaysInScope'
  PROVE  ScanInv'
<1>0. PICK t : t = trial.test
  OBVIOUS
<1>1. /\ t \in Tests /\ t \notin untested /\ trial.payload \in 1..PayloadsOf(t)
      /\ \A e \in entries : e.key \notin Keys(t) \/ Another(e.key, t)
  BY <1>0 DEF ScanInv, TrialInv
<1>2. trial.payload + 1 \in 1..PayloadsOf(t) /\ trial.payload + 1 \in Nat
  BY <1>0, <1>1, PayloadsAreFew
<1>3. PayloadsOf(t)' = PayloadsOf(t)
  BY DEF Frame, PayloadsOf
<1>4. trial'.test = t
  BY <1>0
<1>5. TrialInv'
  <2>1. trial' \in [test : Tests, payload : Nat, kept : Verdicts \cup {NoVerdict}, of : Nat]
    BY <1>0, <1>1, <1>2
  <2>2. trial'.payload \in 1..PayloadsOf(t)' /\ trial'.of \in 0..Tries + 2
    BY <1>2, <1>3
  <2>3. trial'.kept # "CONFIRMED"
    OBVIOUS
  <2>4. t \notin untested'
    BY <1>1
  <2>5. \A e \in entries' : e.key \notin Keys(t) \/ Another(e.key, t)'
    BY <1>1 DEF Another
  <2>6. QED
    BY <1>4, <2>1, <2>2, <2>3, <2>4, <2>5 DEF TrialInv
<1>6. Pending' \subseteq Pending
  BY <1>0, <1>4 DEF Pending
<1>7. OrderInv'
  BY <1>6 DEF ScanInv, OrderInv, Frame
<1>8. QED
  BY <1>5, <1>7 DEF ScanInv, ScanTypes, JustInv, Frame

\* The crawl concerns no test.
LEMMA CrawlKeepsInv ==
  ASSUME ScanInv, Unchanging, scanStage' = scanStage, ScanTypes', TrafficStaysInScope'
  PROVE  ScanInv'
<1>1. TrialInv'
  BY DEF ScanInv, Unchanging, TrialInv, Another, PayloadsOf
<1>2. OrderInv'
  BY DEF ScanInv, Unchanging, OrderInv, Pending
<1>3. JustInv'
  BY DEF ScanInv, Unchanging, JustInv
<1>4. QED
  BY <1>1, <1>2, <1>3 DEF ScanInv

LEMMA ScanInitially == ScanInit => ScanInv
<1> SUFFICES ASSUME ScanInit PROVE ScanInv
  OBVIOUS
<1>1. ScanTypes
  <2>1. Base \in Addresses /\ MaxDepth \in Nat /\ MaxPages \in Nat \ {0}
    BY VulnScanAssumption
  <2>2. Base \in Addresses /\ 0 \in 0..MaxDepth /\ MaxPages \in Nat \ {0}
    BY <2>1
  <2>3. [at |-> Base, depth |-> 0] \in [at : Addresses, depth : 0..MaxDepth]
    BY <2>2
  <2>4. frontier \in Seq([at : Addresses, depth : 0..MaxDepth])
    BY <2>3 DEF ScanInit
  <2>5. IsFiniteSet(visited) /\ Cardinality(visited) <= MaxPages
    BY <2>2, FS_EmptySet DEF ScanInit
  <2>6. gathered \in [urls : SUBSET Addresses, forms : SUBSET SiteForms]
    BY DEF ScanInit
  <2>7. QED
    BY <2>4, <2>5, <2>6 DEF ScanInit, ScanTypes
<1>2. TrialInv /\ OrderInv /\ JustInv /\ TrafficStaysInScope
  BY DEF ScanInit, TrialInv, OrderInv, Pending, JustInv, TrafficStaysInScope
<1>3. QED
  BY <1>1, <1>2 DEF ScanInv

\* The head of the queue is an address and its depth, and the rest is a queue.
LEMMA FrontierHead ==
  ASSUME ScanTypes, frontier # <<>>
  PROVE  /\ Head(frontier).at \in Addresses /\ Head(frontier).depth \in 0..MaxDepth
         /\ Tail(frontier) \in Seq([at : Addresses, depth : 0..MaxDepth])
<1>1. frontier \in Seq([at : Addresses, depth : 0..MaxDepth])
  BY DEF ScanTypes
<1>2. /\ Head(frontier) \in [at : Addresses, depth : 0..MaxDepth]
      /\ Tail(frontier) \in Seq([at : Addresses, depth : 0..MaxDepth])
  BY <1>1, HeadTailProperties
<1>3. QED
  BY <1>2

\* One page more is at most as many as may be seen.
LEMMA VisitedGrows ==
  ASSUME ScanTypes, CrawlGoesOn, NEW p \in Addresses
  PROVE  /\ visited \cup {p} \subseteq Addresses /\ IsFiniteSet(visited \cup {p})
         /\ Cardinality(visited \cup {p}) <= MaxPages
<1>1. /\ IsFiniteSet(visited) /\ visited \subseteq Addresses
      /\ Cardinality(visited) < MaxPages /\ MaxPages \in Nat
  BY VulnScanAssumption DEF ScanTypes, CrawlGoesOn
<1>2. IsFiniteSet(visited \cup {p}) /\ Cardinality(visited) \in Nat
      /\ Cardinality(visited \cup {p}) \in {Cardinality(visited), Cardinality(visited) + 1}
  BY <1>1, FS_AddElement, FS_CardinalityType
<1>3. QED
  BY <1>1, <1>2

LEMMA Elements ==
  ASSUME NEW S, NEW s \in Seq(S) PROVE \A i \in DOMAIN s : s[i] \in S
  OBVIOUS

LEMMA AListOf ==
  ASSUME NEW S, NEW n \in Nat, NEW g \in [1..n -> S] PROVE g \in Seq(S)
  OBVIOUS

\* What a page queues, in its order.
LEMMA QueuedShape ==
  ASSUME ScanTypes, NEW p \in Addresses, NEW d \in 0..MaxDepth,
         NEW f \in InOrder(Queued(p, d)),
         NEW rest \in Seq([at : Addresses, depth : 0..MaxDepth])
  PROVE  rest \o [i \in DOMAIN f |-> [at |-> site.links[p][f[i]], depth |-> d + 1]]
           \in Seq([at : Addresses, depth : 0..MaxDepth])
<1> DEFINE links == site.links[p]
           places == Queued(p, d)
           queued == [i \in DOMAIN f |-> [at |-> links[f[i]], depth |-> d + 1]]
<1>1. links \in Seq(Addresses)
  BY SiteShape DEF ScanTypes
<1>2. places \subseteq 1..Len(links) /\ (places # {} => d < MaxDepth)
  BY <1>1 DEF Queued
<1>3. Cardinality(places) \in Nat
  <2>1. IsFiniteSet(1..Len(links))
    BY <1>1, FS_Interval
  <2>2. QED
    BY <1>2, <2>1, FS_Subset, FS_CardinalityType
<1>4. f \in [1..Cardinality(places) -> places]
  BY DEF InOrder
<1>5. ASSUME NEW i \in 1..Cardinality(places)
      PROVE  [at |-> links[f[i]], depth |-> d + 1] \in [at : Addresses, depth : 0..MaxDepth]
  <2>1. f[i] \in places /\ f[i] \in 1..Len(links)
    BY <1>2, <1>4
  <2>2. links[f[i]] \in Addresses
    BY <1>1, <2>1
  <2>3. d + 1 \in 0..MaxDepth
    <3>1. MaxDepth \in Nat
      BY VulnScanAssumption
    <3>2. QED
      BY <1>2, <2>1, <3>1
  <2>4. QED
    BY <2>2, <2>3
<1>6. queued \in [1..Cardinality(places) -> [at : Addresses, depth : 0..MaxDepth]]
  <2>1. DOMAIN f = 1..Cardinality(places)
    BY <1>4
  <2>2. QED
    BY <1>5, <2>1
<1>7. queued \in Seq([at : Addresses, depth : 0..MaxDepth])
  BY <1>3, <1>6, AListOf, Zenon
<1> HIDE DEF queued
<1>8. rest \o queued \in Seq([at : Addresses, depth : 0..MaxDepth])
  BY <1>7
<1>9. QED
  BY <1>8 DEF queued

\* Every step of the crawl keeps what is known of the scan.
LEMMA CrawlStep ==
  ASSUME ScanInv, CrawlAgain \/ CrawlNothing \/ CrawlPage PROVE ScanInv'
<1>1. ScanTypes /\ TrafficStaysInScope
  BY DEF ScanInv
<1>2. CASE CrawlAgain
  <2>1. Unchanging /\ frontier # <<>> /\ frontier' = Tail(frontier)
        /\ UNCHANGED <<scanStage, visited, gathered, contacted>>
    BY <1>2 DEF CrawlAgain, CrawlGoesOn
  <2>2. frontier' \in Seq([at : Addresses, depth : 0..MaxDepth])
    BY <1>1, <2>1, FrontierHead
  <2>3. ScanTypes' /\ TrafficStaysInScope'
    BY <1>1, <2>1, <2>2 DEF ScanTypes, TrafficStaysInScope, Unchanging
  <2>4. QED
    BY <2>1, <2>3, CrawlKeepsInv
<1> DEFINE p == Head(frontier).at
           d == Head(frontier).depth
<1>3. CASE CrawlNothing
  <2>1. /\ Unchanging /\ frontier # <<>> /\ frontier' = Tail(frontier)
        /\ UNCHANGED <<scanStage, gathered>> /\ visited' = visited \cup {p}
        /\ contacted' = contacted \/ contacted' = contacted \cup Contacts(p, TRUE)
    BY <1>3 DEF CrawlNothing, CrawlGoesOn
  <2>2. frontier' \in Seq([at : Addresses, depth : 0..MaxDepth]) /\ p \in Addresses
    BY <1>1, <2>1, FrontierHead
  <2>3. /\ visited' \subseteq Addresses /\ IsFiniteSet(visited')
        /\ Cardinality(visited') <= MaxPages
    BY <1>1, <1>3, <2>1, <2>2, VisitedGrows DEF CrawlNothing
  <2>4. TrafficStaysInScope'
    BY <1>1, <2>1, ContactsInScope DEF TrafficStaysInScope
  <2>5. ScanTypes'
    BY <1>1, <2>1, <2>2, <2>3 DEF ScanTypes, Unchanging
  <2>6. QED
    BY <2>1, <2>4, <2>5, CrawlKeepsInv
<1>4. CASE CrawlPage
  <2>1. /\ Unchanging /\ frontier # <<>> /\ scanStage' = scanStage
        /\ visited' = visited \cup {p}
        /\ contacted' = contacted \cup Contacts(p, TRUE)
        /\ gathered' = [urls |-> gathered.urls \cup {a \in {p} : site.params[a] # {}},
                        forms |-> gathered.forms \cup site.forms[p]]
    BY <1>4 DEF CrawlPage, CrawlGoesOn
  <2>2. PICK f \in InOrder(Queued(p, d)) :
          frontier' = Tail(frontier)
            \o [i \in DOMAIN f |-> [at |-> site.links[p][f[i]], depth |-> d + 1]]
    BY <1>4 DEF CrawlPage
  <2>3. /\ p \in Addresses /\ d \in 0..MaxDepth
        /\ Tail(frontier) \in Seq([at : Addresses, depth : 0..MaxDepth])
    BY <1>1, <2>1, FrontierHead
  <2>4. frontier' \in Seq([at : Addresses, depth : 0..MaxDepth])
    BY <1>1, <2>2, <2>3, QueuedShape
  <2>5. /\ visited' \subseteq Addresses /\ IsFiniteSet(visited')
        /\ Cardinality(visited') <= MaxPages
    BY <1>1, <1>4, <2>1, <2>3, VisitedGrows DEF CrawlPage
  <2>6. gathered' \in [urls : SUBSET Addresses, forms : SUBSET SiteForms]
    <3>1. site.forms[p] \subseteq SiteForms
      BY <1>1, <2>3, SiteShape DEF ScanTypes
    <3>2. /\ gathered.urls \cup {a \in {p} : site.params[a] # {}} \subseteq Addresses
          /\ gathered.forms \cup site.forms[p] \subseteq SiteForms
      BY <1>1, <2>3, <3>1 DEF ScanTypes
    <3>3. QED
      BY <2>1, <3>2
  <2>7. TrafficStaysInScope'
    BY <1>1, <2>1, ContactsInScope DEF TrafficStaysInScope
  <2>8. ScanTypes'
    BY <1>1, <2>1, <2>4, <2>5, <2>6 DEF ScanTypes, Unchanging
  <2>9. QED
    BY <2>1, <2>7, <2>8, CrawlKeepsInv
<1>5. QED
  BY <1>2, <1>3, <1>4

\* The tests of a stage are new: none of their kind was answered, and no other waits.
LEMMA NewTests ==
  ASSUME trial' = NoTrial, answered' = answered, untested' \subseteq Tests,
         answered \subseteq Tests,
         \A t \in answered' : t.kind \in KindsBy(scanStage'),
         \A t \in untested' : t.kind \in KindsBy(scanStage') /\ t.kind # "blind",
         \A t \in untested', u \in answered : t.kind # u.kind,
         \/ \A t \in untested' : t.kind # "url"
         \/ answered = {}
  PROVE  OrderInv'
<1>1. Pending' = untested'
  BY DEF Pending
<1>2. untested' \cap answered' = {}
  OBVIOUS
<1>3. QED
  BY <1>1, <1>2 DEF OrderInv

LEMMA StageStep ==
  ASSUME ScanInv, CrawlEnds \/ NextStage \/ StartTest PROVE ScanInv'
<1>1. ScanTypes /\ TrafficStaysInScope /\ OrderInv /\ JustInv /\ TrialInv
  BY DEF ScanInv
<1>2. CASE CrawlEnds
  <2>1. /\ scanStage = "crawl" /\ scanStage' = "urls" /\ frontier' = <<>> /\ visited' = {}
        /\ gathered' = gathered \/ gathered' = [urls |-> {}, forms |-> {}]
        /\ UNCHANGED <<site, scanner, trial, entries, contacted, answered, proven>>
        /\ untested' = UrlTests'
    BY <1>2 DEF CrawlEnds
  <2>2. answered = {} /\ trial = NoTrial
    <3>1. KindsBy(scanStage) = {}
      BY <2>1 DEF KindsBy
    <3>2. Pending = {} /\ answered = {}
      BY <1>1, <3>1 DEF OrderInv
    <3>3. QED
      BY <1>1, <3>2 DEF Pending, TrialInv
  <2>3. gathered' \in [urls : SUBSET Addresses, forms : SUBSET SiteForms]
    BY <1>1, <2>1 DEF ScanTypes
  <2>4. (site \in Sites)'
    BY <1>1, <2>1 DEF ScanTypes
  <2>5. \A t \in UrlTests' : t \in Tests /\ t.kind \in {"url", "graphql"}
    <3>1. (/\ site \in Sites
           /\ gathered \in [urls : SUBSET Addresses, forms : SUBSET SiteForms]
           => UrlTestsAreTests)'
      BY UrlTestsShape, PTL
    <3>2. UrlTestsAreTests'
      BY <2>3, <2>4, <3>1
    <3>3. QED
      BY <3>2 DEF UrlTestsAreTests
  <2>6. OrderInv'
    BY <2>1, <2>2, <2>5, NewTests DEF KindsBy
  <2>7. TrialInv' /\ JustInv' /\ TrafficStaysInScope'
    BY <1>1, <2>1, <2>2 DEF TrialInv, JustInv, TrafficStaysInScope
  <2>8. ScanTypes'
    <3>1. frontier' \in Seq([at : Addresses, depth : 0..MaxDepth])
      BY <2>1
    <3>2. IsFiniteSet(visited') /\ Cardinality(visited') <= MaxPages
      <4>1. MaxPages \in Nat
        BY VulnScanAssumption
      <4>2. QED
        BY <2>1, <4>1, FS_EmptySet
    <3>3. QED
      BY <1>1, <2>1, <2>3, <2>5, <3>1, <3>2 DEF ScanTypes
  <2>9. QED
    BY <2>6, <2>7, <2>8 DEF ScanInv
<1>3. CASE NextStage
  <2>1. /\ trial = NoTrial /\ untested = {}
        /\ UNCHANGED <<site, scanner, frontier, visited, gathered, trial, entries,
                       answered, proven>>
    BY <1>3 DEF NextStage
  <2>2. \/ /\ scanStage = "urls" /\ scanStage' = "forms"
           /\ untested' = {} \/ \E forms \in SUBSET SiteForms : untested' = FormTests(forms)
        \/ scanStage = "forms" /\ scanStage' = "headers" /\ untested' = HeaderTests
        \/ scanStage \in {"urls", "headers"} /\ scanStage' = "finished" /\ untested' = {}
    <3>1. gathered.forms \in SUBSET SiteForms
      BY <1>1 DEF ScanTypes
    <3>2. site.forms[Base] \in SUBSET SiteForms
      BY <1>1, SiteShape, VulnScanAssumption DEF ScanTypes
    <3>3. QED
      BY <1>3, <2>1, <3>1, <3>2 DEF NextStage
  <2>3. contacted' = contacted \/ contacted' = contacted \cup Contacts(Base, TRUE)
    BY <1>3 DEF NextStage
  <2>4. \A t \in answered : t.kind \in KindsBy(scanStage)
    BY <1>1 DEF OrderInv
  <2>5. OrderInv' /\ untested' \subseteq Tests
    <3>1. answered \subseteq Tests /\ trial' = NoTrial /\ answered' = answered
      BY <1>1, <2>1 DEF ScanTypes
    <3>2. CASE untested' = {}
      <4>1. \A t \in answered' : t.kind \in KindsBy(scanStage')
        BY <2>2, <2>4, <3>1 DEF KindsBy
      <4>2. QED
        BY <3>1, <3>2, <4>1, NewTests
    <3>3. ASSUME scanStage = "urls", scanStage' = "forms",
                 NEW forms \in SUBSET SiteForms, untested' = FormTests(forms)
          PROVE  OrderInv' /\ untested' \subseteq Tests
      <4>1. \A t \in untested' : t \in Tests /\ t.kind = "form"
        BY <3>3, FormTestsShape
      <4>2. \A t \in answered : t.kind \in {"url", "blind", "graphql"}
        BY <2>4, <3>3 DEF KindsBy
      <4>3. KindsBy(scanStage') = {"url", "blind", "graphql", "form"}
        BY <3>3 DEF KindsBy
      <4>4. QED
        BY <3>1, <4>1, <4>2, <4>3, NewTests
    <3>4. CASE scanStage = "forms" /\ scanStage' = "headers" /\ untested' = HeaderTests
      <4>1. \A t \in untested' : t \in Tests /\ t.kind = "header"
        BY <3>4, HeaderTestsShape
      <4>2. \A t \in answered : t.kind \in {"url", "blind", "graphql", "form"}
        BY <2>4, <3>4 DEF KindsBy
      <4>3. KindsBy(scanStage') = {"url", "blind", "graphql", "form", "header"}
        BY <3>4 DEF KindsBy
      <4>4. QED
        BY <3>1, <4>1, <4>2, <4>3, NewTests
    <3>5. QED
      BY <2>2, <3>2, <3>3, <3>4
  <2>6. TrialInv' /\ JustInv'
    BY <1>1, <2>1 DEF TrialInv, JustInv
  <2>7. TrafficStaysInScope'
    BY <1>1, <2>3, ContactsInScope DEF TrafficStaysInScope
  <2>8. ScanTypes'
    BY <1>1, <2>1, <2>2, <2>5 DEF ScanTypes
  <2>9. QED
    BY <2>5, <2>6, <2>7, <2>8 DEF ScanInv
<1>4. CASE StartTest
  <2>1. PICK t \in untested :
          /\ untested' = untested \ {t}
          /\ trial' = [test |-> t, payload |-> 1, kept |-> NoVerdict, of |-> 1]
    BY <1>4 DEF StartTest
  <2>2. /\ trial = NoTrial
        /\ UNCHANGED <<site, scanner, scanStage, frontier, visited, gathered, entries,
                       contacted, answered, proven>>
    BY <1>4 DEF StartTest
  <2>3. t \in Tests /\ t \notin answered
    BY <1>1 DEF ScanTypes, OrderInv
  <2>4. trial'.test = t
    BY <2>1
  <2>5. TrialInv'
    <3>1. trial' \in [test : Tests, payload : Nat, kept : Verdicts \cup {NoVerdict}, of : Nat]
      BY <2>1, <2>3
    <3>2. trial'.payload \in 1..PayloadsOf(t)'
      <4>1. PayloadsOf(t)' = PayloadsOf(t)
        BY <2>2 DEF PayloadsOf
      <4>2. 1 \in 1..PayloadsOf(t)
        BY PayloadsAreFew
      <4>3. QED
        BY <2>1, <4>1, <4>2
    <3>3. trial'.of \in 0..Tries + 2
      <4>1. Tries \in Nat
        BY VulnScanAssumption
      <4>2. QED
        BY <2>1, <4>1
    <3>4. trial'.kept # "CONFIRMED" /\ t \notin untested'
      BY <2>1 DEF NoVerdict
    <3>5. \A e \in entries' : e.key \notin Keys(t) \/ Another(e.key, t)'
      <4>1. \A e \in entries : \E u \in answered : e.key \in Keys(u)
        BY <1>1 DEF JustInv
      <4>2. QED
        BY <2>2, <2>3, <4>1 DEF Another
    <3>6. QED
      BY <2>4, <3>1, <3>2, <3>3, <3>4, <3>5 DEF TrialInv
  <2>6. Pending' \subseteq Pending
    BY <2>1, <2>4 DEF Pending
  <2>7. OrderInv'
    BY <1>1, <2>1, <2>2, <2>6 DEF OrderInv
  <2>8. ScanTypes' /\ JustInv' /\ TrafficStaysInScope'
    BY <1>1, <2>1, <2>2 DEF ScanTypes, JustInv, TrafficStaysInScope
  <2>9. QED
    BY <2>5, <2>7, <2>8 DEF ScanInv
<1>5. QED
  BY <1>2, <1>3, <1>4

\* A request that is sent for a test reaches hosts of the scope only.
LEMMA SendsInScope ==
  ASSUME TrafficStaysInScope, NEW a, NEW follow,
         contacted' = contacted \cup Contacts(a, follow)
  PROVE  TrafficStaysInScope'
  BY ContactsInScope DEF TrafficStaysInScope

LEMMA PayloadStep ==
  ASSUME ScanInv, TryPayload \/ PayloadFails PROVE ScanInv'
<1>1. /\ TrialInv /\ TrafficStaysInScope /\ trial # NoTrial
      /\ trial.test.kind # "blind"
  BY DEF ScanInv, TryPayload, PayloadFails, Signature
<1>2. /\ trial \in [test : Tests, payload : Nat, kept : Verdicts \cup {NoVerdict}, of : Nat]
      /\ trial.payload \in 1..PayloadsOf(trial.test) /\ trial.of \in 0..Tries + 2
      /\ trial.kept # "CONFIRMED"
  BY <1>1 DEF TrialInv
<1>3. trial.payload \in 0..Tries + 2
  <2>1. Tries \in Nat /\ PayloadsOf(trial.test) \in 1..Tries + 2
    BY PayloadsAreFew, VulnScanAssumption
  <2>2. QED
    BY <1>2, <2>1
<1>4. Frame /\ TrafficStaysInScope'
  BY <1>1, SendsInScope DEF TryPayload, PayloadFails, Sends
<1>5. CASE TryPayload
  <2>1. PICK r \in Answers :
          /\ AfterPayload(Classify(r), trial.payload)
          /\ proven' = IF IsEvidence(r) THEN proven \cup {trial.test} ELSE proven
    BY <1>5 DEF TryPayload
  <2>2. PICK v \in Verdicts : v = Classify(r)
    BY ConfirmedIsEvidence
  <2>3. /\ AfterPayload(v, trial.payload)
        /\ proven' = IF v = "CONFIRMED" THEN proven \cup {trial.test} ELSE proven
    BY <2>1, <2>2, ConfirmedIsEvidence
  <2>4. CASE Decisive(v) \/ trial.payload = PayloadsOf(trial.test)
    <3>1. EndsWith(trial.test, trial.payload, v)
      BY <2>3, <2>4 DEF AfterPayload
    <3>2. QED
      BY <1>1, <1>3, <1>4, <2>3, <3>1, EndKeepsInv
  <2>5. CASE ~(Decisive(v) \/ trial.payload = PayloadsOf(trial.test))
    <3>1. /\ trial' = [test |-> trial.test, payload |-> trial.payload + 1,
                       kept |-> v, of |-> trial.payload]
          /\ UNCHANGED <<entries, answered, untested>>
      BY <2>3, <2>5 DEF AfterPayload
    <3>2. v # "CONFIRMED"
      BY <2>5 DEF Decisive
    <3>3. proven' = proven /\ v \in (Verdicts \cup {NoVerdict}) \ {"CONFIRMED"}
      BY <2>3, <3>2
    <3>4. QED
      BY <1>1, <1>3, <1>4, <2>5, <3>1, <3>3, GoesOnKeepsInv
  <2>6. QED
    BY <2>4, <2>5
<1>6. CASE PayloadFails
  <2>1. proven' = proven
    BY <1>6 DEF PayloadFails
  <2>2. CASE trial.payload = PayloadsOf(trial.test)
    <3>1. EndsWith(trial.test, trial.of, trial.kept)
      BY <1>6, <2>2 DEF PayloadFails
    <3>2. QED
      BY <1>1, <1>2, <1>4, <2>1, <3>1, EndKeepsInv
  <2>3. CASE trial.payload # PayloadsOf(trial.test)
    <3>1. /\ trial' = [trial EXCEPT !.payload = trial.payload + 1]
          /\ UNCHANGED <<entries, answered, untested>>
      BY <1>6, <2>3 DEF PayloadFails
    <3>2. trial' = [test |-> trial.test, payload |-> trial.payload + 1,
                    kept |-> trial.kept, of |-> trial.of]
      BY <1>2, <3>1
    <3>3. QED
      BY <1>1, <1>2, <1>4, <2>1, <2>3, <3>1, <3>2, GoesOnKeepsInv
  <2>4. QED
    BY <2>2, <2>3
<1>7. QED
  BY <1>5, <1>6

LEMMA GraphqlStep ==
  ASSUME ScanInv, ProbeGraphql PROVE ScanInv'
<1>1. /\ TrialInv /\ TrafficStaysInScope /\ trial # NoTrial
      /\ trial.test.kind = "graphql"
  BY DEF ScanInv, ProbeGraphql
<1>2. /\ trial \in [test : Tests, payload : Nat, kept : Verdicts \cup {NoVerdict}, of : Nat]
      /\ trial.payload \in 1..PayloadsOf(trial.test) /\ trial.of \in 0..Tries + 2
      /\ trial.kept # "CONFIRMED"
  BY <1>1 DEF TrialInv
<1>3. PayloadsOf(trial.test) = 2
  BY <1>1 DEF PayloadsOf
<1>4. Frame /\ TrafficStaysInScope' /\ 0 \in 0..Tries + 2
  <2>1. Tries \in Nat
    BY VulnScanAssumption
  <2>2. QED
    BY <1>1, <2>1, SendsInScope DEF ProbeGraphql, Sends
<1>5. PICK r \in Answers :
        LET v == Classify(r)
            best == IF trial.kept # NoVerdict /\ Rank(trial.kept) >= Rank(v)
                    THEN trial.kept ELSE v IN
        /\ IF trial.payload = 2 \/ Rank(v) >= 2
           THEN EndsWith(trial.test, 0, best)
           ELSE /\ trial' = [trial EXCEPT !.payload = 2, !.kept = v]
                /\ UNCHANGED <<entries, answered, untested>>
        /\ proven' = IF IsEvidence(r) THEN proven \cup {trial.test} ELSE proven
  BY DEF ProbeGraphql
<1>6. PICK v \in Verdicts : v = Classify(r) /\ (v = "CONFIRMED" <=> IsEvidence(r))
  BY ConfirmedIsEvidence
<1>7. proven' = IF v = "CONFIRMED" THEN proven \cup {trial.test} ELSE proven
  BY <1>5, <1>6
<1>8. CASE trial.payload = 2 \/ Rank(v) >= 2
  <2>1. PICK best \in Verdicts :
          /\ EndsWith(trial.test, 0, best)
          /\ best = IF trial.kept # NoVerdict /\ Rank(trial.kept) >= Rank(v)
                    THEN trial.kept ELSE v
    BY <1>2, <1>5, <1>6, <1>8
  <2>2. best = "CONFIRMED" <=> v = "CONFIRMED"
    <3>1. \A w \in Verdicts \ {"CONFIRMED"} : Rank(w) \in 0..3
      BY DEF Rank, Verdicts
    <3>2. Rank("CONFIRMED") = 4
      BY DEF Rank
    <3>3. ASSUME v = "CONFIRMED", trial.kept # NoVerdict PROVE ~(Rank(trial.kept) >= Rank(v))
      <4>1. Rank(trial.kept) \in 0..3
        BY <1>2, <3>1, <3>3
      <4>2. QED
        BY <3>2, <3>3, <4>1
    <3>4. QED
      BY <1>2, <2>1, <3>3
  <2>3. QED
    BY <1>1, <1>4, <1>7, <2>1, <2>2, EndKeepsInv
<1>9. CASE ~(trial.payload = 2 \/ Rank(v) >= 2)
  <2>1. /\ trial' = [trial EXCEPT !.payload = 2, !.kept = v]
        /\ UNCHANGED <<entries, answered, untested>>
    BY <1>5, <1>6, <1>9
  <2>2. trial.payload = 1 /\ trial.payload # PayloadsOf(trial.test)
    BY <1>2, <1>3, <1>9
  <2>3. trial' = [test |-> trial.test, payload |-> trial.payload + 1,
                  kept |-> v, of |-> trial.of]
    <3>1. PICK t, n, kept, of :
            trial = [test |-> t, payload |-> n, kept |-> kept, of |-> of]
      BY <1>2
    <3>2. trial' = [test |-> t, payload |-> 2, kept |-> v, of |-> of]
      BY <2>1, <3>1
    <3>3. trial.test = t /\ trial.of = of /\ trial.payload + 1 = 2
      BY <2>2, <3>1
    <3>4. QED
      BY <3>2, <3>3
  <2>4. v # "CONFIRMED"
    BY <1>9 DEF Rank
  <2>5. proven' = proven /\ v \in (Verdicts \cup {NoVerdict}) \ {"CONFIRMED"}
    BY <1>7, <2>4
  <2>6. QED
    BY <1>1, <1>2, <1>4, <2>1, <2>2, <2>3, <2>5, GoesOnKeepsInv
<1>10. QED
  BY <1>8, <1>9

LEMMA BlindStep ==
  ASSUME ScanInv, TryBlindPair \/ BlindPairFails PROVE ScanInv'
<1>1. /\ ScanTypes /\ TrialInv /\ OrderInv /\ JustInv /\ TrafficStaysInScope
      /\ trial # NoTrial /\ trial.test.kind = "blind"
  BY DEF ScanInv, TryBlindPair, BlindPairFails
<1>0. PICK t : t = trial.test
  OBVIOUS
<1>2. /\ trial \in [test : Tests, payload : Nat, kept : Verdicts \cup {NoVerdict}, of : Nat]
      /\ trial.payload \in 1..PayloadsOf(t) /\ trial.of \in 0..Tries + 2
      /\ trial.kept # "CONFIRMED" /\ t \in Tests /\ t \notin untested
      /\ \A e \in entries :
           \/ e.key \notin Keys(t) \/ Another(e.key, t)
           \/ trial.payload = 2 /\ e.key = KeyOf(t, 1)
  BY <1>0, <1>1 DEF TrialInv
<1>3. PayloadsOf(t) = 2 /\ trial.payload \in 1..2
  BY <1>0, <1>1, <1>2 DEF PayloadsOf
<1>4. {1, 2} \subseteq 0..Tries + 2
  <2>1. Tries \in Nat
    BY VulnScanAssumption
  <2>2. QED
    BY <2>1
<1>5. Frame /\ untested' = untested /\ TrafficStaysInScope'
  BY <1>1, SendsInScope DEF TryBlindPair, BlindPairFails, Sends
\* The tests that wait, are under way or are over stay in their order.
<1>6. ASSUME answered' \subseteq answered \cup {t},
             trial' = NoTrial \/ trial'.test = t
      PROVE  OrderInv'
  <2>1. t \in Pending /\ Pending' \subseteq Pending
    BY <1>0, <1>1, <1>2, <1>5, <1>6 DEF Pending
  <2>2. scanStage' = scanStage
    BY <1>5 DEF Frame
  <2>3. QED
    BY <1>1, <1>2, <1>5, <1>6, <2>1, <2>2 DEF OrderInv
<1>7. ASSUME trial.payload = 1, trial' = [trial EXCEPT !.payload = 2],
             answered \subseteq answered',
             \A e \in entries' : e \in entries \/ e.key = KeyOf(t, 1)
      PROVE  TrialInv'
  <2>1. trial' = [test |-> t, payload |-> 2, kept |-> trial.kept, of |-> trial.of]
    BY <1>0, <1>2, <1>7
  <2>2. trial' \in [test : Tests, payload : Nat, kept : Verdicts \cup {NoVerdict}, of : Nat]
    BY <1>2, <2>1
  <2>3. trial'.payload \in 1..PayloadsOf(t)'
    <3>1. PayloadsOf(t)' = 2
      BY <1>3, <1>5 DEF PayloadsOf, Frame
    <3>2. QED
      BY <2>1, <3>1
  <2>4. \A e \in entries' :
          \/ e.key \notin Keys(t) \/ Another(e.key, t)'
          \/ t.kind = "blind" /\ trial'.payload = 2 /\ e.key = KeyOf(t, 1)
    BY <1>0, <1>1, <1>2, <1>7, <2>1 DEF Another
  <2>5. trial'.test = t /\ trial'.of \in 0..Tries + 2 /\ trial'.kept # "CONFIRMED"
        /\ t \notin untested'
    BY <1>2, <1>5, <2>1
  <2>6. QED
    BY <2>2, <2>3, <2>4, <2>5 DEF TrialInv
<1>8. CASE TryBlindPair
  <2>1. PICK v \in Verdicts :
          /\ entries' = WithEntry(t, trial.payload, v)
          /\ answered' = answered \cup {t}
          /\ proven' = IF v = "CONFIRMED" THEN proven \cup {t} ELSE proven
          /\ trial' = IF Decisive(v) \/ trial.payload = 2 THEN NoTrial
                      ELSE [trial EXCEPT !.payload = 2]
    <3>1. PICK sa \in Statuses, sb \in Statuses, wa \in BOOLEAN, wb \in BOOLEAN, d \in BOOLEAN :
            LET a == [status |-> sa, waf |-> wa]
                b == [status |-> sb, waf |-> wb]
                differ == d /\ (trial.payload = 1 => sa # sb)
                v == ClassifyBlind(a, b, differ)
            IN  /\ entries' = WithEntry(t, trial.payload, v)
                /\ answered' = answered \cup {t}
                /\ proven' = IF differ /\ ~wa /\ ~wb /\ ~(sa = "invalid" /\ sb = "invalid")
                             THEN proven \cup {t} ELSE proven
                /\ trial' = IF Decisive(v) \/ trial.payload = 2 THEN NoTrial
                            ELSE [trial EXCEPT !.payload = 2]
      BY <1>0, <1>8 DEF TryBlindPair
    <3> DEFINE differ == d /\ (trial.payload = 1 => sa # sb)
               v == ClassifyBlind([status |-> sa, waf |-> wa], [status |-> sb, waf |-> wb],
                                  differ)
    <3>2. /\ v \in Verdicts
          /\ v = "CONFIRMED"
             <=> differ /\ ~wa /\ ~wb /\ ~(sa = "invalid" /\ sb = "invalid")
      BY DEF ClassifyBlind, Verdicts
    <3>3. proven' = IF v = "CONFIRMED" THEN proven \cup {t} ELSE proven
      BY <3>1, <3>2
    <3> HIDE DEF v
    <3>4. QED
      BY <3>1, <3>2, <3>3 DEF v
  <2>2. \A e \in entries : e.key = KeyOf(t, trial.payload) => Another(e.key, t)
    <3>1. KeyOf(t, trial.payload) \in Keys(t)
      BY <1>3, <1>4, OwnKey
    <3>2. trial.payload = 2 => KeyOf(t, trial.payload) # KeyOf(t, 1)
      BY <1>0, <1>1, PairsDiffer
    <3>3. QED
      BY <1>2, <3>1, <3>2
  <2>3. PICK n \in 0..Tries + 2 : n = trial.payload
    BY <1>3, <1>4
  <2>4. JustInv'
    BY <1>1, <2>1, <2>2, <2>3, EntryIsJustified
  <2>5. \A e \in entries' : e.verdict \in Verdicts
    BY <1>1, <2>1, EntryVerdict DEF ScanTypes
  <2>6. ScanTypes'
    BY <1>1, <1>2, <1>5, <2>1, <2>5 DEF ScanTypes, Frame
  <2>7. CASE trial' = NoTrial
    <3>1. TrialInv'
      BY <2>7 DEF TrialInv
    <3>2. OrderInv'
      BY <1>6, <2>1, <2>7
    <3>3. QED
      BY <1>5, <2>4, <2>6, <3>1, <3>2 DEF ScanInv
  <2>8. CASE trial.payload = 1 /\ trial' = [trial EXCEPT !.payload = 2]
    <3>1. \A e \in entries' : e \in entries \/ e.key = KeyOf(t, 1)
      BY <2>1, <2>8 DEF WithEntry
    <3>2. TrialInv'
      BY <1>7, <2>1, <2>8, <3>1
    <3>3. trial'.test = t
      BY <1>0, <1>2, <2>8
    <3>4. OrderInv'
      BY <1>6, <2>1, <3>3
    <3>5. QED
      BY <1>5, <2>4, <2>6, <3>2, <3>4 DEF ScanInv
  <2>9. QED
    BY <1>3, <2>1, <2>7, <2>8
<1>9. CASE BlindPairFails
  <2>1. /\ trial' = IF trial.payload = 2 THEN NoTrial ELSE [trial EXCEPT !.payload = 2]
        /\ UNCHANGED <<untested, entries, answered, proven>>
    BY <1>9 DEF BlindPairFails
  <2>2. JustInv' /\ ScanTypes'
    BY <1>1, <1>5, <2>1 DEF JustInv, ScanTypes, Frame
  <2>3. CASE trial' = NoTrial
    <3>1. TrialInv' /\ OrderInv'
      BY <1>6, <2>1, <2>3 DEF TrialInv
    <3>2. QED
      BY <1>5, <2>2, <3>1 DEF ScanInv
  <2>4. CASE trial.payload = 1 /\ trial' = [trial EXCEPT !.payload = 2]
    <3>1. trial'.test = t
      BY <1>0, <1>2, <2>4
    <3>2. TrialInv' /\ OrderInv'
      BY <1>6, <1>7, <2>1, <2>4, <3>1
    <3>3. QED
      BY <1>5, <2>2, <3>2 DEF ScanInv
  <2>5. QED
    BY <1>3, <2>1, <2>3, <2>4
<1>10. QED
  BY <1>8, <1>9

LEMMA ScanInvStep == ScanInv /\ [VulnNext]_scanVars => ScanInv'
<1> SUFFICES ASSUME ScanInv, [VulnNext]_scanVars PROVE ScanInv'
  OBVIOUS
<1>1. CASE CrawlAgain \/ CrawlNothing \/ CrawlPage
  BY <1>1, CrawlStep
<1>2. CASE CrawlEnds \/ NextStage \/ StartTest
  BY <1>2, StageStep
<1>3. CASE TryPayload \/ PayloadFails
  BY <1>3, PayloadStep
<1>4. CASE ProbeGraphql
  BY <1>4, GraphqlStep
<1>5. CASE TryBlindPair \/ BlindPairFails
  BY <1>5, BlindStep
<1>6. CASE UNCHANGED scanVars
  BY <1>6 DEF scanVars, ScanInv, ScanTypes, TrialInv, OrderInv, JustInv,
              TrafficStaysInScope, Pending, Another, PayloadsOf
<1>7. QED
  BY <1>1, <1>2, <1>3, <1>4, <1>5, <1>6 DEF VulnNext, ScanFinished

\* What holds of a scan is what the runs check of it.
LEMMA ScanInvShows ==
  ScanInv => VulnTypeOK /\ TrafficStaysInScope /\ EntriesAreJustified
<1> SUFFICES ASSUME ScanInv PROVE VulnTypeOK /\ EntriesAreJustified
  BY DEF ScanInv
<1>1. \A i \in DOMAIN frontier : frontier[i].depth <= MaxDepth
  <2>1. frontier \in Seq([at : Addresses, depth : 0..MaxDepth])
    BY DEF ScanInv, ScanTypes
  <2>2. \A i \in DOMAIN frontier : frontier[i].depth \in 0..MaxDepth
    <3>1. \A i \in DOMAIN frontier : frontier[i] \in [at : Addresses, depth : 0..MaxDepth]
      BY <2>1, Elements
    <3>2. QED
      BY <3>1
  <2>3. MaxDepth \in Nat
    BY VulnScanAssumption
  <2>4. QED
    BY <2>2, <2>3
<1>2. VulnTypeOK
  BY <1>1 DEF ScanInv, ScanTypes, TrialInv, VulnTypeOK
<1>3. EntriesAreJustified
  BY DEF ScanInv, JustInv, EntriesAreJustified
<1>4. QED
  BY <1>2, <1>3

\* A scan sends no request out of its scope, whatever the pages link to, whatever
\* their forms post to and wherever the target redirects; and its findings are what
\* the answers support: nothing is confirmed without evidence, no answer is lost, and
\* what was proven is confirmed unless another test left an entry under its key.
THEOREM FindingsAreJustified ==
  VulnSpec => [](VulnTypeOK /\ TrafficStaysInScope /\ EntriesAreJustified)
<1>1. QED
  BY ScanInitially, ScanInvStep, ScanInvShows, PTL DEF VulnSpec

-----------------------------------------------------------------------------
(* RiskScores                                                              *)

\* Facts that are counted, within what they are counted out of; and as many of each
\* as of others, or more.
Counted(f) ==
  /\ \A name : Count(f, name) \in Nat
  /\ \A name \in DOMAIN Limited : Count(f, name) <= Limited[name]
AtLeast(g, f) == \A name : Count(f, name) <= Count(g, name)

LEMMA CappedIs ==
  \A x, cap \in Int : Capped(x, cap) = IF x <= cap THEN x ELSE cap
  BY LesserOfTwo DEF Capped

\* A score that is higher reaches as many thresholds or more.
LEMMA ReachesRises ==
  ASSUME NEW x \in Int, NEW y \in Int, x <= y, NEW thresholds \in SUBSET Int,
         IsFiniteSet(thresholds)
  PROVE  Reaches(x, thresholds) <= Reaches(y, thresholds)
<1> DEFINE of(s) == {t \in thresholds : s >= t}
<1>1. of(x) \subseteq of(y) /\ of(y) \subseteq thresholds
  <2>1. \A t \in thresholds : t \in Int /\ (x >= t => y >= t)
    OBVIOUS
  <2>2. QED
    BY <2>1
<1>2. IsFiniteSet(of(y))
  BY <1>1, FS_Subset
<1>3. Cardinality(of(x)) <= Cardinality(of(y))
  BY <1>1, <1>2, FS_Subset
<1>4. QED
  BY <1>3 DEF Reaches

\* The highest a score of each kind gets.
Ceiling(t) == IF t \in {"ai_firewall", "cve"} THEN 100000
              ELSE IF t = "compliance" THEN 1000 ELSE 100

\* What the present headers leave of 100 rises with what is missing; so does, as one
\* more control is failed, what the passed ones leave.
LEMMA HeadersLeave ==
  ASSUME NEW m \in Nat, NEW n \in Nat, n <= 140, m <= n
  PROVE  /\ 100 - (100 * (140 - m)) \div 140 \in 0..100
         /\ 100 - (100 * (140 - n)) \div 140 \in 0..100
         /\ 100 - (100 * (140 - m)) \div 140 <= 100 - (100 * (140 - n)) \div 140
  OBVIOUS

LEMMA ControlsLeave ==
  ASSUME NEW m \in Nat
  PROVE  /\ (4002 + m) \div (2 * (2 + m)) \in Nat
         /\ (4002 + m) \div (2 * (2 + m)) <= 1000
         /\ (4002 + m + 1) \div (2 * (2 + m + 1)) <= (4002 + m) \div (2 * (2 + m))
  OBVIOUS

LEMMA ScoreIs ==
  ASSUME NEW f
  PROVE  /\ Score("attack_surface", f) = AttackSurfaceScore(f)
         /\ Score("darkweb", f) = DarkwebScore(f)
         /\ Score("cve", f) = CompositeCveScore(f)
         /\ Score("virustotal", f) = VirustotalSeverity(f)
         /\ Score("abuseipdb", f) = AbuseSeverity(f)
         /\ Score("urlscan", f) = UrlscanSeverity(f)
         /\ Score("ai_firewall", f) = RequestRisk(f)
         /\ Score("ngfw", f) = PacketScore(f)
         /\ Score("honeypot", f) = HoneypotLevel(f)
         /\ Score("geo", f) = GeoScore(f)
         /\ Score("phone", f) = PhoneScore(f)
         /\ Score("phone_social", f) = PhoneSocialScore(f)
         /\ Score("certificate", f) = CertificateScore(f)
         /\ Score("headers", f) = HeadersScore(f)
         /\ Score("redteam", f) = RedteamScore(f)
         /\ Score("urlhaus", f) = UrlhausScore(f)
         /\ Score("otx", f) = OtxScore(f)
         /\ Score("compliance", f) = ComplianceRisk(f)
         /\ Score("ioc_lookup", f) = LookupScore(f)
  BY DEF Score

\* What more evidence makes of a score: it is a number, within its cap, and no lower.
Rises(x, y, cap) == x \in Nat /\ y \in Nat /\ x <= cap /\ x <= y

LEMMA EvidenceRises ==
  ASSUME NEW f, NEW g, Counted(f), Counted(g), AtLeast(g, f)
  PROVE  /\ Rises(AttackSurfaceScore(f), AttackSurfaceScore(g), 100)
         /\ Rises(DarkwebScore(f), DarkwebScore(g), 100)
         /\ Rises(CompositeCveScore(f), CompositeCveScore(g), 100000)
         /\ Rises(VirustotalSeverity(f), VirustotalSeverity(g), 4)
         /\ Rises(AbuseSeverity(f), AbuseSeverity(g), 4)
         /\ Rises(UrlscanSeverity(f), UrlscanSeverity(g), 4)
         /\ Rises(GeoScore(f), GeoScore(g), 100)
         /\ Rises(PhoneScore(f), PhoneScore(g), 100)
         /\ Rises(PhoneSocialScore(f), PhoneSocialScore(g), 100)
         /\ Rises(HoneypotLevel(f), HoneypotLevel(g), 4)
         /\ Rises(CertificateScore(f), CertificateScore(g), 100)
         /\ Rises(RedteamScore(f), RedteamScore(g), 100)
         /\ Rises(UrlhausScore(f), UrlhausScore(g), 100)
         /\ Rises(OtxScore(f), OtxScore(g), 100)
         /\ Rises(LookupScore(f), LookupScore(g), 100)
         /\ Rises(ThreatScore(f), ThreatScore(g), 100)
         /\ Rises(Anomaly(f), Anomaly(g), 1000)
<1>1. \A name : Count(f, name) \in Nat /\ Count(g, name) \in Nat /\ Count(f, name) <= Count(g, name)
  BY DEF Counted, AtLeast
<1>2. \A name : Seen(f, name) => Seen(g, name)
  BY <1>1 DEF Seen
<1>3. /\ Count(f, "cvss") <= 10 /\ Count(f, "epss") <= 10
      /\ Count(f, "abuse") <= 4 /\ Count(f, "geo_risk") <= 4
      /\ Count(f, "malicious_engine") <= 10
  BY DEF Counted, Limited
<1>4. Rises(AttackSurfaceScore(f), AttackSurfaceScore(g), 100)
  <2> DEFINE sum(h) == 5 * Count(h, "port") + Flag(h, "old_tls", 15)
                     + 20 * Count(h, "cve_critical") + 10 * Count(h, "cve_high")
                     + 5 * Count(h, "cve_other") + 5 * Count(h, "no_header")
  <2>1. sum(f) \in Nat /\ sum(g) \in Nat
    BY <1>1 DEF Flag
  <2>2. sum(f) <= sum(g)
    BY <1>1, <1>2 DEF Flag
  <2> HIDE DEF sum
  <2>3. Rises(Capped(sum(f), 100), Capped(sum(g), 100), 100)
    BY <2>1, <2>2, CappedIs DEF Rises
  <2>4. QED
    BY <2>3 DEF AttackSurfaceScore, sum
<1>5. Rises(DarkwebScore(f), DarkwebScore(g), 100)
  BY <1>1, <1>2, CappedIs DEF Rises, DarkwebScore
<1>6. Rises(CompositeCveScore(f), CompositeCveScore(g), 100000)
  BY <1>1, <1>2, <1>3 DEF Rises, CompositeCveScore, Flag
<1>7. Rises(VirustotalSeverity(f), VirustotalSeverity(g), 4)
  BY <1>1, <1>2 DEF Rises, VirustotalSeverity, Flag, Seen
<1>8. Rises(AbuseSeverity(f), AbuseSeverity(g), 4)
  BY <1>1, <1>2, LesserOfTwo DEF Rises, AbuseSeverity, Seen
<1>9. Rises(UrlscanSeverity(f), UrlscanSeverity(g), 4)
  BY <1>1, <1>2 DEF Rises, UrlscanSeverity, Flag
<1>10. Rises(GeoScore(f), GeoScore(g), 100)
  BY <1>1, <1>2, CappedIs DEF Rises, GeoScore, Flag
<1>11. Rises(PhoneScore(f), PhoneScore(g), 100)
  BY <1>1, <1>2, CappedIs DEF Rises, PhoneScore, Flag
<1>12. Rises(PhoneSocialScore(f), PhoneSocialScore(g), 100)
  BY <1>1, <1>2, CappedIs DEF Rises, PhoneSocialScore, Flag
<1>13. Rises(HoneypotLevel(f), HoneypotLevel(g), 4)
  BY <1>1, <1>2, GreaterOfTwo, <1>3 DEF Rises, HoneypotLevel
<1>14. Rises(CertificateScore(f), CertificateScore(g), 100)
  BY <1>1, <1>2, CappedIs DEF Rises, CertificateScore, Flag, Seen
<1>15. Rises(RedteamScore(f), RedteamScore(g), 100)
  <2> DEFINE sum(h) == 25 * Count(h, "CRITICAL") + 15 * Count(h, "HIGH")
                     + 7 * Count(h, "MEDIUM") + 3 * Count(h, "LOW")
  <2>1. sum(f) \in Nat /\ sum(g) \in Nat
    BY <1>1 DEF Flag
  <2>2. sum(f) <= sum(g)
    BY <1>1, <1>2 DEF Flag
  <2> HIDE DEF sum
  <2>3. Rises(Capped(sum(f), 100), Capped(sum(g), 100), 100)
    BY <2>1, <2>2, CappedIs DEF Rises
  <2>4. QED
    BY <2>3 DEF RedteamScore, sum
<1>16. Rises(UrlhausScore(f), UrlhausScore(g), 100)
  BY <1>1, <1>2, CappedIs DEF Rises, UrlhausScore, Flag
<1>17. Rises(OtxScore(f), OtxScore(g), 100)
  BY <1>1, <1>2, CappedIs DEF Rises, OtxScore, Flag
<1>18. Rises(LookupScore(f), LookupScore(g), 100)
  BY <1>1, <1>2, <1>3 DEF Rises, LookupScore
<1>19. Rises(ThreatScore(f), ThreatScore(g), 100)
  <2> DEFINE sum(h) == Flag(h, "entropy", 20) + Flag(h, "special_characters", 15)
                     + Flag(h, "double_encoding", 25) + Flag(h, "hex_encoding", 10)
                     + 15 * Count(h, "sql_keyword") + 20 * Count(h, "script_tag")
                     + Flag(h, "non_ascii", 10) + Flag(h, "parameters", 5)
                     + Flag(h, "long_payload", 8)
  <2>1. sum(f) \in Nat /\ sum(g) \in Nat
    BY <1>1 DEF Flag
  <2>2. sum(f) <= sum(g)
    BY <1>1, <1>2 DEF Flag
  <2> HIDE DEF sum
  <2>3. Rises(Capped(sum(f), 100), Capped(sum(g), 100), 100)
    BY <2>1, <2>2, CappedIs DEF Rises
  <2>4. QED
    BY <2>3 DEF ThreatScore, sum
<1>20. Rises(Anomaly(f), Anomaly(g), 1000)
  BY <1>1, <1>2, CappedIs DEF Rises, Anomaly, Flag
<1>21. QED
  BY <1>4, <1>5, <1>6, <1>7, <1>8, <1>9, <1>10, <1>11, <1>12, <1>13, <1>14, <1>15, <1>16, <1>17, <1>18, <1>19, <1>20

LEMMA RequestRises ==
  ASSUME NEW f, NEW g, Counted(f), Counted(g), AtLeast(g, f)
  PROVE  /\ Rises(RequestRisk(f), RequestRisk(g), 100000)
         /\ RequestAction(f) <= RequestAction(g)
<1>1. \A name : Count(f, name) \in Nat /\ Count(g, name) \in Nat /\ Count(f, name) <= Count(g, name)
  BY DEF Counted, AtLeast
<1>2. \A name : Seen(f, name) => Seen(g, name)
  BY <1>1 DEF Seen
<1>3. Rises(Anomaly(f), Anomaly(g), 1000)
  BY EvidenceRises
<1> DEFINE sum(h) == 1000 * (35 * Count(h, "CRITICAL") + 20 * Count(h, "HIGH")
                               + 10 * Count(h, "MEDIUM") + 5 * Count(h, "LOW"))
                       + 20 * Anomaly(h)
<1>4. sum(f) \in Nat /\ sum(g) \in Nat
  BY <1>1, <1>3 DEF Rises
<1>5. sum(f) <= sum(g)
  BY <1>1, <1>3 DEF Rises
<1> HIDE DEF sum
<1>6. Rises(Capped(sum(f), 100000), Capped(sum(g), 100000), 100000)
  BY <1>4, <1>5, CappedIs DEF Rises
<1>7. Rises(RequestRisk(f), RequestRisk(g), 100000)
  BY <1>6 DEF RequestRisk, sum
<1>8. RequestAction(f) <= RequestAction(g)
  BY <1>2, <1>3, <1>7 DEF RequestAction, Rises
<1>9. QED
  BY <1>7, <1>8

LEMMA PacketRises ==
  ASSUME NEW f, NEW g, Counted(f), Counted(g), AtLeast(g, f)
  PROVE  Rises(PacketScore(f), PacketScore(g), 100)
<1>1. \A name : Seen(f, name) => Seen(g, name)
  BY DEF Counted, AtLeast, Seen
<1>2. Rises(ThreatScore(f), ThreatScore(g), 100)
  BY EvidenceRises
<1> DEFINE worst(h) == IF Seen(h, "CRITICAL") THEN 3 ELSE IF Seen(h, "HIGH") THEN 2
                       ELSE Flag(h, "MEDIUM", 1)
           sum(h) == ThreatScore(h) + 15 * worst(h) + Flag(h, "high_risk_country", 15)
                       + Flag(h, "over_rate", 30) + Flag(h, "scanner_agent", 25)
                       + Flag(h, "suspicious_port", 20)
<1>3. sum(f) \in Nat /\ sum(g) \in Nat
  BY <1>2 DEF Rises, Flag
<1>4. sum(f) <= sum(g)
  BY <1>1, <1>2 DEF Rises, Flag
<1> HIDE DEF sum
<1>5. Rises(Capped(sum(f), 100), Capped(sum(g), 100), 100)
  BY <1>3, <1>4, CappedIs DEF Rises
<1>6. QED
  BY <1>5 DEF PacketScore, sum

LEMMA HeadersRise ==
  ASSUME NEW f, NEW g, Counted(f), Counted(g), AtLeast(g, f)
  PROVE  Rises(HeadersScore(f), HeadersScore(g), 100)
<1> DEFINE missing(h) == 30 * Count(h, "no_critical") + 20 * Count(h, "no_high")
                           + 10 * Count(h, "no_medium") + 5 * Count(h, "no_low")
<1>1. \A name : Count(f, name) \in Nat /\ Count(g, name) \in Nat /\ Count(f, name) <= Count(g, name)
  BY DEF Counted, AtLeast
<1>2. /\ Count(f, "no_critical") <= 2 /\ Count(f, "no_high") <= 1
      /\ Count(f, "no_medium") <= 5 /\ Count(f, "no_low") <= 2
      /\ Count(g, "no_critical") <= 2 /\ Count(g, "no_high") <= 1
      /\ Count(g, "no_medium") <= 5 /\ Count(g, "no_low") <= 2
  BY DEF Counted, Limited
<1>3. /\ missing(f) \in Nat /\ missing(g) \in Nat
      /\ missing(g) <= 140 /\ missing(f) <= missing(g)
  <2>1. missing(f) \in Nat /\ missing(g) \in Nat /\ missing(f) <= missing(g)
    BY <1>1
  <2>2. missing(g) <= 140
    BY <1>1, <1>2
  <2>3. QED
    BY <2>1, <2>2
<1>4. /\ HeadersScore(f) = 100 - (100 * (140 - missing(f))) \div 140
      /\ HeadersScore(g) = 100 - (100 * (140 - missing(g))) \div 140
  BY DEF HeadersScore
<1> HIDE DEF missing
<1>5. PICK m \in Nat, n \in Nat : 
        /\ m = missing(f) /\ n = missing(g) /\ n <= 140 /\ m <= n
  BY <1>3
<1>6. /\ 100 - (100 * (140 - m)) \div 140 \in 0..100
      /\ 100 - (100 * (140 - n)) \div 140 \in 0..100
      /\ 100 - (100 * (140 - m)) \div 140 <= 100 - (100 * (140 - n)) \div 140
  <2>1. m \in Nat /\ n \in Nat /\ n <= 140 /\ m <= n
    BY <1>5
  <2>2. QED
    BY ONLY <2>1, HeadersLeave, ZenonT(60)
<1>7. /\ HeadersScore(f) \in 0..100 /\ HeadersScore(g) \in 0..100
      /\ HeadersScore(f) <= HeadersScore(g)
  BY <1>4, <1>5, <1>6
<1>8. QED
  BY <1>7 DEF Rises

\* One more control fails.
LEMMA ComplianceRises ==
  ASSUME NEW f, NEW g, Counted(f), Counted(g),
         Count(g, "failed") \in {Count(f, "failed"), Count(f, "failed") + 1}
  PROVE  Rises(ComplianceRisk(f), ComplianceRisk(g), 1000)
<1>1. PICK m \in Nat : m = Count(f, "failed")
  BY DEF Counted
<1>2. PICK n \in {m, m + 1} : n = Count(g, "failed")
  BY <1>1
<1>3. /\ ComplianceRisk(f) = 1000 - (4002 + m) \div (2 * (2 + m))
      /\ ComplianceRisk(g) = 1000 - (4002 + n) \div (2 * (2 + n))
  BY <1>1, <1>2 DEF ComplianceRisk
<1>4. /\ (4002 + m) \div (2 * (2 + m)) \in Nat
      /\ (4002 + n) \div (2 * (2 + n)) \in Nat
      /\ (4002 + m) \div (2 * (2 + m)) <= 1000
      /\ (4002 + n) \div (2 * (2 + n)) <= (4002 + m) \div (2 * (2 + m))
  <2>1. CASE n = m
    BY <2>1, ControlsLeave
  <2>2. CASE n = m + 1
    <3>1. n \in Nat
      BY <2>2
    <3>2. (4002 + n) \div (2 * (2 + n)) = (4002 + m + 1) \div (2 * (2 + m + 1))
      BY <2>2
    <3>3. QED
      BY <3>1, <3>2, ControlsLeave
  <2>3. QED
    BY <2>1, <2>2
<1>5. PICK x \in Nat, y \in Nat :
        /\ x = (4002 + m) \div (2 * (2 + m)) /\ y = (4002 + n) \div (2 * (2 + n))
  BY <1>4
<1>6. y <= x /\ x <= 1000 /\ ComplianceRisk(f) = 1000 - x /\ ComplianceRisk(g) = 1000 - y
  BY <1>3, <1>4, <1>5
<1>7. QED
  BY <1>6 DEF Rises

LEMMA ScoreRises ==
  ASSUME NEW f, NEW g, Counted(f), Counted(g), AtLeast(g, f), NEW t \in AllTopics,
         Count(g, "failed") \in {Count(f, "failed"), Count(f, "failed") + 1}
  PROVE  Rises(Score(t, f), Score(t, g), Ceiling(t))
<1>1. \E cap \in Nat : cap <= Ceiling(t) /\ Rises(Score(t, f), Score(t, g), cap)
  <2>1. Ceiling(t) \in Nat /\ 100 <= Ceiling(t) /\ 4 <= Ceiling(t)
    BY DEF Ceiling
  <2>2. CASE t \in {"virustotal", "abuseipdb", "urlscan", "honeypot"}
    <3>1. Rises(Score(t, f), Score(t, g), 4)
      BY <2>2, ScoreIs, EvidenceRises
    <3>2. QED
      BY <2>1, <3>1
  <2>3. CASE t = "cve"
    <3>1. Rises(Score(t, f), Score(t, g), Ceiling(t))
      BY <2>3, ScoreIs, EvidenceRises DEF Ceiling
    <3>2. QED
      BY <2>1, <3>1
  <2>4. CASE t = "ai_firewall"
    <3>1. Rises(Score(t, f), Score(t, g), Ceiling(t))
      BY <2>4, ScoreIs, RequestRises DEF Ceiling
    <3>2. QED
      BY <2>1, <3>1
  <2>5. CASE t = "compliance"
    <3>1. Rises(Score(t, f), Score(t, g), Ceiling(t))
      BY <2>5, ScoreIs, ComplianceRises DEF Ceiling
    <3>2. QED
      BY <2>1, <3>1
  <2>6. CASE t \in {"attack_surface", "darkweb", "geo", "phone", "phone_social",
                    "certificate", "redteam", "urlhaus", "otx", "ioc_lookup"}
    <3>1. Rises(Score(t, f), Score(t, g), 100)
      BY <2>6, ScoreIs, EvidenceRises
    <3>2. QED
      BY <2>1, <3>1
  <2>7. CASE t \in {"ngfw", "headers"}
    <3>1. Rises(Score(t, f), Score(t, g), 100)
      BY <2>7, ScoreIs, PacketRises, HeadersRise
    <3>2. QED
      BY <2>1, <3>1
  <2>8. QED
    BY <2>2, <2>3, <2>4, <2>5, <2>6, <2>7 DEF AllTopics
<1>2. Ceiling(t) \in Nat
  BY DEF Ceiling
<1>3. QED
  BY <1>1, <1>2 DEF Rises

LEMMA LevelIs ==
  ASSUME NEW f
  PROVE  /\ Level("attack_surface", f) = AttackSurfaceLevel(Score("attack_surface", f))
         /\ Level("darkweb", f) = DarkwebLevel(Score("darkweb", f))
         /\ Level("ai_firewall", f) = RequestAction(f)
         /\ Level("ngfw", f) = PacketAction(Score("ngfw", f))
         /\ Level("geo", f) = PersonLevel(Score("geo", f))
         /\ Level("phone", f) = PersonLevel(Score("phone", f))
         /\ Level("certificate", f) = CertificateLevel(Score("certificate", f))
         /\ Level("headers", f) = HeadersLevel(Score("headers", f))
         /\ Level("compliance", f) = ComplianceLevel(Score("compliance", f))
         /\ Level("ioc_lookup", f) = LookupLevel(Score("ioc_lookup", f))
         /\ \A t \in {"cve", "virustotal", "abuseipdb", "urlscan", "honeypot",
                      "phone_social", "redteam", "urlhaus", "otx"} :
              Level(t, f) = Score(t, f)
  BY DEF Level

\* What a score that rises reaches, of every list of thresholds there is.
LEMMA LevelsRise ==
  ASSUME NEW x \in Nat, NEW y \in Nat, x <= y
  PROVE  /\ AttackSurfaceLevel(x) <= AttackSurfaceLevel(y)
         /\ DarkwebLevel(x) <= DarkwebLevel(y) /\ PacketAction(x) <= PacketAction(y)
         /\ PersonLevel(x) <= PersonLevel(y) /\ CertificateLevel(x) <= CertificateLevel(y)
         /\ HeadersLevel(x) <= HeadersLevel(y) /\ ComplianceLevel(x) <= ComplianceLevel(y)
         /\ LookupLevel(x) <= LookupLevel(y)
<1>1. \A a, b \in Nat : IsFiniteSet({a, b})
  <2>1. ASSUME NEW a \in Nat, NEW b \in Nat PROVE IsFiniteSet({a, b})
    <3>1. IsFiniteSet({a})
      BY FS_Singleton
    <3>2. IsFiniteSet({a} \cup {b}) /\ {a} \cup {b} = {a, b}
      BY <3>1, FS_AddElement
    <3>3. QED
      BY <3>2
  <2>2. QED
    BY <2>1
<1>2. \A a, b, c \in Nat : IsFiniteSet({a, b, c})
  <2>1. ASSUME NEW a \in Nat, NEW b \in Nat, NEW c \in Nat PROVE IsFiniteSet({a, b, c})
    <3>1. IsFiniteSet({a, b} \cup {c})
      BY <1>1, FS_AddElement
    <3>2. {a, b} \cup {c} = {a, b, c}
      OBVIOUS
    <3>3. QED
      BY <3>1, <3>2
  <2>2. QED
    BY <2>1
<1>3. \A a, b \in Nat : Reaches(x, {a, b}) <= Reaches(y, {a, b})
  BY <1>1, ReachesRises
<1>4. \A a, b, c \in Nat : Reaches(x, {a, b, c}) <= Reaches(y, {a, b, c})
  BY <1>2, ReachesRises
<1>5. QED
  BY <1>3, <1>4 DEF AttackSurfaceLevel, DarkwebLevel, PacketAction, PersonLevel,
                    CertificateLevel, HeadersLevel, ComplianceLevel, LookupLevel

LEMMA LevelRises ==
  ASSUME NEW f, NEW g, Counted(f), Counted(g), AtLeast(g, f), NEW t \in AllTopics,
         Rises(Score(t, f), Score(t, g), Ceiling(t))
  PROVE  Level(t, f) <= Level(t, g)
<1>1. Score(t, f) \in Nat /\ Score(t, g) \in Nat /\ Score(t, f) <= Score(t, g)
  BY DEF Rises
<1>2. CASE t = "ai_firewall"
  BY <1>2, LevelIs, RequestRises
<1>3. CASE t \in {"cve", "virustotal", "abuseipdb", "urlscan", "honeypot", "phone_social",
                  "redteam", "urlhaus", "otx"}
  BY <1>1, <1>3, LevelIs
<1>4. CASE t \in {"attack_surface", "darkweb", "ngfw", "geo", "phone", "certificate",
                  "headers", "compliance", "ioc_lookup"}
  <2>1. PICK x \in Nat, y \in Nat : x = Score(t, f) /\ y = Score(t, g) /\ x <= y
    BY <1>1
  <2>2. QED
    BY <1>4, <2>1, LevelIs, LevelsRise
<1>5. QED
  BY <1>2, <1>3, <1>4 DEF AllTopics

RiskInv ==
  /\ topic \in DOMAIN Facts
  /\ facts \in [Facts[topic] -> Nat]
  /\ \A name \in Facts[topic] : facts[name] <= Most[name]

LEMMA FactsAreCounted == RiskInv => Counted(facts) /\ topic \in AllTopics
<1> SUFFICES ASSUME RiskInv PROVE Counted(facts) /\ topic \in AllTopics
  OBVIOUS
<1>1. \A name : Count(facts, name) \in Nat
  BY DEF RiskInv, Count
<1>2. ASSUME NEW name \in DOMAIN Limited PROVE Count(facts, name) <= Limited[name]
  <2>1. Limited[name] \in Nat
    BY DEF Limited
  <2>2. CASE name \in DOMAIN facts
    <3>1. name \in Facts[topic] /\ facts[name] <= Most[name] /\ facts[name] \in Nat
      BY <2>2 DEF RiskInv
    <3>2. Most[name] \in Nat /\ Most[name] <= Limited[name]
      BY <3>1, RiskAssumption DEF RiskInv
    <3>3. QED
      BY <2>1, <2>2, <3>1, <3>2 DEF Count
  <2>3. CASE name \notin DOMAIN facts
    BY <2>1, <2>3 DEF Count
  <2>4. QED
    BY <2>2, <2>3
<1>3. topic \in AllTopics
  BY RiskAssumption DEF RiskInv
<1>4. QED
  BY <1>1, <1>2, <1>3 DEF Counted

LEMMA RiskInvStep == RiskInv /\ [Report]_riskVars => RiskInv'
<1> SUFFICES ASSUME RiskInv, [Report]_riskVars PROVE RiskInv'
  OBVIOUS
<1>1. CASE Report
  <2>1. PICK name \in DOMAIN facts :
          /\ facts[name] < Most[name]
          /\ facts' = [facts EXCEPT ![name] = facts[name] + 1]
          /\ topic' = topic
    BY <1>1 DEF Report
  <2>2. name \in Facts[topic] /\ Most[name] \in Nat
    BY <2>1, RiskAssumption DEF RiskInv
  <2>3. QED
    BY <2>1, <2>2 DEF RiskInv
<1>2. CASE UNCHANGED riskVars
  BY <1>2 DEF riskVars, RiskInv
<1>3. QED
  BY <1>1, <1>2

LEMMA RiskInitially == RiskInit => RiskInv
<1> SUFFICES ASSUME RiskInit PROVE RiskInv
  OBVIOUS
<1>1. topic \in DOMAIN Facts /\ \A name \in Facts[topic] : Most[name] \in Nat
  BY RiskAssumption DEF RiskInit
<1>2. QED
  BY <1>1 DEF RiskInit, RiskInv

LEMMA RiskTypes == RiskInv => RiskTypeOK
<1> SUFFICES ASSUME RiskInv PROVE RiskTypeOK
  OBVIOUS
<1>1. Counted(facts) /\ topic \in AllTopics
  BY FactsAreCounted
<1>2. Rises(Score(topic, facts), Score(topic, facts), Ceiling(topic))
  <2>1. AtLeast(facts, facts)
    BY <1>1 DEF Counted, AtLeast
  <2>2. QED
    BY <1>1, <2>1, ScoreRises
<1>3. \A name \in DOMAIN facts : facts[name] \in 0..Most[name]
  <2>1. ASSUME NEW name \in DOMAIN facts PROVE facts[name] \in 0..Most[name]
    <3>1. name \in Facts[topic] /\ facts[name] \in Nat /\ facts[name] <= Most[name]
      BY DEF RiskInv
    <3>2. Most[name] \in Nat
      BY <3>1, RiskAssumption DEF RiskInv
    <3>3. QED
      BY <3>1, <3>2
  <2>2. QED
    BY <2>1
<1>4. Score(topic, facts) \in 0..Ceiling(topic)
  <2>1. Ceiling(topic) \in Nat
    BY DEF Ceiling
  <2>2. QED
    BY <1>2, <2>1 DEF Rises
<1>5. QED
  BY <1>1, <1>3, <1>4 DEF RiskTypeOK, RiskInv, Ceiling

LEMMA OneMoreRises ==
  RiskInv /\ RiskInv' /\ [Report]_riskVars
    => [/\ Score(topic, facts') >= Score(topic, facts)
        /\ Level(topic, facts') >= Level(topic, facts)]_riskVars
<1> SUFFICES ASSUME RiskInv, RiskInv', Report
             PROVE  /\ Score(topic, facts') >= Score(topic, facts)
                    /\ Level(topic, facts') >= Level(topic, facts)
  OBVIOUS
<1>1. PICK name \in DOMAIN facts :
        facts' = [facts EXCEPT ![name] = facts[name] + 1] /\ topic' = topic
  BY DEF Report
<1>2. PICK g : g = facts'
  OBVIOUS
<1>3. Counted(facts) /\ topic \in AllTopics
  BY FactsAreCounted
<1>4. \A n : Count(g, n) \in {Count(facts, n), Count(facts, n) + 1}
  BY <1>1, <1>2 DEF Count, RiskInv
<1>5. AtLeast(g, facts)
  BY <1>3, <1>4 DEF AtLeast, Counted
<1>6. Counted(g)
  <2>1. (RiskInv => Counted(facts) /\ topic \in AllTopics)'
    BY FactsAreCounted, PTL
  <2>2. Counted(facts)'
    BY <2>1
  <2>3. QED
    BY <1>2, <2>2 DEF Counted
<1>7. Rises(Score(topic, facts), Score(topic, g), Ceiling(topic))
  BY <1>3, <1>4, <1>5, <1>6, ScoreRises
<1>8. Level(topic, facts) <= Level(topic, g)
  BY <1>3, <1>5, <1>6, <1>7, LevelRises
<1>9. QED
  BY <1>2, <1>7, <1>8 DEF Rises

\* One more piece of evidence never lowers a score, nor the level or the action that
\* follows from it, for any facts and however often each is reported.
THEOREM EvidenceCounts == RiskSpec => []RiskTypeOK /\ EvidenceNeverLowers
<1>1. QED
  BY RiskInitially, RiskInvStep, RiskTypes, OneMoreRises, PTL
     DEF RiskSpec, EvidenceNeverLowers

-----------------------------------------------------------------------------
(* The composition                                                         *)

Kinds == {"scanner", "sharing", "feed", "map", "correlation", "entities", "risk"}

\* In the composition every part behaves as it does alone: the chosen one takes its own
\* steps and the others rest.
LEMMA EachPartRuns ==
  /\ IntelligenceSpec => VulnSpec
  /\ IntelligenceSpec => SharingSpec
  /\ IntelligenceSpec => FeedSpec
  /\ IntelligenceSpec => MapSpec
  /\ IntelligenceSpec => CorrSpec
  /\ IntelligenceSpec => EntitiesSpec
  /\ IntelligenceSpec => RiskSpec
  /\ IntelligenceSpec => [](part \in Kinds)
<1>1. IntelligenceSpec => VulnSpec
  <2>1. IntelligenceInit => ScanInit
    BY DEF IntelligenceInit
  <2>2. [IntelligenceNext]_intelligenceVars => [VulnNext]_scanVars
    <3>1. IntelligenceNext => VulnNext \/ UNCHANGED scanVars
      BY DEF IntelligenceNext, Stays
    <3>2. UNCHANGED intelligenceVars => UNCHANGED scanVars
      BY DEF intelligenceVars
    <3>3. QED
      BY <3>1, <3>2
  <2>3. QED
    BY <2>1, <2>2, PTL DEF IntelligenceSpec, VulnSpec
<1>2. IntelligenceSpec => SharingSpec
  <2>1. IntelligenceInit => SharingInit
    BY DEF IntelligenceInit
  <2>2. [IntelligenceNext]_intelligenceVars => [SharingNext]_sharingVars
    <3>1. IntelligenceNext => SharingNext \/ UNCHANGED sharingVars
      BY DEF IntelligenceNext, Stays
    <3>2. UNCHANGED intelligenceVars => UNCHANGED sharingVars
      BY DEF intelligenceVars
    <3>3. QED
      BY <3>1, <3>2
  <2>3. QED
    BY <2>1, <2>2, PTL DEF IntelligenceSpec, SharingSpec
<1>3. IntelligenceSpec => FeedSpec
  <2>1. IntelligenceInit => FeedInit
    BY DEF IntelligenceInit
  <2>2. [IntelligenceNext]_intelligenceVars => [FeedNext]_feedVars
    <3>1. IntelligenceNext => FeedNext \/ UNCHANGED feedVars
      BY DEF IntelligenceNext, Stays
    <3>2. UNCHANGED intelligenceVars => UNCHANGED feedVars
      BY DEF intelligenceVars
    <3>3. QED
      BY <3>1, <3>2
  <2>3. QED
    BY <2>1, <2>2, PTL DEF IntelligenceSpec, FeedSpec
<1>4. IntelligenceSpec => MapSpec
  <2>1. IntelligenceInit => MapInit
    BY DEF IntelligenceInit
  <2>2. [IntelligenceNext]_intelligenceVars => [MapNext]_mapVars
    <3>1. IntelligenceNext => MapNext \/ UNCHANGED mapVars
      BY DEF IntelligenceNext, Stays
    <3>2. UNCHANGED intelligenceVars => UNCHANGED mapVars
      BY DEF intelligenceVars
    <3>3. QED
      BY <3>1, <3>2
  <2>3. QED
    BY <2>1, <2>2, PTL DEF IntelligenceSpec, MapSpec
<1>5. IntelligenceSpec => CorrSpec
  <2>1. IntelligenceInit => CorrInit
    BY DEF IntelligenceInit
  <2>2. [IntelligenceNext]_intelligenceVars => [CorrNext]_corrVars
    <3>1. IntelligenceNext => CorrNext \/ UNCHANGED corrVars
      BY DEF IntelligenceNext, Stays
    <3>2. UNCHANGED intelligenceVars => UNCHANGED corrVars
      BY DEF intelligenceVars
    <3>3. QED
      BY <3>1, <3>2
  <2>3. QED
    BY <2>1, <2>2, PTL DEF IntelligenceSpec, CorrSpec
<1>6. IntelligenceSpec => EntitiesSpec
  <2>1. IntelligenceInit => EntitiesInit
    BY DEF IntelligenceInit
  <2>2. [IntelligenceNext]_intelligenceVars => [EntitiesNext]_entityVars
    <3>1. IntelligenceNext => EntitiesNext \/ UNCHANGED entityVars
      BY DEF IntelligenceNext, Stays
    <3>2. UNCHANGED intelligenceVars => UNCHANGED entityVars
      BY DEF intelligenceVars
    <3>3. QED
      BY <3>1, <3>2
  <2>3. QED
    BY <2>1, <2>2, PTL DEF IntelligenceSpec, EntitiesSpec
<1>7. IntelligenceSpec => RiskSpec
  <2>1. IntelligenceInit => RiskInit
    BY DEF IntelligenceInit
  <2>2. [IntelligenceNext]_intelligenceVars => [Report]_riskVars
    <3>1. IntelligenceNext => Report \/ UNCHANGED riskVars
      BY DEF IntelligenceNext, Stays
    <3>2. UNCHANGED intelligenceVars => UNCHANGED riskVars
      BY DEF intelligenceVars
    <3>3. QED
      BY <3>1, <3>2
  <2>3. QED
    BY <2>1, <2>2, PTL DEF IntelligenceSpec, RiskSpec
<1>8. IntelligenceSpec => [](part \in Kinds)
  <2>1. IntelligenceInit => part \in Kinds
    BY DEF IntelligenceInit, Kinds
  <2>2. part \in Kinds /\ [IntelligenceNext]_intelligenceVars => (part \in Kinds)'
    BY DEF IntelligenceNext, intelligenceVars
  <2>3. QED
    BY <2>1, <2>2, PTL DEF IntelligenceSpec
<1>9. QED
  BY <1>1, <1>2, <1>3, <1>4, <1>5, <1>6, <1>7, <1>8

\* The state of every part has its shape, for any values of the constants.
THEOREM IntelligenceTypeCorrect == IntelligenceSpec => []IntelligenceTypeOK
<1>1. /\ part \in Kinds
      /\ VulnTypeOK /\ SharingTypeOK /\ FeedTypeOK /\ MapTypeOK /\ CorrTypeOK
      /\ EntitiesTypeOK /\ RiskTypeOK
      => IntelligenceTypeOK
  BY DEF IntelligenceTypeOK, Kinds
<1>2. QED
  BY <1>1, AnswersAreWhole, EachPartRuns, FindingsAreJustified, AuditStaysTruthful, FeedStaysHonest,
     MapStaysLocated, CorroborationCounts, EvidenceCounts, PTL

\* No scan leaves its scope or reports what no answer justifies, no share is recorded as
\* it was not, no feed serves what was not read in time, and no point of the map stands
\* for an address that was not located: for any sites, pulses, feeds and requests.
THEOREM ReportsStayHonest == IntelligenceSpec => []ReportsAreHonest
<1>1. /\ part \in Kinds
      /\ TrafficStaysInScope /\ EntriesAreJustified /\ AuditIsTruthful /\ FeedIsHonest
      /\ PointsAreLocated
      => ReportsAreHonest
  BY DEF ReportsAreHonest, Kinds
<1>2. QED
  BY <1>1, EachPartRuns, FindingsAreJustified, AuditStaysTruthful, FeedStaysHonest,
     MapStaysLocated, PTL

\* Neither a score, nor its level, nor the confidence in an entity ever falls because
\* one more fact, or one more source, was reported.
THEOREM EvidenceOnlyRaises == IntelligenceSpec => MoreEvidenceNeverLowers
<1>1. QED
  BY EachPartRuns, EvidenceCounts, CorroborationCounts, PTL DEF MoreEvidenceNeverLowers

\* The clusters stay honest beside the other parts.
THEOREM CorrelationsStayHonest == IntelligenceSpec => []ClustersAreHonest
  BY EachPartRuns, ClustersStayHonest, PTL
=============================================================================
