------------------------------ MODULE ThreatMap ------------------------------
(***************************************************************************)
(* The threat map of modules/threat_intel/global_feed.py: the addresses of *)
(* the active indicators, located by a service with a file as the cache,   *)
(* and counted by country.                                                 *)
(*                                                                         *)
(* A request reads the rows and the file, awaits the lookups of what the   *)
(* file does not hold or holds for too long, and writes its whole copy     *)
(* back, by truncating the file and filling it.  Requests overlap, also    *)
(* from two workers, and time is counted in ticks.                         *)
(***************************************************************************)
EXTENDS FiniteSets, Naturals

CONSTANTS
  Mappers,      \* requests
  MapAddresses,    \* addresses of indicators
  Countries,    \* where the service may say one is
  GeoTtl,       \* GEO_CACHE_TTL, in ticks
  MaxMapTick    \* bound: ticks

ASSUME ThreatMapAssumption ==
  GeoTtl \in Nat \ {0} /\ MaxMapTick \in Nat /\ IsFiniteSet(MapAddresses)

VARIABLES
  mapTick,
  geoCache,     \* the file: what is known of which address
  geoTorn,      \* whether the file is truncated and not yet filled
  mapper        \* each request

mapVars == <<mapTick, geoCache, geoTorn, mapper>>

Nowhere == [a \in {} |-> 0]
NoMapper == [phase |-> "none"]

MapInit ==
  /\ mapTick = 0 /\ geoCache = Nowhere /\ geoTorn = FALSE
  /\ mapper = [r \in Mappers |-> NoMapper]

MapTicks ==
  /\ mapTick < MaxMapTick
  /\ mapTick' = mapTick + 1
  /\ UNCHANGED <<geoCache, geoTorn, mapper>>

\* Mutant of StillFresh: an entry of the file is taken at any age.
StillFreshForEver(entry) == TRUE

StillFresh(entry) == mapTick - entry.cachedAt < GeoTtl

\* get_threat_map reads the rows; _geolocate_ips reads the file, where what
\* does not parse is nothing, and knows from then on what it has to look up.
AskMap(r) ==
  /\ mapper[r].phase = "none"
  /\ \E rows \in SUBSET MapAddresses :
       LET cache == IF geoTorn THEN Nowhere ELSE geoCache
           fresh == {a \in rows \cap DOMAIN cache : StillFresh(cache[a])}
       IN  mapper' = [mapper EXCEPT ![r] =
             IF rows = {} THEN [phase |-> "answered", rows |-> rows,
                                located |-> Nowhere, asked |-> mapTick]
             ELSE [phase |-> "locating", rows |-> rows, cache |-> cache,
                   located |-> [a \in fresh |-> cache[a]], asked |-> mapTick]]
  /\ UNCHANGED <<mapTick, geoCache, geoTorn>>

\* The lookups are back: some failed, or knew no coordinates, and those
\* addresses are left out.  The age counts from before the lookups.
Locate(r) ==
  /\ mapper[r].phase = "locating"
  /\ LET m == mapper[r]
         missing == m.rows \ DOMAIN m.located
     IN  \E known \in SUBSET missing : \E where \in [known -> Countries] :
           LET found == [a \in known |-> [country |-> where[a], cachedAt |-> m.asked]]
               With(f) == [a \in DOMAIN f \cup known |->
                             IF a \in known THEN found[a] ELSE f[a]]
           IN  mapper' = [mapper EXCEPT ![r] =
                 [m EXCEPT !.phase = "saving", !.cache = With(m.cache),
                           !.located = With(m.located)]]
  /\ geoTorn' = TRUE /\ UNCHANGED <<mapTick, geoCache>>

\* The copy is written; the process may also die here, or the disk refuse.
SaveMap(r) ==
  /\ mapper[r].phase = "saving"
  /\ \/ geoTorn' = FALSE /\ geoCache' = mapper[r].cache
     \/ UNCHANGED <<geoTorn, geoCache>>
  /\ mapper' = [mapper EXCEPT ![r] =
       [phase |-> "answered", rows |-> @.rows, located |-> @.located, asked |-> @.asked]]
  /\ UNCHANGED mapTick

MapNext == MapTicks \/ \E r \in Mappers : AskMap(r) \/ Locate(r) \/ SaveMap(r)

MapSpec == MapInit /\ [][MapNext]_mapVars

\* The points of an answer: how many addresses of each country.
Points(m) ==
  [c \in {m.located[a].country : a \in DOMAIN m.located} |->
     Cardinality({a \in DOMAIN m.located : m.located[a].country = c})]

-----------------------------------------------------------------------------

MapTypeOK ==
  /\ mapTick \in 0..MaxMapTick /\ geoTorn \in BOOLEAN
  /\ DOMAIN geoCache \subseteq MapAddresses
  /\ \A r \in Mappers : mapper[r].phase \in {"none", "locating", "saving", "answered"}

\* An answer shows addresses of its rows only, each one the service located no
\* longer than the cache may keep it before the request, however requests
\* overlap on the file; and its points are countries in which it counted some of
\* those addresses.
PointsAreLocated ==
  \A r \in Mappers : mapper[r].phase = "answered" =>
    LET m == mapper[r] IN
    /\ DOMAIN m.located \subseteq m.rows
    /\ \A a \in DOMAIN m.located :
         m.located[a].country \in Countries /\ m.asked - m.located[a].cachedAt < GeoTtl
    /\ \A c \in DOMAIN Points(m) :
         c \in Countries /\ Points(m)[c] \in 1..Cardinality(m.rows)
=============================================================================
