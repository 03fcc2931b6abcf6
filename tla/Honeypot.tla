------------------------------- MODULE Honeypot -------------------------------
(***************************************************************************)
(* The honeypot: listeners that workers bind at startup                    *)
(* (modules/honeypot/manager.py), the SSH, FTP and HTTP sessions they hold *)
(* (listeners.py), the enrichment of an address (enrichment.py), the rows  *)
(* and the statistics over them (web/routers/honeypot.py).                 *)
(*                                                                         *)
(* A peer may reset the connection at any step, send or stay silent; a     *)
(* lookup may fail, and so may the insert of a row.                        *)
(***************************************************************************)
EXTENDS FiniteSets, Naturals

CONSTANTS
  PotWorkers,   \* processes that start the listeners
  PotServices,  \* the services that are enabled
  Hits,         \* connections
  FtpMax,       \* FTP_MAX_COMMANDS
  PotLevels,    \* the risk levels the lookups come to
  Unbound

ASSUME PotAssumption ==
  PotServices \subseteq {"ssh", "ftp", "http_admin"} /\ FtpMax \in Nat \ {0}
  /\ Unbound \notin PotWorkers
  /\ PotLevels \subseteq {"LOW", "MEDIUM", "HIGH", "CRITICAL"} /\ "LOW" \in PotLevels

VARIABLES
  up,           \* the workers whose startup has run
  bound,        \* the worker that holds each service's port
  hit,          \* each connection: where it is and what it was
  rows,         \* honeypot_events, by connection
  emitted,      \* history: how often each connection's on_event was called
  stats         \* a computation of the statistics: its answers so far

potVars == <<up, bound, hit, rows, emitted, stats>>

NewHit == [phase |-> "none"]
NoStats == [phase |-> "none"]

PotInit ==
  /\ up = {} /\ bound = [s \in PotServices |-> Unbound]
  /\ hit = [c \in Hits |-> NewHit]
  /\ rows = {} /\ emitted = [c \in Hits |-> 0] /\ stats = NoStats

Open(c) == hit[c].phase \notin {"none", "closed", "crashed", "dropped"}

-----------------------------------------------------------------------------
(* start_honeypots, stop_honeypots                                         *)

\* A port that another worker holds stays its; nobody tries again.
StartHoneypots(w) ==
  /\ w \notin up
  /\ up' = up \cup {w}
  /\ bound' = [s \in PotServices |-> IF bound[s] = Unbound THEN w ELSE bound[s]]
  /\ UNCHANGED <<hit, rows, emitted, stats>>

\* The process ends: its ports are free again and its sessions are gone.
WorkerEnds(w) ==
  /\ w \in up
  /\ up' = up \ {w}
  /\ bound' = [s \in PotServices |-> IF bound[s] = w THEN Unbound ELSE bound[s]]
  /\ hit' = [c \in Hits |-> IF Open(c) /\ hit[c].on = w
                            THEN [hit[c] EXCEPT !.phase = "dropped"] ELSE hit[c]]
  /\ UNCHANGED <<rows, emitted, stats>>

-----------------------------------------------------------------------------
(* handle_ssh, handle_ftp, handle_http_admin                               *)

Connect(c) ==
  /\ hit[c].phase = "none"
  /\ \E s \in PotServices :
       /\ bound[s] # Unbound
       /\ hit' = [hit EXCEPT ![c] =
            [phase |-> IF s = "http_admin" THEN "reading" ELSE "banner",
             service |-> s, on |-> bound[s], commands |-> 0, reset |-> FALSE,
             risk |-> "LOW", evidence |-> "LOW"]]
  /\ UNCHANGED <<up, bound, rows, emitted, stats>>

Turn(c, phase) == hit' = [hit EXCEPT ![c].phase = phase]
Same == UNCHANGED <<up, bound, rows, emitted, stats>>

SendBanner(c) ==
  /\ hit[c].phase = "banner" /\ ~hit[c].reset
  /\ Turn(c, "reading") /\ Same

\* The drain after the banner is not guarded: the handler crashes.
BannerFails(c) ==
  /\ hit[c].phase = "banner" /\ hit[c].reset
  /\ Turn(c, "crashed") /\ Same

PeerResets(c) ==
  /\ Open(c) /\ ~hit[c].reset
  /\ hit' = [hit EXCEPT ![c].reset = TRUE] /\ Same

\* One read is all of an SSH or HTTP session; silence, the time limit and a
\* reset read as nothing.
ReadOnce(c) ==
  /\ hit[c].phase = "reading" /\ hit[c].service # "ftp"
  /\ Turn(c, "enriching") /\ Same

\* Mutant of ReadCommand: the number of commands is not bounded.
ReadCommandForEver(c) ==
  /\ hit[c].phase = "reading" /\ hit[c].service = "ftp" /\ ~hit[c].reset
  /\ hit' = [hit EXCEPT ![c].commands = (@ + 1) % FtpMax] /\ Same

\* Mutant of ReadCommand: one command too many.
ReadCommandOver(c) ==
  /\ hit[c].phase = "reading" /\ hit[c].service = "ftp" /\ ~hit[c].reset
  /\ \E over \in BOOLEAN :
       hit' = [hit EXCEPT ![c].commands = @ + 1,
                 ![c].phase = IF over \/ hit[c].commands = FtpMax
                              THEN "enriching" ELSE "reading"]
  /\ Same

\* An FTP command: answered, and another is read unless the reply cannot be
\* sent or there were enough of them.
ReadCommand(c) ==
  /\ hit[c].phase = "reading" /\ hit[c].service = "ftp" /\ ~hit[c].reset
  /\ \E over \in BOOLEAN :
       hit' = [hit EXCEPT ![c].commands = @ + 1,
                 ![c].phase = IF over \/ hit[c].commands + 1 = FtpMax
                              THEN "enriching" ELSE "reading"]
  /\ Same

\* An empty read or line, or QUIT.
CommandsEnd(c) ==
  /\ hit[c].phase = "reading" /\ hit[c].service = "ftp"
  /\ Turn(c, "enriching") /\ Same

-----------------------------------------------------------------------------
(* record_event, enrich_ip, _risk_level                                    *)

RowLevels == PotLevels \cup {"UNKNOWN"}

Rank(l) == CASE l = "LOW" -> 1 [] l = "MEDIUM" -> 2 [] l = "HIGH" -> 3 [] OTHER -> 4
Worse(a, b) == IF Rank(a) >= Rank(b) THEN a ELSE b

\* Mutant of RiskOf: the last lookup decides.
RiskOfLast(geo, abuse) == abuse

\* A lookup that fails counts as no risk.
RiskOf(geo, abuse) == Worse(geo, abuse)

Enriched(c, risk, evidence) ==
  /\ hit[c].phase = "enriching"
  /\ hit' = [hit EXCEPT ![c].phase = "storing", ![c].risk = risk, ![c].evidence = evidence]
  /\ emitted' = [emitted EXCEPT ![c] = @ + 1]
  /\ UNCHANGED <<up, bound, rows, stats>>

Enrich(c) ==
  \E geo, abuse \in PotLevels : Enriched(c, RiskOf(geo, abuse), Worse(geo, abuse))

\* enrich_ip raises, on a score that cannot be compared: the hit is stored all
\* the same.
EnrichFails(c) == Enriched(c, "UNKNOWN", "UNKNOWN")

StoreHit(c) ==
  /\ hit[c].phase = "storing"
  /\ rows' = rows \cup {[of |-> c, service |-> hit[c].service, risk |-> hit[c].risk]}
  /\ Turn(c, "closing") /\ UNCHANGED <<up, bound, emitted, stats>>

\* The row is refused or the database is away: logged, and the session ends.
StoreFails(c) ==
  /\ hit[c].phase = "storing"
  /\ Turn(c, "closing") /\ Same

CloseHit(c) ==
  /\ hit[c].phase = "closing"
  /\ Turn(c, "closed") /\ Same

-----------------------------------------------------------------------------
(* compute_stats: the total and the groups are read one after the other    *)

CountTotal ==
  /\ stats.phase = "none"
  /\ stats' = [phase |-> "counted", total |-> Cardinality(rows)]
  /\ UNCHANGED <<up, bound, hit, rows, emitted>>

CountByService ==
  /\ stats.phase = "counted"
  /\ stats' = [phase |-> "done", total |-> stats.total,
               by |-> [s \in PotServices |-> Cardinality({r \in rows : r.service = s})]]
  /\ UNCHANGED <<up, bound, hit, rows, emitted>>

StatsAnswered ==
  /\ stats.phase = "done" /\ stats' = NoStats
  /\ UNCHANGED <<up, bound, hit, rows, emitted>>

HitNext(c) ==
  \/ Connect(c) \/ SendBanner(c) \/ BannerFails(c) \/ PeerResets(c)
  \/ ReadOnce(c) \/ ReadCommand(c) \/ CommandsEnd(c)
  \/ Enrich(c) \/ EnrichFails(c) \/ StoreHit(c) \/ StoreFails(c) \/ CloseHit(c)

PotNext ==
  \/ \E w \in PotWorkers : StartHoneypots(w) \/ WorkerEnds(w)
  \/ \E c \in Hits : HitNext(c)
  \/ CountTotal \/ CountByService \/ StatsAnswered

\* A handler that can go on does: reads have a time limit, lookups one of 10
\* seconds, and the database answers or fails.
Serves(c) ==
  \/ SendBanner(c) \/ BannerFails(c) \/ ReadOnce(c) \/ ReadCommand(c)
  \/ CommandsEnd(c) \/ Enrich(c) \/ EnrichFails(c) \/ StoreHit(c) \/ StoreFails(c)
  \/ CloseHit(c)

PotFairness == \A c \in Hits : WF_potVars(Serves(c))

PotSpec == PotInit /\ [][PotNext]_potVars /\ PotFairness

-----------------------------------------------------------------------------

PotTypeOK ==
  /\ up \subseteq PotWorkers /\ bound \in [PotServices -> up \cup {Unbound}]
  /\ \A c \in Hits : hit[c] # NewHit =>
       /\ hit[c].phase \in {"banner", "reading", "enriching", "storing", "closing",
                            "closed", "crashed", "dropped"}
       /\ hit[c].commands \in 0..FtpMax /\ hit[c].risk \in RowLevels
  /\ \A r \in rows : r.of \in Hits /\ r.risk \in RowLevels

InGroup(service) == IF service \in PotServices THEN stats.by[service] ELSE 0

\* A row is the record of one session, with a risk no lookup contradicts; a
\* session is recorded at most once; an FTP session has at most its number of
\* commands; and the groups of the statistics, read after the total, can only
\* add up to more, by the rows stored meanwhile.
HitsAreRecordedOnce ==
  /\ \A r \in rows : r.risk = hit[r.of].evidence /\ r.service = hit[r.of].service
  /\ \A r, q \in rows : r.of = q.of => r = q
  /\ \A c \in Hits : emitted[c] <= 1 /\ (emitted[c] = 0 => \A r \in rows : r.of # c)
  /\ stats.phase = "done" => stats.total <= InGroup("ssh") + InGroup("ftp") + InGroup("http_admin")

\* The steps that a session's handler has before it, at most.
HandlerLeft(c) ==
  CASE hit[c].phase = "banner"    -> FtpMax + 5
    [] hit[c].phase = "reading"   -> FtpMax + 4 - hit[c].commands
    [] hit[c].phase = "enriching" -> 3
    [] hit[c].phase = "storing"   -> 2
    [] hit[c].phase = "closing"   -> 1
    [] OTHER                      -> 0

\* A handler is through after a bounded number of its own steps, however much its peer
\* sends, and nothing else that happens gives it more to do.
SessionRunsDown ==
  [][\A c \in Hits : Open(c) =>
       /\ HandlerLeft(c)' <= HandlerLeft(c)
       /\ Serves(c) => HandlerLeft(c)' < HandlerLeft(c)]_potVars

\* Every session ends, whatever its peer does.
SessionsEnd == \A c \in Hits : [](Open(c) => <>~Open(c))

\* What modules/honeypot/listeners.py says ("calls it once per
\* connection/session"): a session its worker saw through was emitted.
SessionsAreRecorded ==
  \A c \in Hits : hit[c].phase \in {"closed", "crashed"} => emitted[c] = 1
=============================================================================
