----------------------------- MODULE TrafficLog -----------------------------
(***************************************************************************)
(* The inspection log of the next-generation firewall,                     *)
(* modules/firewall/ngfw_v2.py: deep_inspect, which awaits a geo lookup    *)
(* and then stores its verdict, and simulate_traffic_burst, which inspects *)
(* made-up requests one after another and marks their entries afterwards,  *)
(* by their position.  One event loop: steps end where the code awaits.    *)
(***************************************************************************)
EXTENDS FiniteSets, Naturals, Sequences

CONSTANTS
  Inspections,  \* requests to POST /api/inspect
  Bursts,       \* requests to POST /api/simulate-traffic
  BurstSize,    \* how many inspections each makes
  LogCap        \* bound: the 1000 entries the log keeps

ASSUME TrafficAssumption ==
  /\ Inspections \cap Bursts = {}
  /\ IsFiniteSet(Inspections) /\ IsFiniteSet(Bursts)
  /\ BurstSize \in Nat \ {0} /\ LogCap \in Nat \ {0}

VARIABLES
  fwLog,     \* traffic_log, newest first: who stored it, and the mark
  fwStats,   \* the counters of the same file
  fwStage,   \* each request: "idle", "looking", "done"
  fwMade,    \* how many inspections each burst has stored
  fwMet      \* history: the bursts during which another entry was stored

trafficVars == <<fwLog, fwStats, fwStage, fwMade, fwMet>>

Callers == Inspections \cup Bursts
Actions == {"ALLOW", "ALERT", "BLOCK"}
LogEntry == [by : Callers, simulated : BOOLEAN]
Stored == Cardinality(Inspections) + BurstSize * Cardinality(Bursts)

TrafficTypeOK ==
  /\ fwLog \in UNION {[1..n -> LogEntry] : n \in 0..LogCap}
  /\ fwStats \in [total : 0..Stored, blocked : 0..Stored, anomalies : 0..Stored]
  /\ fwStage \in [Callers -> {"idle", "looking", "done"}]
  /\ fwMade \in [Bursts -> 0..BurstSize]
  /\ fwMet \subseteq Bursts

TrafficInit ==
  /\ fwLog = <<>>
  /\ fwStats = [total |-> 0, blocked |-> 0, anomalies |-> 0]
  /\ fwStage = [c \in Callers |-> "idle"]
  /\ fwMade = [b \in Bursts |-> 0]
  /\ fwMet = {}

-----------------------------------------------------------------------------

\* deep_inspect begins: features and signatures, then the geo lookup.
BeginInspection(c) ==
  /\ fwStage[c] = "idle"
  /\ fwStage' = [fwStage EXCEPT ![c] = "looking"]
  /\ UNCHANGED <<fwLog, fwStats, fwMade, fwMet>>

\* Mutant of CapLog.
CapLogLate(s) == IF Len(s) > LogCap + 1 THEN SubSeq(s, 1, LogCap + 1) ELSE s

CapLog(s) == IF Len(s) > LogCap THEN SubSeq(s, 1, LogCap) ELSE s

\* The verdict in front of the log.
Stores(c) == CapLog(<<[by |-> c, simulated |-> FALSE]>> \o fwLog)

\* ... and its count.
Counts(action) ==
  [total     |-> fwStats.total + 1,
   blocked   |-> fwStats.blocked + (IF action = "BLOCK" THEN 1 ELSE 0),
   anomalies |-> fwStats.anomalies + (IF action = "ALLOW" THEN 0 ELSE 1)]

\* The lookup has an answer, or none: the rest of deep_inspect is one step.
InspectionEnds(c) ==
  /\ c \in Inspections
  /\ fwStage[c] = "looking"
  /\ fwLog' = Stores(c)
  /\ \E action \in Actions : fwStats' = Counts(action)
  /\ fwStage' = [fwStage EXCEPT ![c] = "done"]
  /\ fwMet' = fwMet \cup {b \in Bursts : fwMade[b] \in 1..(BurstSize - 1)}
  /\ UNCHANGED fwMade

\* Mutant of Tagged.
TaggedShort(log) ==
  [i \in DOMAIN log |-> IF i < BurstSize
                        THEN [log[i] EXCEPT !.simulated = TRUE] ELSE log[i]]

\* As many entries as the burst has results, counted from the front, are marked.
Tagged(log) ==
  [i \in DOMAIN log |-> IF i <= BurstSize
                        THEN [log[i] EXCEPT !.simulated = TRUE] ELSE log[i]]

\* One inspection of a burst; the last goes straight on to the marking.
BurstStores(b) ==
  /\ fwStage[b] = "looking"
  /\ fwMade' = [fwMade EXCEPT ![b] = @ + 1]
  /\ IF fwMade'[b] = BurstSize
     THEN /\ fwLog' = Tagged(Stores(b))
          /\ fwStage' = [fwStage EXCEPT ![b] = "done"]
     ELSE /\ fwLog' = Stores(b)
          /\ UNCHANGED fwStage
  /\ \E action \in Actions : fwStats' = Counts(action)
  /\ fwMet' = fwMet \cup {c \in Bursts \ {b} : fwMade[c] \in 1..(BurstSize - 1)}

TrafficNext ==
  \E c \in Callers :
    \/ BeginInspection(c)
    \/ InspectionEnds(c)
    \/ c \in Bursts /\ BurstStores(c)

TrafficSpec == TrafficInit /\ [][TrafficNext]_trafficVars

-----------------------------------------------------------------------------
(* Properties                                                              *)

\* The marks and the counters agree with who stored what, as long as no burst
\* was interrupted: a burst that is done has marked all of its entries, nobody
\* else's are marked, and every stored entry is counted once.
MarksAreExact ==
  /\ fwMet = {} => \A i \in DOMAIN fwLog :
       fwLog[i].simulated <=> fwLog[i].by \in {b \in Bursts : fwStage[b] = "done"}
  /\ Len(fwLog) = IF fwStats.total < LogCap THEN fwStats.total ELSE LogCap
  /\ fwStats.blocked <= fwStats.anomalies
  /\ fwStats.anomalies <= fwStats.total

\* "... after the fact, not inside deep_inspect() itself, so real traffic stays
\* untagged" (the comment above simulate_traffic_burst).
RealTrafficStaysUntagged ==
  \A i \in DOMAIN fwLog : fwLog[i].by \in Inspections => ~fwLog[i].simulated

=============================================================================
