---------------------------- MODULE ThreatSharing ----------------------------
(***************************************************************************)
(* Sharing of indicators: what is collected locally, the explicit share of *)
(* one indicator with the OTX community, and the audit trail of the shares *)
(* (modules/threat_intel/threat_sharing.py, web/routers/threat_sharing.py).*)
(*                                                                         *)
(* A share is a row in the trail and, when the policy lets it, a pulse at  *)
(* OTX.  The post may be refused, its answer may be lost, the row may be   *)
(* refused by the table, and the request may fail or the worker stop       *)
(* between the two.                                                        *)
(***************************************************************************)
EXTENDS FiniteSets, Naturals, Sequences, SequencesExt

CONSTANTS
  Sharers,      \* requests to POST /api/threat-feed/share under way at once
  Indicators,   \* the values that are shared
  WellFormed,   \* those whose value has the shape of the declared type
  TooLong,      \* those of them the audit table has no room for
  Events,       \* honeypot rows, newest first: the address and the risk
  Leaks,        \* dark-web alerts, newest first: the source and the locator
  Kev,          \* the CVEs of the CISA catalogue, newest first
  PerSource,    \* per_source_limit
  MaxShares,    \* bound: attempts
  NoUrl

ASSUME SharingAssumption ==
  /\ WellFormed \subseteq Indicators /\ TooLong \subseteq WellFormed
  /\ PerSource \in Nat \ {0} /\ MaxShares \in Nat

VARIABLES
  sharing,      \* ENABLE_THREAT_SHARING and OTX_API_KEY
  attempt,      \* of each request: where it is and what it was asked
  attempts,     \* how many were made: each has its number
  pulses,       \* what OTX holds, by the attempt that sent it
  trail,        \* the rows of threat_shares
  severed,      \* history: the attempts that an error or a stopped worker cut short
  offered       \* the last answer of /local-iocs

sharingVars == <<sharing, attempt, attempts, pulses, trail, severed, offered>>

Tlps == {"RED", "AMBER", "GREEN", "CLEAR", "WHITE", "OTHER"}
Resting == [phase |-> "idle"]

SharingInit ==
  /\ sharing \in [enabled : BOOLEAN, key : BOOLEAN]
  /\ attempt = [s \in Sharers |-> Resting]
  /\ attempts = 0 /\ pulses = {} /\ trail = {} /\ severed = {} /\ offered = {}

-----------------------------------------------------------------------------
(* The policy                                                              *)

\* Mutant of AllowsPublicPulse: whatever may be shared may be public.
AllowsPublicUnlessRed(tlp) == tlp # "RED"

AllowsPublicPulse(tlp) == tlp \in {"WHITE", "CLEAR"}

BlocksSharing(tlp) == tlp = "RED"

ValidIoc(v) == v \in WellFormed

\* The answers share_ioc gives without a call, in their order.
Refusal(v, tlp) ==
  IF ~sharing.enabled THEN "disabled"
  ELSE IF ~ValidIoc(v) THEN "invalid"
  ELSE IF BlocksSharing(tlp) THEN "tlp_restricted"
  ELSE IF ~sharing.key THEN "failed"
  ELSE "none"

-----------------------------------------------------------------------------
(* share_ioc_endpoint                                                      *)

ShareIoc(s) ==
  /\ attempt[s].phase = "idle" /\ attempts < MaxShares
  /\ attempts' = attempts + 1
  /\ \E v \in Indicators, tlp \in Tlps :
       LET refused == Refusal(v, tlp) IN
       attempt' = [attempt EXCEPT ![s] =
         [phase |-> IF refused = "none" THEN "posting" ELSE "recording",
          n |-> attempts + 1, ioc |-> v, tlp |-> tlp, status |-> refused]]
  /\ UNCHANGED <<sharing, pulses, trail, severed, offered>>

Pulse(a) == [by |-> a.n, ioc |-> a.ioc, tlp |-> a.tlp, public |-> AllowsPublicPulse(a.tlp)]

Answered(s, status) ==
  attempt' = [attempt EXCEPT ![s].phase = "recording", ![s].status = status]

\* share_ioc_to_otx: the pulse is made, and the answer says so or is lost.
OtxCreates(s) ==
  /\ attempt[s].phase = "posting"
  /\ pulses' = pulses \cup {Pulse(attempt[s])}
  /\ \E status \in {"success", "failed"} : Answered(s, status)
  /\ UNCHANGED <<sharing, attempts, trail, severed, offered>>

OtxRefuses(s) ==
  /\ attempt[s].phase = "posting"
  /\ Answered(s, "failed")
  /\ UNCHANGED <<sharing, attempts, pulses, trail, severed, offered>>

Row(a) == [by |-> a.n, ioc |-> a.ioc, status |-> a.status]

\* record_share, which the table refuses when a value does not fit.
RecordShare(s) ==
  /\ attempt[s].phase = "recording"
  /\ trail' = IF attempt[s].ioc \in TooLong THEN trail ELSE trail \cup {Row(attempt[s])}
  /\ attempt' = [attempt EXCEPT ![s] = Resting]
  /\ UNCHANGED <<sharing, attempts, pulses, severed, offered>>

\* Requests that end without a row; what one was posting may still reach OTX.
CutShort(R) ==
  /\ severed' = severed \cup {attempt[s].n : s \in R}
  /\ attempt' = [s \in Sharers |-> IF s \in R THEN Resting ELSE attempt[s]]
  /\ \E S \in SUBSET {s \in R : attempt[s].phase = "posting"} :
       pulses' = pulses \cup {Pulse(attempt[s]) : s \in S}
  /\ UNCHANGED <<sharing, attempts, trail, offered>>

Busy == {s \in Sharers : attempt[s].phase # "idle"}

\* An exception: the answer to the post is JSON but no object, or the commit of
\* the row fails.  The request is answered 500.
ShareFails(s) == s \in Busy /\ CutShort({s})

\* The worker stops.
SharingStops == Busy # {} /\ CutShort(Busy)

-----------------------------------------------------------------------------
(* collect_local_iocs and already_shared_values                            *)

FirstOf(s) == ToSet(SubSeq(s, 1, IF Len(s) < PerSource THEN Len(s) ELSE PerSource))

Distinct(s) == LET Add(seen, x) == IF x \in ToSet(seen) THEN seen ELSE Append(seen, x)
               IN FoldLeft(Add, <<>>, s)

HoneypotIocs ==
  LET risky == SelectSeq(Events, LAMBDA e : e.risk \in {"HIGH", "CRITICAL"})
  IN FirstOf(Distinct([i \in DOMAIN risky |-> risky[i].ip]))

DarkwebIocs ==
  LET kept == SelectSeq(Leaks, LAMBDA l : l.source \in {"paste", "github_secret"}
                                          /\ l.url # NoUrl)
  IN FirstOf([i \in DOMAIN kept |-> kept[i].url])

\* The catalogue gives nothing when it cannot be fetched.
LocalIocs(fetched) ==
  HoneypotIocs \cup DarkwebIocs \cup (IF fetched THEN FirstOf(Kev) ELSE {})

AlreadyShared == {r.ioc : r \in {x \in trail : x.status = "success"}}

OfferLocalIocs ==
  /\ \E fetched \in BOOLEAN :
       offered' = {[ioc |-> v, shared |-> v \in AlreadyShared] : v \in LocalIocs(fetched)}
  /\ UNCHANGED <<sharing, attempt, attempts, pulses, trail, severed>>

SharingNext ==
  \/ \E s \in Sharers : ShareIoc(s) \/ OtxCreates(s) \/ OtxRefuses(s) \/ RecordShare(s)
                       \/ ShareFails(s)
  \/ SharingStops \/ OfferLocalIocs

SharingSpec == SharingInit /\ [][SharingNext]_sharingVars

-----------------------------------------------------------------------------

ShareStatuses == {"success", "failed", "disabled", "invalid", "tlp_restricted", "none"}

SharingTypeOK ==
  /\ attempts \in 0..MaxShares
  /\ \A s \in Sharers : attempt[s].phase \in {"idle", "posting", "recording"}
  /\ \A s \in Sharers : attempt[s].phase = "posting" => attempt[s].status = "none"
  /\ \A p \in pulses : p.by \in 1..attempts /\ p.ioc \in Indicators /\ p.tlp \in Tlps
  /\ \A r \in trail : r.by \in 1..attempts /\ r.status \in ShareStatuses \ {"none"}
  /\ severed \subseteq 1..attempts

UnderWay(n) == \E s \in Sharers : attempt[s].phase = "recording" /\ attempt[s].n = n
Recorded(n) == \E r \in trail : r.by = n

\* What leaves the installation is what the policy lets out, and the trail is
\* true of it: nothing is sent while sharing is off, nothing marked RED, and
\* only WHITE and CLEAR in public; a row that says success has its pulse, a
\* pulse without a row is being recorded, is of a request that failed or was
\* stopped, or did not fit; and what is offered as already shared was shared.
AuditIsTruthful ==
  /\ \A p \in pulses :
       /\ sharing.enabled /\ sharing.key /\ p.ioc \in WellFormed
       /\ p.tlp # "RED" /\ (p.public => p.tlp \in {"WHITE", "CLEAR"})
       /\ UnderWay(p.by) \/ Recorded(p.by) \/ p.by \in severed \/ p.ioc \in TooLong
  /\ \A r \in trail : r.status = "success" => \E p \in pulses : p.by = r.by
  /\ \A o \in offered : o.shared => \E p \in pulses : p.ioc = o.ioc

\* What web/routers/threat_sharing.py says of POST /share ("Every attempt ...
\* is recorded in the audit trail"): a pulse whose request has ended, and was
\* not cut short, has its row.
EveryPulseIsAudited ==
  \A p \in pulses : UnderWay(p.by) \/ Recorded(p.by) \/ p.by \in severed
=============================================================================
