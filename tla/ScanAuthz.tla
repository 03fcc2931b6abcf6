------------------------------ MODULE ScanAuthz ------------------------------
(***************************************************************************)
(* The policy that decides which checks of a scan may run, and which hosts *)
(* their traffic may reach (web/scan_authz.py; modules/scan_scope.py).     *)
(*                                                                         *)
(* Everything here is a function of its arguments.  Names are normalized   *)
(* host names; the string a decision carries as its basis,                 *)
(* "verified:<method>:<domain>" or "training:<host>", is a record here.    *)
(***************************************************************************)
EXTENDS FiniteSets

CONSTANTS
  Names,      \* DNS names
  Addresses,  \* IP literals
  NoHost,     \* what normalize_host makes of a target without a host
  Under,      \* the pairs <<h, d>> such that h is a proper subdomain of d
  Resolve,    \* the addresses each name has when the scope is built
  Checks,     \* the names of checks a caller may give, known or not
  Active,     \* ACTIVE_CHECKS
  Passive,    \* PASSIVE_CHECKS
  Training,   \* the hosts of TRAINING_TARGETS ...
  Permits     \* ... and the checks that each of them permits

ASSUME AuthzAssumption ==
  /\ Names \cap Addresses = {}
  /\ NoHost \notin Names \cup Addresses
  /\ Under \subseteq Names \X Names
  /\ Resolve \in [Names -> SUBSET Addresses]
  /\ Active \cap Passive = {}
  /\ Active \cup Passive \subseteq Checks
  /\ Active # {}
  /\ Training \subseteq Names
  /\ Permits \in [Training -> SUBSET Active]

Methods == {"dns_txt", "http_file"}
Hosts   == Names \cup Addresses
NoScope == [domain |-> NoHost, method |-> "none"]

-----------------------------------------------------------------------------
\* An empty list of checks asks for all of them.
Expand(types) == IF types = {} THEN Active \cup Passive ELSE types

\* A TXT record vouches for the domain and its subdomains, a file for the very
\* host that serves it, and neither for an address.
Covers(scope, host) ==
  /\ host \in Names
  /\ \/ host = scope.domain
     \/ scope.method = "dns_txt" /\ <<host, scope.domain>> \in Under

\* The active checks that a verified scope, or else the training list, grants.
Granted(host, active, scope) ==
  IF scope # NoScope THEN active
  ELSE IF host \in Training THEN active \cap Permits[host]
  ELSE {}

\* A mutant: what a training target permits is not looked up.
DecideLoosely(host, checks, scope) ==
  [allowed |-> checks \cap (Active \cup Passive),
   denied  |-> IF scope # NoScope \/ host \in Training THEN {} ELSE checks \cap Active,
   basis   |-> IF checks \cap Active # {} /\ scope # NoScope
               THEN [kind |-> "verified", method |-> scope.method, host |-> scope.domain]
               ELSE IF checks \cap Active # {} /\ host \in Training
               THEN [kind |-> "training", method |-> "none", host |-> host]
               ELSE [kind |-> "passive_only", method |-> "none", host |-> NoHost]]

\* scope is the first verified scope that covers the host, or NoScope.  A
\* check in neither class is denied, and so is everything without a host.
Decide(host, checks, scope) ==
  LET active  == checks \cap Active
      allowed == IF host = NoHost THEN {}
                 ELSE (checks \cap Passive) \cup Granted(host, active, scope)
  IN  [allowed |-> allowed,
       denied  |-> checks \ allowed,
       basis   |->
         IF host = NoHost \/ active = {} \/ (scope = NoScope /\ host \notin Training)
         THEN [kind |-> "passive_only", method |-> "none", host |-> NoHost]
         ELSE IF scope # NoScope
         THEN [kind |-> "verified", method |-> scope.method, host |-> scope.domain]
         ELSE [kind |-> "training", method |-> "none", host |-> host]]

-----------------------------------------------------------------------------
\* The exact hosts and the domains a decision confines its scan to; a method
\* or kind that is not known confines it to nothing.
ScopeHosts(basis) ==
  IF basis.kind = "training" \/ (basis.kind = "verified" /\ basis.method = "http_file")
  THEN {basis.host} ELSE {}

ScopeSuffixes(basis) ==
  IF basis.kind = "verified" /\ basis.method = "dns_txt" THEN {basis.host} ELSE {}

InSuffix(host, d) == host = d \/ <<host, d>> \in Under

NamesAllowed(hosts, suffixes) ==
  {h \in Names : h \in hosts \/ \E d \in suffixes : InSuffix(h, d)}

\* build_scope resolves the hosts, the domains and the target, those of them
\* that are in scope.
ScopeAddresses(hosts, suffixes, target) ==
  UNION {Resolve[n] : n \in (hosts \cup suffixes \cup {target})
                            \cap NamesAllowed(hosts, suffixes)}

\* What the scope guard lets a scan connect to.  A passive decision has no
\* scope, and runs no active step.
Reachable(basis, target) ==
  NamesAllowed(ScopeHosts(basis), ScopeSuffixes(basis)) \cup
    ScopeAddresses(ScopeHosts(basis), ScopeSuffixes(basis), target)
=============================================================================
