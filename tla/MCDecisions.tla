----------------------------- MODULE MCDecisions -----------------------------
(***************************************************************************)
(* What runs to an answer: the triage of a scan's findings by the model    *)
(* within its budget, a search of all OSINT sources, a honeypot's sessions *)
(* and the decision of an attribute policy.  Checked together as the       *)
(* services are: a behaviour is one of a single part, which is chosen at   *)
(* the start, and the parts share no state.                                *)
(***************************************************************************)
EXTENDS TriageBatch, OsintSearch, Honeypot, AccessPolicy

CONSTANTS f1, f2, f3, f4

VARIABLE part

decisionsVars == <<part, triageVars, searchVars, potVars, policyVars>>

-----------------------------------------------------------------------------
(* Values                                                                  *)

TokensOfEach == [f \in Findings |-> CASE f = f2 -> 2 [] f = f3 -> 3 [] OTHER -> 1]

\* The rules of abac/abac_rules.json, with the values they tell apart; "*" is
\* the role of any.
TheRule(roles, of, conditions, effect) ==
  [roles |-> roles, resource |-> of, conditions |-> conditions, effect |-> effect]
Where(attribute, holds) == [attr |-> attribute, holds |-> holds]
TheRules == <<
  TheRule({"analyst"}, "cve_pipeline",
          <<Where("operation", {"read"}), Where("route", Values \ {"export"})>>, "allow"),
  TheRule({"admin"}, "cve_pipeline",
          <<Where("operation", {"read"}), Where("route", {"export"})>>, "allow"),
  TheRule({"analyst"}, "cve_pipeline",
          <<Where("operation", {"action"}), Where("resource_severity", {"critical"})>>,
          "allow"),
  TheRule({"admin"}, "cve_pipeline", <<>>, "allow"),
  TheRule({"viewer"}, "api_scan", <<Where("ip_address", Values \ {"internal"})>>, "deny"),
  TheRule({"viewer"}, "api_scan",
          <<Where("scan_checks", {"sqli"}), Where("ip_address", {"internal"}),
            Where("target_authorized", {"yes"})>>, "allow"),
  TheRule({AnyRole}, "ngfw_rules", <<Where("request_time", Values \ {"inside"})>>, "deny"),
  TheRule({AnyRole}, "ngfw_rules", <<Where("request_time", {"inside"})>>, "allow")>>
ThePolicies == {TheRules, Reverse(TheRules)}
TheAttributes == {"role", "operation", "route", "resource_severity", "ip_address",
                  "scan_checks", "target_authorized", "request_time"}
TheRequest(role, operation, route, severity, address, checks, authorized, time) ==
  [role |-> role, operation |-> operation, route |-> route,
   resource_severity |-> severity, ip_address |-> address, scan_checks |-> checks,
   target_authorized |-> authorized, request_time |-> time]
TheRoles == {"admin", "analyst", "viewer", Missing}
TheRequests == [
  cve_pipeline |->
    {TheRequest(r, o, t, s, "internal", Missing, Missing, "inside") : r \in TheRoles,
       o \in {"read", "action"}, t \in {"export", "other"}, s \in {"critical", "low", Missing}},
  api_scan |->
    {TheRequest(r, "action", "other", Missing, i, c, z, "inside") : r \in TheRoles,
       i \in {"internal", "external", Missing, Bad}, c \in {"sqli", "mixed", Missing},
       z \in {"yes", "no", Missing}},
  ngfw_rules |->
    {TheRequest(r, "action", "other", Missing, "internal", Missing, Missing, q) :
       r \in TheRoles, q \in {"inside", "outside", Missing, Bad}}]

-----------------------------------------------------------------------------

\* Each part starts anywhere it may; the others rest in one state.
DecisionsInit ==
  /\ part \in {"triage", "search", "honeypot", "policy"}
  /\ TriageInit /\ SearchInit /\ PotInit /\ PolicyInit
  /\ part # "search" => installed = {} /\ keys = {}
  /\ part # "policy" => rules = TheRules /\ resource = "api_scan"

Stays(which, vars) == IF part = which THEN TRUE ELSE UNCHANGED vars

DecisionsNext ==
  /\ \/ part = "triage" /\ TriageNext
     \/ part = "search" /\ SearchNext
     \/ part = "honeypot" /\ PotNext
     \/ part = "policy" /\ PolicyNext
  /\ UNCHANGED part
  /\ Stays("triage", triageVars) /\ Stays("search", searchVars)
  /\ Stays("honeypot", potVars) /\ Stays("policy", policyVars)

\* The fairness of the part: that of its own module.
DecisionsFairness ==
  /\ \A f \in Findings : WF_triageVars(part = "triage" /\ TaskStep(f))
  /\ WF_triageVars(part = "triage" /\ MinutePasses)
  /\ SearchFairness
  /\ PotFairness

DecisionsSpec == DecisionsInit /\ [][DecisionsNext]_decisionsVars /\ DecisionsFairness

-----------------------------------------------------------------------------

\* The part's state has its shape.
DecisionsTypeOK ==
  CASE part = "triage" -> TriageTypeOK
    [] part = "search" -> SearchTypeOK
    [] part = "honeypot" -> PotTypeOK
    [] part = "policy" -> PolicyTypeOK

\* What is answered is true of what happened: the summary of a batch
\* (BatchAccounted, SpentDayStops of TriageBatch), the entries of the sources and
\* their status (StatusIsTheTruth, FailuresAreTold of OsintSearch), the rows of
\* the sessions (HitsAreRecordedOnce of Honeypot), and the decision, which is
\* that of the whole set of rules (DecisionIsDeclarative, MissingNeverAllows of
\* AccessPolicy).
AnswersAreTrue ==
  CASE part = "triage" -> BatchAccounted /\ SpentDayStops
    [] part = "search" -> StatusIsTheTruth /\ FailuresAreTold
    [] part = "honeypot" -> HitsAreRecordedOnce
    [] part = "policy" -> DecisionIsDeclarative /\ MissingNeverAllows

\* A batch, a search and a session of the honeypot end, whatever the model, the
\* sources and the peer do or leave undone (BatchEnds, SearchAnswers, SessionsEnd
\* of the parts' modules).
EverythingEnds == (part = "triage" => BatchEnds) /\ SearchAnswers /\ SessionsEnd
=============================================================================
