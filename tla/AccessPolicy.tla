---------------------------- MODULE AccessPolicy ----------------------------
(***************************************************************************)
(* The context-aware policy of auth/dependencies.py: require_abac loads    *)
(* the rules, gathers the attributes of the request, and evaluate walks    *)
(* through the rules in the order of the file.  The walk is modelled rule  *)
(* by rule, because a rule may end it: the decision must not depend on     *)
(* where in the file a rule stands.                                        *)
(***************************************************************************)
EXTENDS Naturals, Sequences

CONSTANTS
  Policies,    \* sequences of rules, as policy_from_dict builds them
  Attributes,  \* the names of the attributes; "role" is one of them
  Values,      \* what an attribute can be, and a condition compares with
  Resources,
  Requests,    \* per resource, the attributes its requests can come with
  Missing,     \* None, or a blank string
  Bad,         \* a value the operator cannot compare: it raises
  AnyRole      \* "*"

(***************************************************************************)
(* A condition names an attribute and the values for which it holds (an    *)
(* eq, in, subset_of, in_networks or within_hours as they stand, the       *)
(* negated ones by the complement).                                        *)
(***************************************************************************)
Condition == [attr : Attributes, holds : SUBSET Values]
Rule ==
  [roles : SUBSET (Values \cup {AnyRole}), resource : Resources,
   conditions : Seq(Condition), effect : {"allow", "deny"}]

Given == Values \cup {Missing, Bad}

ASSUME PolicyAssumption ==
  /\ Policies \subseteq Seq(Rule)
  /\ "role" \in Attributes
  /\ Missing \notin Values /\ Bad \notin Values /\ Missing # Bad
  /\ AnyRole \notin Values
  /\ Requests \in [Resources -> SUBSET [Attributes -> Given]]

VARIABLES
  rules,     \* the rules of this evaluation
  resource,  \* what the endpoint guards
  attrs,     \* the attributes of this request
  at,        \* the rule evaluate looks at next
  allowHit,  \* a matching allow rule has been seen
  decision   \* "gathering", "evaluating", "allowed", "denied"

policyVars == <<rules, resource, attrs, at, allowHit, decision>>

\* A request arrives; nothing is known of it until it has been gathered.
PolicyInit ==
  /\ rules \in Policies
  /\ resource \in Resources
  /\ attrs = [a \in Attributes |-> Missing]
  /\ at = 1
  /\ allowHit = FALSE
  /\ decision = "gathering"

-----------------------------------------------------------------------------

\* Rule.targets.
Targets(rule, given, res) ==
  rule.resource = res /\ (AnyRole \in rule.roles \/ given["role"] \in rule.roles)

LacksAttribute(rule, given) ==
  \E k \in DOMAIN rule.conditions : given[rule.conditions[k].attr] = Missing

Holds(condition, given) == given[condition.attr] \in condition.holds

\* all() stops at the first condition that does not hold, so a value that
\* cannot be compared raises only if every condition before it held.
Raises(rule, given) ==
  \E k \in DOMAIN rule.conditions :
    /\ given[rule.conditions[k].attr] = Bad
    /\ \A j \in 1..(k - 1) : Holds(rule.conditions[j], given)

Matched(rule, given) ==
  \A k \in DOMAIN rule.conditions : Holds(rule.conditions[k], given)

\* The returns of the loop: all of them deny.
StopsTheWalk(rule, given) ==
  \/ LacksAttribute(rule, given) /\ rule.effect = "deny"
  \/ ~LacksAttribute(rule, given) /\ Raises(rule, given)
  \/ ~LacksAttribute(rule, given) /\ Matched(rule, given) /\ rule.effect = "deny"

\* Mutant of AllowsHere.
AllowsThoughMissing(rule, given) ==
  /\ \A k \in DOMAIN rule.conditions :
       Holds(rule.conditions[k], given) \/ given[rule.conditions[k].attr] = Missing
  /\ rule.effect = "allow"

AllowsHere(rule, given) ==
  ~LacksAttribute(rule, given) /\ Matched(rule, given) /\ rule.effect = "allow"

-----------------------------------------------------------------------------

\* get_policy raises, a provider raises, the clock is naive: denied.
GatheringFails ==
  /\ decision = "gathering"
  /\ decision' = "denied"
  /\ UNCHANGED <<rules, resource, attrs, at, allowHit>>

\* build_attributes; without a role evaluate denies at once.
BuildAttributes ==
  /\ decision = "gathering"
  /\ attrs' \in Requests[resource]
  /\ decision' = IF attrs'["role"] = Missing THEN "denied" ELSE "evaluating"
  /\ UNCHANGED <<rules, resource, at, allowHit>>

Current == rules[at]
Applies == at \in DOMAIN rules /\ Targets(Current, attrs, resource)

RuleDenies ==
  /\ decision = "evaluating" /\ Applies
  /\ StopsTheWalk(Current, attrs)
  /\ decision' = "denied"
  /\ UNCHANGED <<rules, resource, attrs, at, allowHit>>

\* Mutant of RulePasses.
RulePassesByTheLast ==
  /\ decision = "evaluating" /\ at \in DOMAIN rules
  /\ ~(Applies /\ StopsTheWalk(Current, attrs))
  /\ allowHit' = (Applies /\ AllowsHere(Current, attrs))
  /\ at' = at + 1
  /\ UNCHANGED <<rules, resource, attrs, decision>>

\* A rule that does not apply or does not match, or an allow rule: on to the next.
RulePasses ==
  /\ decision = "evaluating" /\ at \in DOMAIN rules
  /\ ~(Applies /\ StopsTheWalk(Current, attrs))
  /\ allowHit' = (allowHit \/ (Applies /\ AllowsHere(Current, attrs)))
  /\ at' = at + 1
  /\ UNCHANGED <<rules, resource, attrs, decision>>

Decide ==
  /\ decision = "evaluating" /\ at \notin DOMAIN rules
  /\ decision' = IF allowHit THEN "allowed" ELSE "denied"
  /\ UNCHANGED <<rules, resource, attrs, at, allowHit>>

PolicyNext ==
  GatheringFails \/ BuildAttributes \/ RuleDenies \/ RulePasses \/ Decide

PolicySpec == PolicyInit /\ [][PolicyNext]_policyVars

-----------------------------------------------------------------------------

PolicyTypeOK ==
  /\ rules \in Policies /\ resource \in Resources
  /\ attrs \in [Attributes -> Given]
  /\ at \in 1..(Len(rules) + 1)
  /\ allowHit \in BOOLEAN
  /\ decision \in {"gathering", "evaluating", "allowed", "denied"}

Applicable(policy, given, res) == {i \in DOMAIN policy : Targets(policy[i], given, res)}

\* What the head of auth/dependencies.py promises, without an order.
Grants(policy, given, res) ==
  /\ \E i \in Applicable(policy, given, res) : AllowsHere(policy[i], given)
  /\ \A i \in Applicable(policy, given, res) : ~StopsTheWalk(policy[i], given)

\* The decision is that of the whole set of rules: a deny, a missing
\* attribute of a deny rule, or a value that cannot be compared, wins
\* wherever in the file its rule stands, and otherwise one allow suffices.
DecisionIsDeclarative ==
  /\ decision = "allowed" => Grants(rules, attrs, resource)
  /\ decision = "denied" =>
       \/ attrs["role"] = Missing
       \/ ~Grants(rules, attrs, resource)

\* "A missing attribute can never allow": of a request whose values can all
\* be compared, leaving an attribute out turns no denial into a grant.
MissingNeverAllows ==
  (decision = "denied" /\ attrs["role"] # Missing /\ \A b \in Attributes : attrs[b] # Bad)
    => \A a \in Attributes \ {"role"} :
         ~Grants(rules, [attrs EXCEPT ![a] = Missing], resource)

\* abac/abac_rules.json: "A matching rule whose condition attribute is missing
\* denies."
MatchingRuleNeedsItsAttributes ==
  decision = "allowed" =>
    \A i \in Applicable(rules, attrs, resource) : ~LacksAttribute(rules[i], attrs)
=============================================================================
