---------------------------- MODULE Decisions_proofs ----------------------------
(***************************************************************************)
(* Theorems about the parts that answer a question, for any values of      *)
(* their constants: the attribute policy (AccessPolicy), the triage of a   *)
(* batch (TriageBatch), the search of the sources (OsintSearch), the       *)
(* honeypot (Honeypot), and their composition (MCDecisions).               *)
(***************************************************************************)
EXTENDS MCDecisions, FiniteSetTheorems, SequenceTheorems, TLAPS

-----------------------------------------------------------------------------
(* AccessPolicy                                                            *)

\* The walk stays in the file, and what it has gathered is typed.
THEOREM PolicyTypeCorrect == PolicySpec => []PolicyTypeOK
<1>1. PolicyInit => PolicyTypeOK
  <2> SUFFICES ASSUME PolicyInit PROVE PolicyTypeOK
    OBVIOUS
  <2>1. Len(rules) \in Nat
    BY PolicyAssumption DEF PolicyInit
  <2>2. attrs \in [Attributes -> Given]
    BY DEF PolicyInit, Given
  <2>3. at \in 1..(Len(rules) + 1)
    BY <2>1 DEF PolicyInit
  <2>4. allowHit \in BOOLEAN
    BY DEF PolicyInit
  <2>5. QED
    BY <2>2, <2>3, <2>4 DEF PolicyInit, PolicyTypeOK
<1>2. PolicyTypeOK /\ [PolicyNext]_policyVars => PolicyTypeOK'
  <2> SUFFICES ASSUME PolicyTypeOK, [PolicyNext]_policyVars PROVE PolicyTypeOK'
    OBVIOUS
  <2> USE DEF PolicyTypeOK
  <2>0. Len(rules) \in Nat /\ DOMAIN rules = 1..Len(rules)
    BY PolicyAssumption
  <2>1. CASE GatheringFails
    BY <2>1 DEF GatheringFails
  <2>2. CASE BuildAttributes
    BY <2>2, PolicyAssumption DEF BuildAttributes
  <2>3. CASE RuleDenies
    BY <2>3 DEF RuleDenies
  <2>4. CASE RulePasses
    BY <2>0, <2>4 DEF RulePasses
  <2>5. CASE Decide
    BY <2>5 DEF Decide
  <2>6. CASE UNCHANGED policyVars
    BY <2>6 DEF policyVars
  <2>7. QED
    BY <2>1, <2>2, <2>3, <2>4, <2>5, <2>6 DEF PolicyNext
<1>3. QED
  BY <1>1, <1>2, PTL DEF PolicySpec

\* The walk so far: no rule it has passed stops it, and it remembers whether one of
\* them allows; a denial has its reason in the set of rules.
PolicyInv ==
  /\ at \in Nat \ {0} /\ allowHit \in BOOLEAN
  /\ rules \in Policies
  /\ decision \in {"gathering", "evaluating", "allowed", "denied"}
  /\ decision = "gathering" => /\ at = 1 /\ ~allowHit
                              /\ attrs["role"] = Missing
  /\ decision \in {"evaluating", "allowed"} =>
       /\ at <= Len(rules) + 1
       /\ \A i \in Applicable(rules, attrs, resource) :
            i < at => ~StopsTheWalk(rules[i], attrs)
       /\ allowHit <=> \E i \in Applicable(rules, attrs, resource) :
                          i < at /\ AllowsHere(rules[i], attrs)
  /\ decision = "allowed" => at = Len(rules) + 1
  /\ DecisionIsDeclarative

\* The decision is that of the whole set of rules, for any policy, any attributes
\* and any request: by induction along the walk.
THEOREM DecidedByTheSet == PolicySpec => []DecisionIsDeclarative
<1>1. PolicyInit => PolicyInv
  <2> SUFFICES ASSUME PolicyInit PROVE PolicyInv
    OBVIOUS
  <2>1. attrs["role"] = Missing
    BY PolicyAssumption DEF PolicyInit
  <2>2. decision = "gathering" /\ at = 1 /\ allowHit = FALSE /\ rules \in Policies
    BY DEF PolicyInit
  <2>3. DecisionIsDeclarative
    BY <2>2 DEF DecisionIsDeclarative
  <2>4. at \in Nat \ {0}
    BY DEF PolicyInit
  <2>5. allowHit \in BOOLEAN
    BY Zenon DEF PolicyInit
  <2>6. decision \notin {"evaluating", "allowed"}
        /\ decision \in {"gathering", "evaluating", "allowed", "denied"}
    BY <2>2
  <2>7. decision # "allowed" /\ ~(decision \in {"evaluating", "allowed"})
    BY <2>2
  <2>8. at = 1 /\ ~allowHit /\ rules \in Policies
    BY <2>2
  <2>9. QED
    BY <2>1, <2>3, <2>4, <2>5, <2>6, <2>7, <2>8, Zenon DEF PolicyInv
<1>2. PolicyInv /\ [PolicyNext]_policyVars => PolicyInv'
  <2> SUFFICES ASSUME PolicyInv, [PolicyNext]_policyVars PROVE PolicyInv'
    OBVIOUS
  <2> USE DEF PolicyInv
  <2>0. Len(rules) \in Nat /\ DOMAIN rules = 1..Len(rules)
    BY PolicyAssumption
  <2>1. CASE GatheringFails
    BY <2>1 DEF GatheringFails, DecisionIsDeclarative
  <2>2. CASE BuildAttributes
    BY <2>0, <2>2 DEF BuildAttributes, DecisionIsDeclarative, Applicable
  <2>3. CASE RuleDenies
    <3>1. /\ at \in Applicable(rules, attrs, resource) /\ StopsTheWalk(rules[at], attrs)
          /\ UNCHANGED <<rules, resource, attrs, at, allowHit>> /\ decision' = "denied"
      BY <2>3 DEF RuleDenies, Applies, Current, Applicable
    <3>2. ~Grants(rules, attrs, resource)
      BY <3>1 DEF Grants
    <3>3. QED
      BY <3>1, <3>2 DEF DecisionIsDeclarative
  <2>4. CASE RulePasses
    <3>1. /\ decision = "evaluating" /\ at \in 1..Len(rules) /\ at' = at + 1
          /\ UNCHANGED <<rules, resource, attrs, decision>>
      BY <2>0, <2>4 DEF RulePasses
    <3>2. at \in Applicable(rules, attrs, resource) <=> Applies
      BY <2>0, <3>1 DEF Applies, Current, Applicable
    <3>3. /\ ~(Applies /\ StopsTheWalk(rules[at], attrs))
          /\ allowHit' <=> (allowHit \/ (Applies /\ AllowsHere(rules[at], attrs)))
      BY <2>4 DEF RulePasses, Current
    <3>4. \A i \in Applicable(rules, attrs, resource) : i \in Nat /\ (i < at + 1 <=> i < at \/ i = at)
      BY <2>0, <3>1 DEF Applicable
    <3>5. \A i \in Applicable(rules, attrs, resource) :
            i < at + 1 => ~StopsTheWalk(rules[i], attrs)
      BY <3>1, <3>2, <3>3, <3>4
    <3>6. allowHit' <=> \E i \in Applicable(rules, attrs, resource) :
                          i < at + 1 /\ AllowsHere(rules[i], attrs)
      BY <3>1, <3>2, <3>3, <3>4
    <3>7. allowHit' \in BOOLEAN
      BY <2>4 DEF RulePasses
    <3>8. QED
      BY <2>0, <3>1, <3>5, <3>6, <3>7 DEF DecisionIsDeclarative
  <2>5. CASE Decide
    <3>1. /\ at = Len(rules) + 1 /\ decision = "evaluating"
          /\ UNCHANGED <<rules, resource, attrs, at, allowHit>>
          /\ decision' = IF allowHit THEN "allowed" ELSE "denied"
      BY <2>0, <2>5 DEF Decide
    <3>2. \A i \in Applicable(rules, attrs, resource) : i < at
      BY <2>0, <3>1 DEF Applicable
    <3>3. allowHit <=> Grants(rules, attrs, resource)
      BY <3>1, <3>2 DEF Grants
    <3>4. QED
      BY <3>1, <3>3 DEF DecisionIsDeclarative
  <2>6. CASE UNCHANGED policyVars
    BY <2>6 DEF policyVars, DecisionIsDeclarative
  <2>7. QED
    BY <2>1, <2>2, <2>3, <2>4, <2>5, <2>6 DEF PolicyNext
<1>3. PolicyInv => DecisionIsDeclarative
  BY DEF PolicyInv
<1>4. QED
  BY <1>1, <1>2, <1>3, PTL DEF PolicySpec

\* Of a request whose values can all be compared, leaving an attribute out allows
\* nothing that was not allowed with it.
LEMMA LeavingOutGrantsNothing ==
  ASSUME NEW policy \in Seq(Rule), NEW given \in [Attributes -> Given], NEW res,
         \A b \in Attributes : given[b] # Bad,
         NEW a \in Attributes \ {"role"},
         Grants(policy, [given EXCEPT ![a] = Missing], res)
  PROVE  Grants(policy, given, res)
<1> DEFINE less == [given EXCEPT ![a] = Missing]
<1>1. /\ less \in [Attributes -> Given] /\ less[a] = Missing
      /\ \A b \in Attributes \ {a} : less[b] = given[b]
      /\ less["role"] = given["role"]
  BY PolicyAssumption DEF Given
<1>2. Applicable(policy, less, res) = Applicable(policy, given, res)
  BY <1>1 DEF Applicable, Targets
<1>3. ASSUME NEW i \in DOMAIN policy
      PROVE  \A k \in DOMAIN policy[i].conditions :
               policy[i].conditions[k].attr \in Attributes
  <2>1. policy[i] \in Rule
    BY <1>3
  <2>2. policy[i].conditions \in Seq(Condition)
    BY <2>1 DEF Rule
  <2>3. \A k \in DOMAIN policy[i].conditions : policy[i].conditions[k] \in Condition
    BY <2>2
  <2>4. QED
    BY <2>3 DEF Condition
<1>4. ASSUME NEW i \in DOMAIN policy, ~LacksAttribute(policy[i], less)
      PROVE  \A k \in DOMAIN policy[i].conditions :
               less[policy[i].conditions[k].attr] = given[policy[i].conditions[k].attr]
  BY <1>1, <1>3, <1>4 DEF LacksAttribute
<1>5. ASSUME NEW i \in DOMAIN policy, LacksAttribute(policy[i], given)
      PROVE  LacksAttribute(policy[i], less)
  BY <1>1, <1>3, <1>5 DEF LacksAttribute
<1>6. ASSUME NEW i \in DOMAIN policy, AllowsHere(policy[i], less)
      PROVE  AllowsHere(policy[i], given)
  BY <1>4, <1>6 DEF AllowsHere, LacksAttribute, Matched, Holds
<1>7. ASSUME NEW i \in DOMAIN policy, StopsTheWalk(policy[i], given)
      PROVE  StopsTheWalk(policy[i], less)
  <2>1. ~Raises(policy[i], given)
    BY <1>3 DEF Raises
  <2>2. policy[i].effect = "deny"
    BY <1>7, <2>1 DEF StopsTheWalk
  <2>3. CASE LacksAttribute(policy[i], less)
    BY <2>2, <2>3 DEF StopsTheWalk
  <2>4. CASE ~LacksAttribute(policy[i], less)
    <3>1. Matched(policy[i], given)
      BY <1>5, <1>7, <2>1, <2>4 DEF StopsTheWalk
    <3>2. Matched(policy[i], less)
      BY <1>4, <2>4, <3>1 DEF Matched, Holds
    <3>3. QED
      BY <2>2, <2>4, <3>2 DEF StopsTheWalk
  <2>5. QED
    BY <2>3, <2>4
<1>8. QED
  BY <1>2, <1>6, <1>7 DEF Grants, Applicable

\* "A missing attribute can never allow", for any policy and request.
THEOREM MissingAllowsNothing == PolicySpec => []MissingNeverAllows
<1>1. PolicyTypeOK /\ DecisionIsDeclarative => MissingNeverAllows
  <2> SUFFICES ASSUME PolicyTypeOK, DecisionIsDeclarative,
                      decision = "denied", attrs["role"] # Missing,
                      \A b \in Attributes : attrs[b] # Bad,
                      NEW a \in Attributes \ {"role"},
                      Grants(rules, [attrs EXCEPT ![a] = Missing], resource)
               PROVE  FALSE
    BY DEF MissingNeverAllows
  <2>1. rules \in Seq(Rule) /\ attrs \in [Attributes -> Given]
    BY PolicyAssumption DEF PolicyTypeOK
  <2>2. Grants(rules, attrs, resource)
    BY <2>1, LeavingOutGrantsNothing
  <2>3. QED
    BY <2>2 DEF DecisionIsDeclarative
<1>2. QED
  BY <1>1, PolicyTypeCorrect, DecidedByTheSet, PTL

-----------------------------------------------------------------------------
(* TriageBatch                                                             *)

NoTwice(queue) == \A i, j \in DOMAIN queue : queue[i] = queue[j] => i = j

\* Who joins the queue of a lock is its last, and stands there once.
LEMMA JoinsTheQueue ==
  ASSUME NEW S, NEW queue \in Seq(S), NoTwice(queue), NEW f \in S, f \notin ToSet(queue)
  PROVE  /\ Append(queue, f) \in Seq(S) /\ NoTwice(Append(queue, f))
         /\ ToSet(Append(queue, f)) = ToSet(queue) \cup {f}
<1> DEFINE joined == Append(queue, f)
<1>1. /\ joined \in Seq(S) /\ Len(queue) \in Nat /\ Len(joined) = Len(queue) + 1
      /\ DOMAIN queue = 1..Len(queue) /\ DOMAIN joined = 1..(Len(queue) + 1)
      /\ \A i \in 1..Len(queue) : joined[i] = queue[i]
      /\ joined[Len(queue) + 1] = f
  OBVIOUS
<1> HIDE DEF joined
<1>2. \A i \in DOMAIN joined : i \in DOMAIN queue \/ i = Len(queue) + 1
  BY <1>1
<1>3. \A i \in DOMAIN queue : queue[i] # f /\ joined[i] = queue[i] /\ i \in DOMAIN joined
  BY <1>1 DEF ToSet
<1>4. NoTwice(joined)
  BY <1>1, <1>2, <1>3 DEF NoTwice
<1>5. ToSet(joined) = ToSet(queue) \cup {f}
  <2>1. ToSet(joined) \subseteq ToSet(queue) \cup {f}
    BY <1>1, <1>2, <1>3 DEF ToSet
  <2>2. ToSet(queue) \subseteq ToSet(joined)
    BY <1>3 DEF ToSet
  <2>3. f \in ToSet(joined)
    BY <1>1 DEF ToSet
  <2>4. QED
    BY <2>1, <2>2, <2>3
<1>6. QED
  BY <1>1, <1>4, <1>5 DEF joined

\* When the holder of the lock lets go of it, the others stay as they stand.
LEMMA LeavesTheQueue ==
  ASSUME NEW S, NEW queue \in Seq(S), NoTwice(queue), queue # <<>>
  PROVE  /\ Tail(queue) \in Seq(S) /\ NoTwice(Tail(queue))
         /\ ToSet(Tail(queue)) = ToSet(queue) \ {Head(queue)}
<1> DEFINE rest == Tail(queue)
<1>1. /\ rest \in Seq(S) /\ Len(queue) \in Nat /\ Len(queue) > 0
      /\ DOMAIN queue = 1..Len(queue) /\ DOMAIN rest = 1..(Len(queue) - 1)
      /\ \A i \in 1..(Len(queue) - 1) : rest[i] = queue[i + 1]
      /\ Head(queue) = queue[1]
  OBVIOUS
<1> HIDE DEF rest
<1>2. \A i \in DOMAIN rest : /\ i \in Nat /\ i + 1 \in DOMAIN queue /\ i + 1 # 1
                             /\ rest[i] = queue[i + 1]
  BY <1>1
<1>3. NoTwice(rest)
  <2> SUFFICES ASSUME NEW i \in DOMAIN rest, NEW j \in DOMAIN rest, rest[i] = rest[j]
               PROVE  i = j
    BY DEF NoTwice
  <2>1. i + 1 = j + 1 /\ i \in Nat /\ j \in Nat
    BY <1>2 DEF NoTwice
  <2>2. QED
    BY <2>1
<1>4. \A x \in ToSet(rest) : x \in ToSet(queue) /\ x # queue[1]
  <2> SUFFICES ASSUME NEW i \in DOMAIN rest
               PROVE  rest[i] \in ToSet(queue) /\ rest[i] # queue[1]
    BY DEF ToSet
  <2>1. 1 \in DOMAIN queue
    BY <1>1
  <2>2. QED
    BY <1>2, <2>1 DEF ToSet, NoTwice
<1>5. \A x \in ToSet(queue) : x # queue[1] => x \in ToSet(rest)
  <2> SUFFICES ASSUME NEW i \in DOMAIN queue, queue[i] # queue[1]
               PROVE  queue[i] \in ToSet(rest)
    BY DEF ToSet
  <2>1. i - 1 \in DOMAIN rest /\ rest[i - 1] = queue[i]
    BY <1>1
  <2>2. QED
    BY <2>1 DEF ToSet
<1>6. QED
  BY <1>1, <1>3, <1>4, <1>5 DEF rest

Acquiring == {f \in Findings : task[f] = "acquiring"}

\* The semaphore holds; nobody waits for the lock twice; and while the day is spent,
\* the calls already made and those that are still past the event are fewer than the
\* semaphore lets in: the one that found out is neither.
TriageInv ==
  /\ TriageTypeOK
  /\ lockQueue \in Seq(Findings) /\ NoTwice(lockQueue)
  /\ BatchAccounted
  /\ Cardinality(Inside) <= Concurrency
  /\ lateCalls + Cardinality(Acquiring) <= Cardinality(Findings)
  /\ ~exhausted => lateCalls = 0
  /\ exhausted => lateCalls + Cardinality(Acquiring) < Concurrency

LEMMA SetsAreFinite ==
  ASSUME NEW S \in SUBSET Findings
  PROVE  /\ IsFiniteSet(S) /\ Cardinality(S) \in Nat
         /\ Cardinality(S) <= Cardinality(Findings)
         /\ Cardinality(Findings) \in Nat
         /\ \A f \in Findings \ S : Cardinality(S \cup {f}) = Cardinality(S) + 1
         /\ \A f \in S : Cardinality(S \ {f}) = Cardinality(S) - 1
BY TriageAssumption, FS_Subset, FS_CardinalityType, FS_AddElement, FS_RemoveElement

\* What the end of a task with a verdict changes of the sums.
LEMMA TaskEnds ==
  ASSUME TriageInv, NEW f \in Findings, task[f] # "done",
         NEW v \in {"model", "fallback", "deferred"}, Ends(f, v)
  PROVE  /\ task' \in [Findings -> {"waiting", "acquiring", "calling", "seeding", "done"}]
         /\ verdict' \in [Findings -> {"none", "model", "fallback", "deferred"}]
         /\ Having("none")' = {g \in Findings : task'[g] # "done"}
         /\ Having("deferred")' =
              IF v = "deferred" THEN Having("deferred") \cup {f} ELSE Having("deferred")
         /\ (Having("model") \cup Having("fallback"))' =
              IF v = "deferred" THEN Having("model") \cup Having("fallback")
                                ELSE Having("model") \cup Having("fallback") \cup {f}
         /\ f \notin Having("deferred") /\ f \notin Having("model") \cup Having("fallback")
         /\ Inside' = Inside \ {f} /\ Acquiring' = Acquiring \ {f}
         /\ {g \in Findings : task'[g] \in {"acquiring", "seeding"}} =
              {g \in Findings : task[g] \in {"acquiring", "seeding"}} \ {f}
<1>1. /\ task \in [Findings -> {"waiting", "acquiring", "calling", "seeding", "done"}]
      /\ verdict \in [Findings -> {"none", "model", "fallback", "deferred"}]
      /\ Having("none") = {g \in Findings : task[g] # "done"}
  BY DEF TriageInv, TriageTypeOK, BatchAccounted
<1>2. /\ task' = [task EXCEPT ![f] = "done"] /\ verdict' = [verdict EXCEPT ![f] = v]
  BY DEF Ends
<1>3. verdict[f] = "none"
  BY <1>1 DEF Having
<1>4. /\ task' \in [Findings -> {"waiting", "acquiring", "calling", "seeding", "done"}]
      /\ verdict' \in [Findings -> {"none", "model", "fallback", "deferred"}]
      /\ \A g \in Findings \ {f} : task'[g] = task[g] /\ verdict'[g] = verdict[g]
      /\ task'[f] = "done" /\ verdict'[f] = v
  BY <1>1, <1>2
<1>5. Having("none")' = {g \in Findings : task'[g] # "done"}
  BY <1>1, <1>4 DEF Having
<1>6. /\ Having("deferred")' =
           IF v = "deferred" THEN Having("deferred") \cup {f} ELSE Having("deferred")
      /\ f \notin Having("deferred") /\ f \notin Having("model") \cup Having("fallback")
  BY <1>3, <1>4 DEF Having
<1>7. (Having("model") \cup Having("fallback"))' =
        IF v = "deferred" THEN Having("model") \cup Having("fallback")
                          ELSE Having("model") \cup Having("fallback") \cup {f}
  BY <1>3, <1>4 DEF Having
<1>8. Inside' = Inside \ {f} /\ Acquiring' = Acquiring \ {f}
  BY <1>4 DEF Inside, Acquiring
<1>9. {g \in Findings : task'[g] \in {"acquiring", "seeding"}} =
        {g \in Findings : task[g] \in {"acquiring", "seeding"}} \ {f}
  BY <1>4
<1>10. QED
  BY <1>4, <1>5, <1>6, <1>7, <1>8, <1>9

\* A result that is counted where it belongs keeps the summary true.
LEMMA ResultsAddUp ==
  ASSUME TriageInv, NEW f \in Findings, task[f] # "done",
         NEW v \in {"model", "fallback", "deferred"}, Ends(f, v),
         v = "deferred" => counts' = [counts EXCEPT !.deferred_tpd = @ + 1] /\ exhausted',
         v # "deferred" => counts' = [counts EXCEPT !.succeeded = @ + 1] /\ exhausted' = exhausted
  PROVE  BatchAccounted' /\ counts' \in [succeeded : 0..Cardinality(Findings),
                                         deferred_tpd : 0..Cardinality(Findings)]
<1> DEFINE late == Having("deferred")
           sure == Having("model") \cup Having("fallback")
<1>1. /\ counts \in [succeeded : 0..Cardinality(Findings), deferred_tpd : 0..Cardinality(Findings)]
      /\ Cardinality(late) = counts.deferred_tpd /\ Cardinality(sure) = counts.succeeded
      /\ Having("deferred") # {} => exhausted
  BY DEF TriageInv, TriageTypeOK, BatchAccounted
<1>2. late \subseteq Findings /\ sure \subseteq Findings /\ late' \subseteq Findings /\ sure' \subseteq Findings
  BY DEF Having
<1>3. /\ late' = (IF v = "deferred" THEN late \cup {f} ELSE late)
      /\ sure' = (IF v = "deferred" THEN sure ELSE sure \cup {f})
      /\ f \notin late /\ f \notin sure
      /\ Having("none")' = {g \in Findings : task'[g] # "done"}
  BY TaskEnds
<1> HIDE DEF late, sure
<1>4. /\ Cardinality(late') \in 0..Cardinality(Findings)
      /\ Cardinality(sure') \in 0..Cardinality(Findings)
  BY <1>2, SetsAreFinite
<1>5. /\ Cardinality(late \cup {f}) = Cardinality(late) + 1
      /\ Cardinality(sure \cup {f}) = Cardinality(sure) + 1
  BY <1>2, <1>3, SetsAreFinite
<1>6. CASE v = "deferred"
  <2>1. counts' = [counts EXCEPT !.deferred_tpd = counts.deferred_tpd + 1] /\ exhausted'
    BY <1>6
  <2>2. counts'.deferred_tpd = Cardinality(late') /\ counts'.succeeded = Cardinality(sure')
    BY <1>1, <1>3, <1>5, <1>6, <2>1
  <2>3. counts' \in [succeeded : 0..Cardinality(Findings), deferred_tpd : 0..Cardinality(Findings)]
    BY <1>1, <1>3, <1>4, <1>5, <1>6, <2>1
  <2>4. QED
    BY <1>3, <2>1, <2>2, <2>3 DEF BatchAccounted, late, sure
<1>7. CASE v # "deferred"
  <2>1. counts' = [counts EXCEPT !.succeeded = counts.succeeded + 1] /\ exhausted' = exhausted
    BY <1>7
  <2>2. counts'.deferred_tpd = Cardinality(late') /\ counts'.succeeded = Cardinality(sure')
    BY <1>1, <1>3, <1>5, <1>7, <2>1
  <2>3. counts' \in [succeeded : 0..Cardinality(Findings), deferred_tpd : 0..Cardinality(Findings)]
    BY <1>1, <1>3, <1>4, <1>5, <1>7, <2>1
  <2>4. late' # {} => exhausted'
    BY <1>1, <1>3, <1>7, <2>1 DEF late
  <2>5. QED
    BY <1>3, <2>2, <2>3, <2>4 DEF BatchAccounted, late, sure
<1>8. QED
  BY <1>6, <1>7

\* What a task that goes on changes.
LEMMA TaskGoesOn ==
  ASSUME TriageInv, NEW f \in Findings, task[f] # "done",
         NEW place \in {"acquiring", "calling", "seeding"},
         task' = [task EXCEPT ![f] = place], UNCHANGED <<verdict, counts, exhausted>>
  PROVE  /\ task' \in [Findings -> {"waiting", "acquiring", "calling", "seeding", "done"}]
         /\ verdict' \in [Findings -> {"none", "model", "fallback", "deferred"}]
         /\ counts' \in [succeeded : 0..Cardinality(Findings),
                         deferred_tpd : 0..Cardinality(Findings)]
         /\ exhausted' \in BOOLEAN
         /\ BatchAccounted'
         /\ Inside' = Inside \cup {f}
         /\ Acquiring' = IF place = "acquiring" THEN Acquiring \cup {f} ELSE Acquiring \ {f}
         /\ {g \in Findings : task'[g] \in {"acquiring", "seeding"}} =
              IF place = "calling"
              THEN {g \in Findings : task[g] \in {"acquiring", "seeding"}} \ {f}
              ELSE {g \in Findings : task[g] \in {"acquiring", "seeding"}} \cup {f}
<1>1. /\ task \in [Findings -> {"waiting", "acquiring", "calling", "seeding", "done"}]
      /\ verdict \in [Findings -> {"none", "model", "fallback", "deferred"}]
      /\ counts \in [succeeded : 0..Cardinality(Findings), deferred_tpd : 0..Cardinality(Findings)]
      /\ exhausted \in BOOLEAN /\ BatchAccounted
  BY DEF TriageInv, TriageTypeOK
<1>2. /\ task' \in [Findings -> {"waiting", "acquiring", "calling", "seeding", "done"}]
      /\ \A g \in Findings \ {f} : task'[g] = task[g]
      /\ task'[f] = place
  BY <1>1
<1>3. {g \in Findings : task'[g] # "done"} = {g \in Findings : task[g] # "done"}
  BY <1>2
<1>4. BatchAccounted'
  BY <1>1, <1>3 DEF BatchAccounted, Having
<1>5. Inside' = Inside \cup {f}
  BY <1>2 DEF Inside
<1>6. Acquiring' = IF place = "acquiring" THEN Acquiring \cup {f} ELSE Acquiring \ {f}
  BY <1>2 DEF Acquiring
<1>7. {g \in Findings : task'[g] \in {"acquiring", "seeding"}} =
        IF place = "calling"
        THEN {g \in Findings : task[g] \in {"acquiring", "seeding"}} \ {f}
        ELSE {g \in Findings : task[g] \in {"acquiring", "seeding"}} \cup {f}
  BY <1>2
<1>8. QED
  BY <1>1, <1>2, <1>4, <1>5, <1>6, <1>7

\* The semaphore and the spent day count sets that only shrink when a task ends.
LEMMA FewerInside ==
  ASSUME TriageInv, NEW f \in Findings, Inside' = Inside \ {f}, Acquiring' = Acquiring \ {f},
         UNCHANGED lateCalls
  PROVE  /\ lateCalls' \in 0..Cardinality(Findings)
         /\ Cardinality(Inside') <= Concurrency
         /\ lateCalls' + Cardinality(Acquiring') <= Cardinality(Findings)
         /\ exhausted => lateCalls' + Cardinality(Acquiring') < Concurrency
         /\ f \in Inside /\ ~exhausted => lateCalls' + Cardinality(Acquiring') < Concurrency
<1>1. Inside \subseteq Findings /\ Acquiring \subseteq Inside /\ Acquiring \subseteq Findings
  BY DEF Inside, Acquiring
<1>2. /\ Cardinality(Inside) \in Nat /\ Cardinality(Acquiring) \in Nat
      /\ Cardinality(Findings) \in Nat /\ Cardinality(Inside \ {f}) \in Nat
      /\ Cardinality(Acquiring \ {f}) \in Nat
      /\ Cardinality(Inside \ {f}) <= Cardinality(Inside)
      /\ f \in Inside => Cardinality(Inside \ {f}) = Cardinality(Inside) - 1
      /\ Cardinality(Acquiring \ {f}) <= Cardinality(Acquiring)
      /\ Cardinality(Acquiring \ {f}) <= Cardinality(Inside \ {f})
  <2>1. IsFiniteSet(Inside) /\ IsFiniteSet(Acquiring) /\ IsFiniteSet(Inside \ {f})
    BY <1>1, SetsAreFinite
  <2>2. /\ Inside \ {f} \subseteq Inside /\ Acquiring \ {f} \subseteq Acquiring
        /\ Acquiring \ {f} \subseteq Inside \ {f}
    BY <1>1
  <2>3. f \in Inside => Cardinality(Inside \ {f}) = Cardinality(Inside) - 1
    BY <1>1, SetsAreFinite
  <2>4. /\ Cardinality(Inside) \in Nat /\ Cardinality(Acquiring) \in Nat
        /\ Cardinality(Findings) \in Nat /\ Cardinality(Inside \ {f}) \in Nat
        /\ Cardinality(Acquiring \ {f}) \in Nat
    BY <1>1, <2>2, SetsAreFinite
  <2>5. QED
    BY <2>1, <2>2, <2>3, <2>4, FS_Subset
<1>3. /\ lateCalls \in 0..Cardinality(Findings) /\ Concurrency \in Nat
      /\ Cardinality(Inside) <= Concurrency
      /\ lateCalls + Cardinality(Acquiring) <= Cardinality(Findings)
      /\ ~exhausted => lateCalls = 0
      /\ exhausted => lateCalls + Cardinality(Acquiring) < Concurrency
  BY TriageAssumption DEF TriageInv, TriageTypeOK
<1>4. QED
  BY <1>2, <1>3

\* The limiter's lock hands itself on in order.
LEMMA LockMoves ==
  ASSUME TriageInv, NEW f \in Findings
  PROVE  /\ task[f] \notin {"acquiring", "seeding"} =>
              /\ Append(lockQueue, f) \in Seq(Findings) /\ NoTwice(Append(lockQueue, f))
              /\ ToSet(Append(lockQueue, f)) =
                   {g \in Findings : task[g] \in {"acquiring", "seeding"}} \cup {f}
         /\ HasLock(f) =>
              /\ Tail(lockQueue) \in Seq(Findings) /\ NoTwice(Tail(lockQueue))
              /\ ToSet(Tail(lockQueue)) =
                   {g \in Findings : task[g] \in {"acquiring", "seeding"}} \ {f}
<1>1. /\ lockQueue \in Seq(Findings) /\ NoTwice(lockQueue)
      /\ ToSet(lockQueue) = {g \in Findings : task[g] \in {"acquiring", "seeding"}}
  BY DEF TriageInv, TriageTypeOK
<1>2. ASSUME task[f] \notin {"acquiring", "seeding"}
      PROVE  /\ Append(lockQueue, f) \in Seq(Findings) /\ NoTwice(Append(lockQueue, f))
             /\ ToSet(Append(lockQueue, f)) = ToSet(lockQueue) \cup {f}
  <2>1. f \notin ToSet(lockQueue)
    BY <1>1, <1>2
  <2>2. QED
    BY <1>1, <2>1, JoinsTheQueue
<1>3. ASSUME HasLock(f)
      PROVE  /\ Tail(lockQueue) \in Seq(Findings) /\ NoTwice(Tail(lockQueue))
             /\ ToSet(Tail(lockQueue)) = ToSet(lockQueue) \ {f}
  <2>1. lockQueue # <<>> /\ Head(lockQueue) = f
    BY <1>3 DEF HasLock
  <2>2. QED
    BY <1>1, <2>1, LeavesTheQueue
<1>4. QED
  BY <1>1, <1>2, <1>3

LEMMA TriageInvStep == TriageInv /\ [TriageNext]_triageVars => TriageInv'
<1> SUFFICES ASSUME TriageInv, [TriageNext]_triageVars PROVE TriageInv'
  OBVIOUS
<1> DEFINE AtTheLock == {g \in Findings : task[g] \in {"acquiring", "seeding"}}
<1>1. /\ task \in [Findings -> {"waiting", "acquiring", "calling", "seeding", "done"}]
      /\ ToSet(lockQueue) = AtTheLock
      /\ minute \in Seq(Findings) /\ day \in Seq(Nat) /\ exhausted \in BOOLEAN
      /\ lateCalls \in 0..Cardinality(Findings)
      /\ lockQueue \in Seq(Findings) /\ NoTwice(lockQueue)
      /\ Cardinality(Inside) <= Concurrency
      /\ lateCalls + Cardinality(Acquiring) <= Cardinality(Findings)
      /\ ~exhausted => lateCalls = 0
      /\ exhausted => lateCalls + Cardinality(Acquiring) < Concurrency
  BY DEF TriageInv, TriageTypeOK
<1>2. Concurrency \in Nat \ {0} /\ Tokens \in [Findings -> Nat \ {0}] /\ RealUsed \subseteq Nat
  BY TriageAssumption
<1>3. /\ Inside \subseteq Findings /\ Acquiring \subseteq Findings
      /\ Cardinality(Inside) \in Nat /\ Cardinality(Acquiring) \in Nat
      /\ Cardinality(Findings) \in Nat
  <2>1. Inside \subseteq Findings /\ Acquiring \subseteq Findings
    BY DEF Inside, Acquiring
  <2>2. QED
    BY <2>1, SetsAreFinite
<1>4. ASSUME NEW f \in Findings, task[f] # "done", Deferred(f), UNCHANGED lateCalls,
             UNCHANGED minute, day' \in Seq(Nat), exhausted' = TRUE,
             exhausted \/ f \in Inside,
             \/ task[f] = "waiting" /\ UNCHANGED lockQueue
             \/ HasLock(f) /\ lockQueue' = Tail(lockQueue)
      PROVE  TriageInv'
  <2>1. /\ Ends(f, "deferred") /\ counts' = [counts EXCEPT !.deferred_tpd = @ + 1]
    BY <1>4 DEF Deferred
  <2>2. /\ task' \in [Findings -> {"waiting", "acquiring", "calling", "seeding", "done"}]
        /\ verdict' \in [Findings -> {"none", "model", "fallback", "deferred"}]
        /\ Inside' = Inside \ {f} /\ Acquiring' = Acquiring \ {f} /\ AtTheLock' = AtTheLock \ {f}
    BY <1>4, <2>1, TaskEnds
  <2>3. BatchAccounted' /\ counts' \in [succeeded : 0..Cardinality(Findings),
                                        deferred_tpd : 0..Cardinality(Findings)]
    BY <1>4, <2>1, ResultsAddUp
  <2>4. /\ lockQueue' \in Seq(Findings) /\ NoTwice(lockQueue')
        /\ ToSet(lockQueue') = AtTheLock \ {f}
    <3>1. CASE task[f] = "waiting" /\ UNCHANGED lockQueue
      BY <1>1, <3>1
    <3>2. CASE HasLock(f) /\ lockQueue' = Tail(lockQueue)
      BY <3>2, LockMoves
    <3>3. QED
      BY <1>4, <3>1, <3>2
  <2>5. /\ lateCalls' \in 0..Cardinality(Findings)
        /\ Cardinality(Inside') <= Concurrency
        /\ lateCalls' + Cardinality(Acquiring') <= Cardinality(Findings)
        /\ lateCalls' + Cardinality(Acquiring') < Concurrency
    BY <1>1, <1>4, <2>2, FewerInside
  <2>6. minute' \in Seq(Findings)
    BY <1>1, <1>4
  <2>7. TriageTypeOK'
    BY <1>4, <2>2, <2>3, <2>4, <2>5, <2>6 DEF TriageTypeOK
  <2>8. QED
    BY <1>4, <2>3, <2>4, <2>5, <2>7 DEF TriageInv
<1>5. ASSUME NEW f \in Findings, EnterDeferred(f) PROVE TriageInv'
  BY <1>1, <1>4, <1>5 DEF EnterDeferred, StopsAtTheEvent
<1>6. ASSUME NEW f \in Findings, EnterToAcquire(f) PROVE TriageInv'
  <2>1. /\ task[f] = "waiting" /\ Cardinality(Inside) < Concurrency /\ ~exhausted
        /\ task' = [task EXCEPT ![f] = "acquiring"]
        /\ lockQueue' = Append(lockQueue, f)
        /\ UNCHANGED <<verdict, minute, day, exhausted, counts, lateCalls>>
    BY <1>6 DEF EnterToAcquire, StopsAtTheEvent
  <2>2. /\ task' \in [Findings -> {"waiting", "acquiring", "calling", "seeding", "done"}]
        /\ verdict' \in [Findings -> {"none", "model", "fallback", "deferred"}]
        /\ counts' \in [succeeded : 0..Cardinality(Findings), deferred_tpd : 0..Cardinality(Findings)]
        /\ exhausted' \in BOOLEAN
        /\ BatchAccounted'
        /\ Inside' = Inside \cup {f} /\ Acquiring' = Acquiring \cup {f}
        /\ AtTheLock' = AtTheLock \cup {f}
    BY <2>1, TaskGoesOn
  <2>3. /\ lockQueue' \in Seq(Findings) /\ NoTwice(lockQueue')
        /\ ToSet(lockQueue') = AtTheLock \cup {f}
    BY <2>1, LockMoves
  <2>4. f \notin Inside
    BY <2>1 DEF Inside
  <2>5. Cardinality(Inside') <= Concurrency
    <3>1. Cardinality(Inside \cup {f}) = Cardinality(Inside) + 1
      BY <1>3, <2>4, SetsAreFinite
    <3>2. QED
      BY <1>2, <1>3, <2>1, <2>2, <3>1
  <2>6. lateCalls = 0 /\ Acquiring' \subseteq Findings
    BY <1>1, <1>3, <2>1, <2>2
  <2>7. lateCalls' + Cardinality(Acquiring') <= Cardinality(Findings)
    BY <2>1, <2>6, SetsAreFinite
  <2>8. TriageTypeOK'
    BY <1>1, <2>1, <2>2, <2>3 DEF TriageTypeOK
  <2>9. QED
    BY <2>1, <2>2, <2>3, <2>5, <2>6, <2>7, <2>8 DEF TriageInv
<1>7. ASSUME NEW f \in Findings, AcquireRaises(f) PROVE TriageInv'
  <2>1. f \in Inside /\ task[f] # "done"
    BY <1>7 DEF AcquireRaises, Inside
  <2>2. QED
    BY <1>1, <1>4, <1>7, <2>1 DEF AcquireRaises
<1>8. ASSUME NEW f \in Findings, AcquireGrants(f) PROVE TriageInv'
  <2>1. /\ HasLock(f) /\ task[f] = "acquiring"
        /\ lockQueue' = Tail(lockQueue)
        /\ minute' = Append(minute, f) /\ day' = Append(day, Tokens[f])
        /\ task' = [task EXCEPT ![f] = "calling"]
        /\ lateCalls' = lateCalls + (IF exhausted THEN 1 ELSE 0)
        /\ UNCHANGED <<verdict, exhausted, counts>>
    BY <1>8 DEF AcquireGrants
  <2>2. /\ task' \in [Findings -> {"waiting", "acquiring", "calling", "seeding", "done"}]
        /\ verdict' \in [Findings -> {"none", "model", "fallback", "deferred"}]
        /\ counts' \in [succeeded : 0..Cardinality(Findings), deferred_tpd : 0..Cardinality(Findings)]
        /\ exhausted' \in BOOLEAN
        /\ BatchAccounted'
        /\ Inside' = Inside \cup {f} /\ Acquiring' = Acquiring \ {f}
        /\ AtTheLock' = AtTheLock \ {f}
    BY <2>1, TaskGoesOn
  <2>3. /\ lockQueue' \in Seq(Findings) /\ NoTwice(lockQueue')
        /\ ToSet(lockQueue') = AtTheLock \ {f}
    BY <2>1, LockMoves
  <2>4. minute' \in Seq(Findings) /\ day' \in Seq(Nat)
    BY <1>1, <1>2, <2>1
  <2>5. f \in Inside /\ f \in Acquiring
    BY <2>1 DEF Inside, Acquiring
  <2>6. Inside' = Inside /\ Cardinality(Acquiring') = Cardinality(Acquiring) - 1
        /\ Cardinality(Acquiring') \in Nat
    BY <1>3, <2>2, <2>5, SetsAreFinite
  <2>7. /\ lateCalls' + Cardinality(Acquiring') <= Cardinality(Findings)
        /\ lateCalls' \in 0..Cardinality(Findings)
        /\ ~exhausted' => lateCalls' = 0
        /\ exhausted' => lateCalls' + Cardinality(Acquiring') < Concurrency
    <3>1. CASE exhausted
      <4>1. lateCalls' = lateCalls + 1 /\ exhausted'
        BY <2>1, <3>1
      <4>2. lateCalls + Cardinality(Acquiring) < Concurrency /\ lateCalls \in Nat
        BY <1>1, <1>3, <3>1
      <4>3. lateCalls' + Cardinality(Acquiring') = lateCalls + Cardinality(Acquiring)
        BY <1>3, <2>6, <4>1, <4>2
      <4>4. lateCalls' \in 0..Cardinality(Findings)
        BY <1>1, <1>3, <2>6, <4>1, <4>2
      <4>5. QED
        BY <1>1, <4>1, <4>2, <4>3, <4>4
    <3>2. CASE ~exhausted
      BY <1>1, <1>2, <1>3, <2>1, <2>6, <3>2
    <3>3. QED
      BY <3>1, <3>2
  <2>8. TriageTypeOK'
    BY <2>2, <2>3, <2>4, <2>7 DEF TriageTypeOK
  <2>9. QED
    BY <1>1, <2>2, <2>3, <2>6, <2>7, <2>8 DEF TriageInv
<1>9. ASSUME NEW f \in Findings, CallReturns(f) PROVE TriageInv'
  <2>1. PICK v \in {"model", "fallback"} : Ends(f, v)
    BY <1>9 DEF CallReturns
  <2>2. /\ task[f] = "calling" /\ counts' = [counts EXCEPT !.succeeded = @ + 1]
        /\ UNCHANGED <<lockQueue, minute, day, exhausted, lateCalls>>
    BY <1>9 DEF CallReturns
  <2>3. /\ task' \in [Findings -> {"waiting", "acquiring", "calling", "seeding", "done"}]
        /\ verdict' \in [Findings -> {"none", "model", "fallback", "deferred"}]
        /\ Inside' = Inside \ {f} /\ Acquiring' = Acquiring \ {f} /\ AtTheLock' = AtTheLock \ {f}
    BY <2>1, <2>2, TaskEnds
  <2>4. BatchAccounted' /\ counts' \in [succeeded : 0..Cardinality(Findings),
                                        deferred_tpd : 0..Cardinality(Findings)]
    BY <2>1, <2>2, ResultsAddUp
  <2>5. AtTheLock \ {f} = AtTheLock
    BY <2>2
  <2>6. /\ lateCalls' \in 0..Cardinality(Findings)
        /\ Cardinality(Inside') <= Concurrency
        /\ lateCalls' + Cardinality(Acquiring') <= Cardinality(Findings)
        /\ exhausted => lateCalls' + Cardinality(Acquiring') < Concurrency
    BY <2>2, <2>3, FewerInside
  <2>7. TriageTypeOK'
    BY <1>1, <2>2, <2>3, <2>4, <2>5, <2>6 DEF TriageTypeOK
  <2>8. QED
    BY <1>1, <2>2, <2>4, <2>6, <2>7 DEF TriageInv
<1>10. ASSUME NEW f \in Findings, CallRefused(f) PROVE TriageInv'
  <2>1. /\ task[f] = "calling"
        /\ task' = [task EXCEPT ![f] = "seeding"]
        /\ lockQueue' = Append(lockQueue, f)
        /\ UNCHANGED <<verdict, minute, day, exhausted, counts, lateCalls>>
    BY <1>10 DEF CallRefused
  <2>2. /\ task' \in [Findings -> {"waiting", "acquiring", "calling", "seeding", "done"}]
        /\ verdict' \in [Findings -> {"none", "model", "fallback", "deferred"}]
        /\ counts' \in [succeeded : 0..Cardinality(Findings), deferred_tpd : 0..Cardinality(Findings)]
        /\ exhausted' \in BOOLEAN
        /\ BatchAccounted'
        /\ Inside' = Inside \cup {f} /\ Acquiring' = Acquiring \ {f}
        /\ AtTheLock' = AtTheLock \cup {f}
    BY <2>1, TaskGoesOn
  <2>3. /\ lockQueue' \in Seq(Findings) /\ NoTwice(lockQueue')
        /\ ToSet(lockQueue') = AtTheLock \cup {f}
    BY <2>1, LockMoves
  <2>4. Inside' = Inside /\ Acquiring' = Acquiring
    BY <2>1, <2>2 DEF Inside, Acquiring
  <2>5. TriageTypeOK'
    BY <1>1, <2>1, <2>2, <2>3 DEF TriageTypeOK
  <2>6. QED
    BY <1>1, <2>1, <2>2, <2>3, <2>4, <2>5 DEF TriageInv
<1>11. ASSUME NEW f \in Findings, Seed(f) PROVE TriageInv'
  <2>1. f \in Inside /\ task[f] # "done"
    BY <1>11 DEF Seed, Inside
  <2>2. day' \in Seq(Nat)
    BY <1>2, <1>11 DEF Seed
  <2>3. QED
    BY <1>4, <1>11, <2>1, <2>2 DEF Seed
<1>12. ASSUME UNCHANGED <<task, verdict, lockQueue, exhausted, counts, lateCalls>>,
              minute' \in Seq(Findings), day' \in Seq(Nat)
       PROVE  TriageInv'
  <2>1. Inside' = Inside /\ Acquiring' = Acquiring
    BY <1>12 DEF Inside, Acquiring
  <2>2. TriageTypeOK'
    BY <1>12 DEF TriageInv, TriageTypeOK
  <2>3. BatchAccounted'
    BY <1>12 DEF TriageInv, BatchAccounted, Having
  <2>4. QED
    BY <1>1, <1>12, <2>1, <2>2, <2>3 DEF TriageInv
<1>13. CASE MinutePasses
  BY <1>1, <1>12, <1>13 DEF MinutePasses
<1>14. CASE SeedAges
  BY <1>1, <1>12, <1>14 DEF SeedAges
<1>15. CASE UNCHANGED triageVars
  BY <1>1, <1>12, <1>15 DEF triageVars
<1>16. QED
  BY <1>5, <1>6, <1>7, <1>8, <1>9, <1>10, <1>11, <1>13, <1>14, <1>15 DEF TriageNext, TaskStep

\* From the start, and on every step.
LEMMA TriageInvHolds == TriageSpec => []TriageInv
<1>1. TriageInit => TriageInv
  <2> SUFFICES ASSUME TriageInit PROVE TriageInv
    OBVIOUS
  <2> USE DEF TriageInit
  <2>1. Inside = {} /\ Acquiring = {} /\ Having("deferred") = {} /\ Having("none") = Findings
        /\ Having("model") \cup Having("fallback") = {}
        /\ {f \in Findings : task[f] \in {"acquiring", "seeding"}} = {}
        /\ {f \in Findings : task[f] # "done"} = Findings
    BY DEF Inside, Acquiring, Having
  <2>2. Cardinality({}) = 0 /\ Cardinality(Findings) \in Nat
    BY TriageAssumption, FS_EmptySet, FS_CardinalityType
  <2>3. ToSet(lockQueue) = {}
    BY DEF ToSet
  <2>4. counts.deferred_tpd = 0 /\ counts.succeeded = 0
        /\ counts \in [succeeded : 0..Cardinality(Findings), deferred_tpd : 0..Cardinality(Findings)]
    BY <2>2
  <2>5. TriageTypeOK
    <3>0. exhausted \in BOOLEAN
      BY Zenon
    <3>1. lateCalls \in 0..Cardinality(Findings)
      BY <2>2
    <3>2. /\ task \in [Findings -> {"waiting", "acquiring", "calling", "seeding", "done"}]
          /\ verdict \in [Findings -> {"none", "model", "fallback", "deferred"}]
          /\ minute \in Seq(Findings) /\ day \in Seq(Nat)
      OBVIOUS
    <3>3. QED
      BY <2>1, <2>3, <2>4, <3>0, <3>1, <3>2 DEF TriageTypeOK
  <2>6. BatchAccounted
    BY <2>1, <2>2, <2>4 DEF BatchAccounted
  <2>7. NoTwice(lockQueue) /\ lockQueue \in Seq(Findings)
    BY DEF NoTwice
  <2>8. Cardinality(Inside) <= Concurrency
        /\ lateCalls + Cardinality(Acquiring) <= Cardinality(Findings)
    BY <2>1, <2>2, TriageAssumption
  <2>9. QED
    BY <2>5, <2>6, <2>7, <2>8 DEF TriageInv
<1>2. QED
  BY <1>1, TriageInvStep, PTL DEF TriageSpec

\* The summary of a batch adds up, and a spent day lets through fewer calls than the
\* semaphore: for any findings, any tokens and any limits.
THEOREM SpentDayEndsTheBatch ==
  TriageSpec => [](TriageTypeOK /\ BatchAccounted /\ SpentDayStops)
<1>1. TriageInv => TriageTypeOK /\ BatchAccounted /\ SpentDayStops
  <2> SUFFICES ASSUME TriageInv PROVE SpentDayStops
    BY DEF TriageInv
  <2>1. Acquiring \subseteq Findings
    BY DEF Acquiring
  <2>2. Cardinality(Acquiring) \in Nat
    BY <2>1, SetsAreFinite
  <2>3. Concurrency \in Nat \ {0} /\ lateCalls \in Nat
    BY TriageAssumption, <2>1, SetsAreFinite DEF TriageInv, TriageTypeOK
  <2>4. QED
    BY <2>2, <2>3 DEF TriageInv, SpentDayStops
<1>2. QED
  BY <1>1, TriageInvHolds, PTL

\* The tasks before some stations, when one of them moves.
LEMMA StationPassed ==
  ASSUME TriageInv, NEW f \in Findings, NEW place, task' = [task EXCEPT ![f] = place],
         NEW S, task[f] \in S => place \in S
  PROVE  /\ Cardinality(Before(S)) \in Nat /\ Cardinality(Before(S)') \in Nat
         /\ Cardinality(Before(S)') <= Cardinality(Before(S))
         /\ task[f] \notin S /\ place \in S =>
              Cardinality(Before(S)') = Cardinality(Before(S)) - 1
<1>1. Before(S) \in SUBSET Findings /\ Before(S)' \in SUBSET Findings
  BY DEF Before
<1>2. task \in [Findings -> {"waiting", "acquiring", "calling", "seeding", "done"}]
  BY DEF TriageInv, TriageTypeOK
<1>3. task'[f] = place /\ \A g \in Findings \ {f} : task'[g] = task[g]
  BY <1>2
<1>4. Cardinality(Before(S)) \in Nat /\ Cardinality(Before(S)') \in Nat
  BY <1>1, SetsAreFinite
<1>5. CASE task[f] \notin S /\ place \in S
  <2>1. f \in Before(S) /\ Before(S)' = Before(S) \ {f}
    BY <1>3, <1>5 DEF Before
  <2>2. Cardinality(Before(S)') = Cardinality(Before(S)) - 1
    BY <1>1, <2>1, SetsAreFinite
  <2>3. QED
    BY <1>4, <2>2
<1>6. CASE ~(task[f] \notin S /\ place \in S)
  <2>1. Before(S)' = Before(S)
    BY <1>3, <1>6 DEF Before
  <2>2. QED
    BY <1>4, <1>6, <2>1
<1>7. QED
  BY <1>5, <1>6

LEMMA StationsCounted ==
  3 * (  Cardinality(Before({"acquiring", "calling", "seeding", "done"}))
       + Cardinality(Before({"calling", "seeding", "done"}))
       + Cardinality(Before({"seeding", "done"}))
       + Cardinality(Before({"done"}))) \in Nat
<1>1. \A S : Before(S) \in SUBSET Findings
  BY DEF Before
<1>2. \A S : Cardinality(Before(S)) \in Nat
  BY <1>1, SetsAreFinite
<1>3. PICK a, b, c, d \in Nat :
        /\ a = Cardinality(Before({"acquiring", "calling", "seeding", "done"}))
        /\ b = Cardinality(Before({"calling", "seeding", "done"}))
        /\ c = Cardinality(Before({"seeding", "done"}))
        /\ d = Cardinality(Before({"done"}))
  BY <1>2
<1>4. 3 * (a + b + c + d) \in Nat
  OBVIOUS
<1>5. QED
  BY <1>3, <1>4

\* A task that passes a station pays for what it adds to the windows.
LEMMA TaskPays ==
  ASSUME TriageInv, NEW f \in Findings, NEW place, task' = [task EXCEPT ![f] = place],
         \/ task[f] = "waiting" /\ place = "acquiring"
         \/ task[f] = "acquiring" /\ place = "calling"
         \/ task[f] = "calling" /\ place = "seeding"
         \/ task[f] # "done" /\ place = "done",
         Len(minute) \in Nat, Len(day) \in Nat, Len(minute') \in Nat, Len(day') \in Nat,
         Len(minute') + Len(day') <= Len(minute) + Len(day) + 2
  PROVE  Work' < Work
<1> DEFINE A == {"acquiring", "calling", "seeding", "done"}
           B == {"calling", "seeding", "done"}
           C == {"seeding", "done"}
           D == {"done"}
<1>1. task[f] \in {"waiting", "acquiring", "calling", "seeding", "done"}
  BY DEF TriageInv, TriageTypeOK
<1>2. \A S \in {A, B, C, D} : task[f] \in S => place \in S
  BY <1>1
<1>3. \E S \in {A, B, C, D} : task[f] \notin S /\ place \in S
  <2>1. CASE task[f] = "waiting" /\ place = "acquiring"
    BY <2>1
  <2>2. CASE task[f] = "acquiring" /\ place = "calling"
    BY <2>2
  <2>3. CASE task[f] = "calling" /\ place = "seeding"
    BY <2>3
  <2>4. CASE task[f] # "done" /\ place = "done"
    BY <2>4
  <2>5. QED
    BY <2>1, <2>2, <2>3, <2>4
<1>4. \A S \in {A, B, C, D} :
        /\ Cardinality(Before(S)) \in Nat /\ Cardinality(Before(S)') \in Nat
        /\ Cardinality(Before(S)') <= Cardinality(Before(S))
        /\ task[f] \notin S /\ place \in S => Cardinality(Before(S)') = Cardinality(Before(S)) - 1
  BY <1>2, StationPassed
<1>5. PICK a, b, c, d, aa, bb, cc, dd :
        /\ a = Cardinality(Before(A)) /\ aa = Cardinality(Before(A)')
        /\ b = Cardinality(Before(B)) /\ bb = Cardinality(Before(B)')
        /\ c = Cardinality(Before(C)) /\ cc = Cardinality(Before(C)')
        /\ d = Cardinality(Before(D)) /\ dd = Cardinality(Before(D)')
  OBVIOUS
<1>6. /\ a \in Nat /\ b \in Nat /\ c \in Nat /\ d \in Nat
      /\ aa \in Nat /\ bb \in Nat /\ cc \in Nat /\ dd \in Nat
      /\ aa <= a /\ bb <= b /\ cc <= c /\ dd <= d
  BY <1>4, <1>5
<1>7. aa < a \/ bb < b \/ cc < c \/ dd < d
  <2>1. PICK S \in {A, B, C, D} : task[f] \notin S /\ place \in S
    BY <1>3
  <2>2. Cardinality(Before(S)) \in Nat /\ Cardinality(Before(S)') = Cardinality(Before(S)) - 1
    BY <1>4, <2>1
  <2>3. Cardinality(Before(S)') < Cardinality(Before(S))
    BY <2>2
  <2>4. QED
    BY <1>5, <2>3
<1>8. /\ Work = 3 * (a + b + c + d) + Len(minute) + Len(day)
      /\ Work' = 3 * (aa + bb + cc + dd) + Len(minute') + Len(day')
  BY <1>5 DEF Work
<1>9. PICK m, n \in Nat : m = Len(minute) + Len(day) /\ n = Len(minute') + Len(day')
  OBVIOUS
<1>10. /\ n <= m + 2 /\ Work = 3 * (a + b + c + d) + m /\ Work' = 3 * (aa + bb + cc + dd) + n
  BY <1>6, <1>8, <1>9
<1>11. aa + bb + cc + dd + 1 <= a + b + c + d
  BY <1>6, <1>7
<1>12. QED
  BY <1>6, <1>10, <1>11

LEMMA TaskEnding ==
  ASSUME TriageInv, NEW f \in Findings, task[f] # "done", task' = [task EXCEPT ![f] = "done"],
         minute' = minute, day' = day
  PROVE  Work' < Work
<1>1. Len(minute) \in Nat /\ Len(day) \in Nat
  BY DEF TriageInv, TriageTypeOK
<1>2. Len(minute') + Len(day') <= Len(minute) + Len(day) + 2
  BY <1>1
<1>3. QED
  BY <1>1, <1>2, TaskPays

LEMMA LessToDo ==
  ASSUME TriageInv, TriageNext
  PROVE  Work' < Work
<1>1. /\ minute \in Seq(Findings) /\ day \in Seq(Nat)
      /\ Len(minute) \in Nat /\ Len(day) \in Nat
  BY DEF TriageInv, TriageTypeOK
<1>2. ASSUME NEW f \in Findings, TaskStep(f) PROVE Work' < Work
  <2>1. CASE EnterDeferred(f)
    <3>1. /\ task[f] # "done" /\ task' = [task EXCEPT ![f] = "done"]
          /\ minute' = minute /\ day' = day
      BY <2>1 DEF EnterDeferred, Deferred, Ends
    <3>2. QED
      BY <1>1, <3>1, TaskEnding
  <2>2. CASE EnterToAcquire(f)
    <3>1. /\ task[f] = "waiting" /\ task' = [task EXCEPT ![f] = "acquiring"]
          /\ minute' = minute /\ day' = day
      BY <2>2 DEF EnterToAcquire
    <3>2. Len(minute') + Len(day') <= Len(minute) + Len(day) + 2
      BY <1>1, <3>1
    <3>3. QED
      BY <1>1, <3>1, <3>2, TaskPays
  <2>3. CASE AcquireRaises(f)
    <3>1. /\ task[f] # "done" /\ task' = [task EXCEPT ![f] = "done"]
          /\ minute' = minute /\ day' = day
      BY <2>3 DEF AcquireRaises, Deferred, Ends
    <3>2. QED
      BY <1>1, <3>1, TaskEnding
  <2>4. CASE AcquireGrants(f)
    <3>1. /\ minute' = Append(minute, f) /\ day' = Append(day, Tokens[f])
          /\ task[f] = "acquiring" /\ task' = [task EXCEPT ![f] = "calling"]
      BY <2>4 DEF AcquireGrants
    <3>2. Tokens[f] \in Nat
      BY TriageAssumption
    <3>3. Len(minute') = Len(minute) + 1 /\ Len(day') = Len(day) + 1
      BY <1>1, <3>1, <3>2
    <3>4. /\ Len(minute') \in Nat /\ Len(day') \in Nat
          /\ Len(minute') + Len(day') <= Len(minute) + Len(day) + 2
      BY <1>1, <3>3
    <3>5. QED
      BY <1>1, <3>1, <3>4, TaskPays
  <2>5. CASE CallReturns(f)
    <3>1. /\ task[f] # "done" /\ task' = [task EXCEPT ![f] = "done"]
          /\ minute' = minute /\ day' = day
      BY <2>5 DEF CallReturns, Ends
    <3>2. QED
      BY <1>1, <3>1, TaskEnding
  <2>6. CASE CallRefused(f)
    <3>1. /\ task[f] = "calling" /\ task' = [task EXCEPT ![f] = "seeding"]
          /\ minute' = minute /\ day' = day
      BY <2>6 DEF CallRefused
    <3>2. Len(minute') + Len(day') <= Len(minute) + Len(day) + 2
      BY <1>1, <3>1
    <3>3. QED
      BY <1>1, <3>1, <3>2, TaskPays
  <2>7. CASE Seed(f)
    <3>1. /\ task[f] # "done" /\ task' = [task EXCEPT ![f] = "done"] /\ minute' = minute
      BY <2>7 DEF Seed, Deferred, Ends
    <3>2. Len(day') = 1
      BY <2>7 DEF Seed
    <3>3. /\ Len(minute') \in Nat /\ Len(day') \in Nat
          /\ Len(minute') + Len(day') <= Len(minute) + Len(day) + 2
      BY <1>1, <3>1, <3>2
    <3>4. QED
      BY <1>1, <3>1, <3>3, TaskPays
  <2>8. QED
    BY <1>2, <2>1, <2>2, <2>3, <2>4, <2>5, <2>6, <2>7 DEF TaskStep
<1>3. ASSUME task' = task,
             \/ minute # <<>> /\ minute' = Tail(minute) /\ day' = day
             \/ day # <<>> /\ day' = Tail(day) /\ minute' = minute
      PROVE  Work' < Work
  <2>1. \A S : Before(S)' = Before(S)
    BY <1>3 DEF Before
  <2>2. PICK w \in Nat : Work = w + Len(minute) + Len(day) /\ Work' = w + Len(minute') + Len(day')
    <3>1. PICK w \in Nat : w = 3 * (  Cardinality(Before({"acquiring", "calling", "seeding", "done"}))
                                    + Cardinality(Before({"calling", "seeding", "done"}))
                                    + Cardinality(Before({"seeding", "done"}))
                                    + Cardinality(Before({"done"})))
      BY StationsCounted
    <3>2. Work = w + Len(minute) + Len(day)
      BY <3>1 DEF Work
    <3>3. Work' = w + Len(minute') + Len(day')
      BY <2>1, <3>1 DEF Work
    <3>4. QED
      BY <3>2, <3>3
  <2>3. Len(minute') + Len(day') < Len(minute) + Len(day)
        /\ Len(minute') \in Nat /\ Len(day') \in Nat
    BY <1>1, <1>3
  <2>4. QED
    BY <1>1, <2>2, <2>3
<1>4. CASE MinutePasses
  BY <1>3, <1>4 DEF MinutePasses
<1>5. CASE SeedAges
  BY <1>3, <1>5 DEF SeedAges
<1>6. QED
  BY <1>2, <1>4, <1>5 DEF TriageNext

LEMMA SomethingCanHappen ==
  ASSUME TriageInv
  PROVE  BatchCanGoOn
<1> SUFFICES ASSUME NEW f \in Findings, task[f] # "done"
             PROVE  BatchCanGoOn
  BY DEF BatchCanGoOn, Before
<1>1. /\ task \in [Findings -> {"waiting", "acquiring", "calling", "seeding", "done"}]
      /\ ToSet(lockQueue) = {g \in Findings : task[g] \in {"acquiring", "seeding"}}
      /\ lockQueue \in Seq(Findings)
  BY DEF TriageInv, TriageTypeOK
<1>2. CASE lockQueue # <<>>
  <2>1. PICK h \in Findings : h = Head(lockQueue) /\ task[h] \in {"acquiring", "seeding"}
    <3>1. 1 \in DOMAIN lockQueue /\ Head(lockQueue) = lockQueue[1]
      BY <1>1, <1>2
    <3>2. Head(lockQueue) \in ToSet(lockQueue)
      BY <3>1 DEF ToSet
    <3>3. QED
      BY <1>1, <3>2
  <2>2. HasLock(h)
    BY <1>2, <2>1 DEF HasLock
  <2>3. RealUsed # {}
    BY TriageAssumption
  <2>4. minute = <<>> => MinuteAdmits(h)
    BY DEF MinuteAdmits
  <2>5. QED
    BY <2>1, <2>2, <2>3, <2>4 DEF BatchCanGoOn
<1>3. CASE lockQueue = <<>>
  <2>1. ToSet(lockQueue) = {}
    BY <1>3 DEF ToSet
  <2>2. \A g \in Findings : task[g] \in {"waiting", "calling", "done"}
    BY <1>1, <2>1
  <2>3. CASE \E g \in Findings : task[g] = "calling"
    BY <2>3 DEF BatchCanGoOn
  <2>4. CASE \A g \in Findings : task[g] # "calling"
    <3>1. Inside = {}
      BY <2>2, <2>4 DEF Inside
    <3>2. Cardinality(Inside) = 0
      BY <3>1, FS_EmptySet
    <3>3. Cardinality(Inside) < Concurrency
      BY <3>2, TriageAssumption
    <3>4. task[f] = "waiting"
      BY <2>2, <2>4
    <3>5. QED
      BY <3>3, <3>4 DEF BatchCanGoOn
  <2>5. QED
    BY <2>3, <2>4
<1>4. QED
  BY <1>2, <1>3

\* A batch takes finitely many steps, and is never stuck before its last task is done:
\* for any findings, any tokens and any limits.
THEOREM BatchRunsOut ==
  TriageSpec => /\ [](Work \in Nat /\ BatchCanGoOn)
                /\ [][WorkFalls]_triageVars
<1>1. TriageInv => Work \in Nat /\ BatchCanGoOn
  <2> SUFFICES ASSUME TriageInv PROVE Work \in Nat
    BY SomethingCanHappen
  <2>1. PICK w \in Nat : w = 3 * (  Cardinality(Before({"acquiring", "calling", "seeding", "done"}))
                                  + Cardinality(Before({"calling", "seeding", "done"}))
                                  + Cardinality(Before({"seeding", "done"}))
                                  + Cardinality(Before({"done"})))
    BY StationsCounted
  <2>2. Len(minute) \in Nat /\ Len(day) \in Nat
    BY DEF TriageInv, TriageTypeOK
  <2>3. Work = w + Len(minute) + Len(day)
    BY <2>1 DEF Work
  <2>4. QED
    BY <2>2, <2>3
<1>2. TriageInv /\ [TriageNext]_triageVars => [WorkFalls]_triageVars
  BY LessToDo DEF WorkFalls
<1>3. QED
  BY <1>1, <1>2, TriageInvHolds, PTL DEF TriageSpec

-----------------------------------------------------------------------------
(* OsintSearch                                                             *)

Shape == [state : {"running", "ended"}, available : BOOLEAN, error : BOOLEAN, found : BOOLEAN]
Ended == {Found, Nothing, Failed}

LEMMA EntriesHaveTheirShape ==
  /\ Running \in Shape /\ Running.state = "running"
  /\ Entry(FALSE, TRUE, FALSE) \in Shape
  /\ Entry(FALSE, TRUE, FALSE).state = "ended" /\ Entry(FALSE, TRUE, FALSE).error
  /\ ~ Entry(FALSE, TRUE, FALSE).available
  /\ \A e \in Ended : e \in Shape /\ e.state = "ended" /\ e.available
  /\ Failed.error
BY DEF Running, Entry, Shape, Ended, Found, Nothing, Failed

\* A source that ran shows an entry of one that was there; and a provider's entry has
\* no error only if the provider said so.
LEMMA EntriesOfReplies ==
  ASSUME NEW s \in AllSources, NEW r \in Replies(s)
  PROVE  /\ EntryOf(s, r) \in Ended
         /\ s \in Queried /\ EntryOf(s, r) # Failed =>
              \/ r \in {"found", "empty", "blank"}
              \/ r = "absent" /\ s \in {"virustotal", "fullhunt", "securitytrails"}
<1>1. ASSUME NEW q PROVE ToolEntry(q) \in Ended
  BY DEF ToolEntry, Ended
<1>2. ASSUME NEW q PROVE OpenEntry(q) \in Ended
  BY DEF OpenEntry, Ended
<1>3. ASSUME NEW q PROVE GatheredEntry(q) \in Ended
  BY DEF GatheredEntry, Ended
<1>4. ASSUME NEW q, NEW answers
      PROVE  /\ ProviderEntry(q, answers) \in Ended
             /\ ProviderEntry(q, answers) # Failed => q \in {"found", "empty", "blank"} \cup answers
  BY DEF ProviderEntry, Ended
<1>5. CASE s \in Programs
  <2>1. EntryOf(s, r) = ProgramEntry(s, r)
    BY <1>5 DEF EntryOf, Libraries, Programs, Tools
  <2>2. ProgramEntry(s, r) = ToolEntry(r)
    BY <1>5 DEF ProgramEntry, AmassEntry, HarvesterEntry, MaigretEntry, HoleheEntry,
                Programs, Tools
  <2>3. s \notin Queried
    BY <1>5 DEF Programs, Tools, Queried, NeedsKey
  <2>4. QED
    BY <1>1, <2>1, <2>2, <2>3
<1>6. CASE s \in Libraries
  <2>1. EntryOf(s, r) = LibraryEntry(s, r)
    BY <1>6 DEF EntryOf, Libraries, Programs, Tools
  <2>2. \/ LibraryEntry(s, r) = OpenEntry(r) \/ LibraryEntry(s, r) = Found
        \/ LibraryEntry(s, r) = ToolEntry(r) \/ LibraryEntry(s, r) = GatheredEntry(r)
    BY <1>6 DEF LibraryEntry, CrtshEntry, WaybackEntry, DnsEntry, WhoisEntry, NetworkEntry,
                DarkwebEntry, Libraries
  <2>3. s \notin Queried
    BY <1>6 DEF Libraries, Queried, NeedsKey
  <2>4. Found \in Ended
    BY DEF Ended
  <2>5. QED
    BY <1>1, <1>2, <1>3, <2>1, <2>2, <2>3, <2>4
<1>7. CASE s \in Queried
  <2>1. EntryOf(s, r) = QueriedEntry(s, r)
    BY <1>7 DEF EntryOf, Libraries, Programs, Tools, Queried, NeedsKey
  <2>2. \/ /\ s \in {"virustotal", "fullhunt", "securitytrails"}
           /\ QueriedEntry(s, r) = ProviderEntry(r, {"absent"})
        \/ QueriedEntry(s, r) = ProviderEntry(r, {})
    BY <1>7 DEF QueriedEntry, VirustotalEntry, AbuseipdbEntry, FullhuntEntry, LeakcheckEntry,
                SecuritytrailsEntry, UrlscanEntry, SafebrowsingEntry, Queried, NeedsKey
  <2>3. QED
    BY <1>4, <2>1, <2>2
<1>8. QED
  BY <1>5, <1>6, <1>7 DEF AllSources

\* Who runs was promised to run.
SearchInv ==
  /\ SearchTypeOK
  /\ \A s \in DOMAIN entry : entry[s].state = "running" => StatusAvailable(s)
  /\ StatusIsTheTruth
  /\ FailuresAreTold

LEMMA SourceEnds ==
  ASSUME SearchInv, NEW s \in DOMAIN entry, NEW r, NEW e \in Ended, EndSource(s, r, e),
         s \in Queried /\ e # Failed =>
           \/ r \in {"found", "empty", "blank"}
           \/ r = "absent" /\ s \in {"virustotal", "fullhunt", "securitytrails"}
  PROVE  SearchInv'
<1> USE DEF EndSource
<1>1. /\ phase = "gathering" /\ entry[s].state = "running"
      /\ entry' = [entry EXCEPT ![s] = e] /\ reply' = [reply EXCEPT ![s] = r]
      /\ used' = (IF s \in Queried THEN used \cup {s} ELSE used)
      /\ UNCHANGED <<installed, keys, phase, enriched>>
  OBVIOUS
<1>2. /\ DOMAIN entry' = DOMAIN entry /\ DOMAIN reply' = DOMAIN reply
      /\ DOMAIN reply = DOMAIN entry /\ DOMAIN entry \subseteq Sources
      /\ entry'[s] = e /\ reply'[s] = r
      /\ \A t \in DOMAIN entry \ {s} : entry'[t] = entry[t] /\ reply'[t] = reply[t]
  BY <1>1 DEF SearchInv, SearchTypeOK
<1>3. e \in Shape /\ e.state = "ended" /\ e.available /\ (e # Failed \/ e.error)
  BY EntriesHaveTheirShape
<1>4. StatusAvailable(s) /\ \A t : StatusAvailable(t)' = StatusAvailable(t)
  BY <1>1 DEF SearchInv, StatusAvailable
<1>5. SearchTypeOK'
  <2>1. \A t \in DOMAIN entry : entry[t] \in Shape
    BY DEF SearchInv, SearchTypeOK, Shape
  <2>2. \A t \in DOMAIN entry' : entry'[t] \in Shape
    BY <1>2, <1>3, <2>1
  <2>3. used' \subseteq Sources
    BY <1>1, <1>2 DEF SearchInv, SearchTypeOK
  <2>4. QED
    BY <1>1, <1>2, <2>2, <2>3 DEF SearchInv, SearchTypeOK, Shape
<1>6. \A t \in DOMAIN entry' : entry'[t].state = "running" => StatusAvailable(t)'
  BY <1>2, <1>3, <1>4 DEF SearchInv
<1>7. StatusIsTheTruth'
  <2>1. \A t \in used' : StatusAvailable(t)'
    BY <1>1, <1>4 DEF SearchInv, StatusIsTheTruth
  <2>2. \A t \in DOMAIN entry' :
          entry'[t].state = "ended" => (entry'[t].available <=> StatusAvailable(t)')
    BY <1>2, <1>3, <1>4 DEF SearchInv, StatusIsTheTruth
  <2>3. QED
    BY <2>1, <2>2 DEF StatusIsTheTruth
<1>8. FailuresAreTold'
  BY <1>2, <1>3 DEF SearchInv, FailuresAreTold
<1>9. QED
  BY <1>5, <1>6, <1>7, <1>8 DEF SearchInv

LEMMA SearchInvStep == SearchInv /\ [SearchNext]_searchVars => SearchInv'
<1> SUFFICES ASSUME SearchInv, [SearchNext]_searchVars PROVE SearchInv'
  OBVIOUS
<1>1. Sources \subseteq AllSources /\ DOMAIN entry \subseteq Sources
  BY SearchAssumption DEF SearchInv, SearchTypeOK
<1>2. CASE StartSearch
  <2>1. PICK type \in TargetTypes :
          LET started == SourcesOf(type) \cap Sources IN
          /\ phase' = "gathering"
          /\ entry' = [s \in started |-> IF Guarded(s) THEN Entry(FALSE, TRUE, FALSE) ELSE Running]
          /\ reply' = [s \in started |-> IF Guarded(s) THEN "guard" ELSE "none"]
          /\ used' = used \cup {s \in started : MarkedAtStart(s)}
          /\ enriched' = FALSE
          /\ UNCHANGED <<installed, keys>>
    BY <1>2 DEF StartSearch
  <2> DEFINE started == SourcesOf(type) \cap Sources
             refused == Entry(FALSE, TRUE, FALSE)
  <2> HIDE DEF refused
  <2>2. /\ entry' = [s \in started |-> IF Guarded(s) THEN refused ELSE Running]
        /\ reply' = [s \in started |-> IF Guarded(s) THEN "guard" ELSE "none"]
        /\ used' = used \cup {s \in started : MarkedAtStart(s)}
        /\ UNCHANGED <<installed, keys>>
    BY <2>1 DEF refused
  <2>3. started \subseteq Sources
    OBVIOUS
  <2> HIDE DEF started
  <2>4. /\ Running \in Shape /\ Running.state = "running"
        /\ refused \in Shape /\ refused.state = "ended" /\ refused.error /\ ~refused.available
    BY EntriesHaveTheirShape DEF refused
  <2>5. DOMAIN entry' = started /\ DOMAIN reply' = started
    BY <2>2
  <2>6. \A s \in started : entry'[s] = IF Guarded(s) THEN refused ELSE Running
    BY <2>2
  <2>7. \A s : StatusAvailable(s)' = StatusAvailable(s)
    BY <2>2 DEF StatusAvailable
  <2>8. \A s : StatusAvailable(s) <=> ~Guarded(s)
    BY DEF StatusAvailable, Guarded, NoKey
  <2>9. \A s \in started : MarkedAtStart(s) => StatusAvailable(s)
    BY DEF MarkedAtStart, StatusAvailable, SearchInv, SearchTypeOK, Programs, Tools,
           Libraries, NeedsKey
  <2>10. SearchTypeOK'
    <3>1. \A s \in DOMAIN entry' : entry'[s] \in Shape
      BY <2>4, <2>5, <2>6
    <3>2. used' \subseteq Sources
      BY <2>2, <2>3 DEF SearchInv, SearchTypeOK
    <3>3. enriched' \in BOOLEAN
      BY <2>1
    <3>4. QED
      BY <2>1, <2>2, <2>3, <2>5, <3>1, <3>2, <3>3 DEF SearchInv, SearchTypeOK, Shape
  <2>11. \A s \in DOMAIN entry' : entry'[s].state = "running" => StatusAvailable(s)'
    BY <2>4, <2>5, <2>6, <2>7, <2>8
  <2>12. StatusIsTheTruth'
    <3>1. \A s \in used' : StatusAvailable(s)'
      BY <2>2, <2>7, <2>9 DEF SearchInv, StatusIsTheTruth
    <3>2. \A s \in DOMAIN entry' :
            entry'[s].state = "ended" => (entry'[s].available <=> StatusAvailable(s)')
      BY <2>4, <2>5, <2>6, <2>7, <2>8
    <3>3. QED
      BY <3>1, <3>2 DEF StatusIsTheTruth
  <2>13. FailuresAreTold'
    BY <2>4, <2>5, <2>6 DEF FailuresAreTold
  <2>14. QED
    BY <2>10, <2>11, <2>12, <2>13 DEF SearchInv
<1>3. ASSUME NEW s \in DOMAIN entry, SourceReplies(s) PROVE SearchInv'
  <2>1. PICK r \in Replies(s) : EndSource(s, r, EntryOf(s, r))
    BY <1>3 DEF SourceReplies
  <2>2. s \in AllSources
    BY <1>1
  <2>3. QED
    BY <2>1, <2>2, EntriesOfReplies, SourceEnds
<1>4. ASSUME NEW s \in DOMAIN entry, SourceTimesOut(s) PROVE SearchInv'
  <2>1. CASE s = "amass"
    <3>1. PICK r \in {"found", "absent"} : EndSource(s, r, AmassEntry(r))
      BY <1>4, <2>1 DEF SourceTimesOut
    <3>2. AmassEntry(r) \in Ended
      BY DEF AmassEntry, ToolEntry, Ended
    <3>3. s \notin Queried
      BY <2>1 DEF Queried, NeedsKey
    <3>4. QED
      BY <3>1, <3>2, <3>3, SourceEnds
  <2>2. CASE s # "amass"
    <3>1. EndSource(s, "timeout", Failed) /\ Failed \in Ended
      BY <1>4, <2>2 DEF SourceTimesOut, Ended
    <3>2. QED
      BY <3>1, SourceEnds
  <2>3. QED
    BY <2>1, <2>2
<1>5. ASSUME UNCHANGED <<installed, keys, used, entry, reply>>, enriched' \in BOOLEAN,
             phase' \in {"idle", "gathering", "enriching", "answered"}
      PROVE  SearchInv'
  BY <1>5 DEF SearchInv, SearchTypeOK, StatusIsTheTruth, StatusAvailable, FailuresAreTold
<1>6. CASE Gathered
  BY <1>5, <1>6 DEF Gathered, SearchInv, SearchTypeOK
<1>7. CASE Answer
  BY <1>5, <1>7 DEF Answer
<1>8. CASE UNCHANGED searchVars
  BY <1>5, <1>8 DEF searchVars, SearchInv, SearchTypeOK
<1>9. QED
  BY <1>2, <1>3, <1>4, <1>6, <1>7, <1>8 DEF SearchNext

\* What the status of the sources says is what a search does with them, and what a search
\* shows without an error the provider said: for any sources and targets.
THEOREM SearchesTellTheTruth ==
  SearchSpec => [](SearchTypeOK /\ StatusIsTheTruth /\ FailuresAreTold)
<1>1. SearchInit => SearchInv
  BY DEF SearchInit, SearchInv, SearchTypeOK, StatusIsTheTruth, FailuresAreTold
<1>2. SearchInv => SearchTypeOK /\ StatusIsTheTruth /\ FailuresAreTold
  BY DEF SearchInv
<1>3. QED
  BY <1>1, <1>2, SearchInvStep, PTL DEF SearchSpec

\* The sources are finitely many: each is one more than the others.
LEMMA FinitelyManySources == IsFiniteSet(AllSources)
<1>1. \A S : IsFiniteSet(S) => \A a, b, c : IsFiniteSet(S \cup {a, b, c})
  <2> SUFFICES ASSUME NEW S, IsFiniteSet(S), NEW a, NEW b, NEW c
               PROVE  IsFiniteSet(S \cup {a, b, c})
    OBVIOUS
  <2>1. IsFiniteSet(S \cup {a})
    BY FS_AddElement
  <2>2. IsFiniteSet((S \cup {a}) \cup {b})
    BY <2>1, FS_AddElement
  <2>3. IsFiniteSet(((S \cup {a}) \cup {b}) \cup {c})
    BY <2>2, FS_AddElement
  <2>4. ((S \cup {a}) \cup {b}) \cup {c} = S \cup {a, b, c}
    OBVIOUS
  <2>5. QED
    BY <2>3, <2>4
<1> DEFINE A == {} \cup {"theharvester", "maigret", "holehe"}
           B == A \cup {"amass", "crtsh", "wayback"}
           C == B \cup {"dns_full", "whois", "network_intel"}
           D == C \cup {"darkweb_intel", "virustotal", "abuseipdb"}
           E == D \cup {"fullhunt", "securitytrails", "google_safebrowsing"}
           F == E \cup {"leakcheck", "urlscan", "urlscan"}
<1>2. AllSources = F
  BY DEF AllSources, Programs, Tools, Libraries, Queried, NeedsKey
<1>3. IsFiniteSet({})
  BY FS_EmptySet
<1>4. IsFiniteSet(A)
  BY <1>1, <1>3
<1> HIDE DEF A
<1>5. IsFiniteSet(B)
  BY <1>1, <1>4
<1> HIDE DEF B
<1>6. IsFiniteSet(C)
  BY <1>1, <1>5
<1> HIDE DEF C
<1>7. IsFiniteSet(D)
  BY <1>1, <1>6
<1> HIDE DEF D
<1>8. IsFiniteSet(E)
  BY <1>1, <1>7
<1> HIDE DEF E
<1>9. IsFiniteSet(F)
  BY <1>1, <1>8
<1>10. QED
  BY <1>2, <1>9

\* One source fewer runs.
LEMMA OneFewerRuns ==
  ASSUME SearchInv, NEW s \in DOMAIN entry, NEW r, NEW e \in Ended, EndSource(s, r, e)
  PROVE  SearchLeft' < SearchLeft
<1> DEFINE runs == {t \in DOMAIN entry : entry[t].state = "running"}
<1>1. /\ phase = "gathering" /\ phase' = "gathering" /\ s \in runs
      /\ entry' = [entry EXCEPT ![s] = e]
  BY DEF EndSource
<1>2. e.state # "running"
  BY EntriesHaveTheirShape
<1>3. runs' = runs \ {s}
  <2>1. DOMAIN entry' = DOMAIN entry /\ entry'[s] = e
        /\ \A t \in DOMAIN entry \ {s} : entry'[t] = entry[t]
    BY <1>1
  <2>2. QED
    BY <1>2, <2>1
<1>4. IsFiniteSet(runs)
  <2>1. runs \subseteq AllSources
    BY SearchAssumption DEF SearchInv, SearchTypeOK
  <2>2. IsFiniteSet(AllSources)
    BY FinitelyManySources
  <2>3. QED
    BY <2>1, <2>2, FS_Subset
<1> HIDE DEF runs
<1>5. Cardinality(runs) \in Nat /\ Cardinality(runs \ {s}) = Cardinality(runs) - 1
  BY <1>1, <1>4, FS_CardinalityType, FS_RemoveElement
<1>6. SearchLeft = Cardinality(runs) + 2 /\ SearchLeft' = Cardinality(runs') + 2
  BY <1>1 DEF SearchLeft, runs
<1>7. QED
  BY <1>3, <1>5, <1>6

\* A search that has started is answered within as many steps as it has sources, and two:
\* for any sources and targets.
THEOREM SearchesRunDown == SearchSpec => SearchRunsDown
<1>1. SearchInv /\ [SearchNext]_searchVars =>
        [(phase \in {"gathering", "enriching"}) => SearchLeft' < SearchLeft]_searchVars
  <2> SUFFICES ASSUME SearchInv, SearchNext, phase \in {"gathering", "enriching"}
               PROVE  SearchLeft' < SearchLeft
    OBVIOUS
  <2>1. Sources \subseteq AllSources /\ DOMAIN entry \subseteq Sources
    BY SearchAssumption DEF SearchInv, SearchTypeOK
  <2>2. ASSUME NEW s \in DOMAIN entry, SourceReplies(s) PROVE SearchLeft' < SearchLeft
    <3>1. PICK r \in Replies(s) : EndSource(s, r, EntryOf(s, r))
      BY <2>2 DEF SourceReplies
    <3>2. EntryOf(s, r) \in Ended
      BY <2>1, EntriesOfReplies
    <3>3. QED
      BY <3>1, <3>2, OneFewerRuns
  <2>3. ASSUME NEW s \in DOMAIN entry, SourceTimesOut(s) PROVE SearchLeft' < SearchLeft
    <3>1. CASE s = "amass"
      <4>1. PICK r \in {"found", "absent"} : EndSource(s, r, AmassEntry(r))
        BY <2>3, <3>1 DEF SourceTimesOut
      <4>2. AmassEntry(r) \in Ended
        BY DEF AmassEntry, ToolEntry, Ended
      <4>3. QED
        BY <4>1, <4>2, OneFewerRuns
    <3>2. CASE s # "amass"
      <4>1. EndSource(s, "timeout", Failed) /\ Failed \in Ended
        BY <2>3, <3>2 DEF SourceTimesOut, Ended
      <4>2. QED
        BY <4>1, OneFewerRuns
    <3>3. QED
      BY <3>1, <3>2
  <2>4. CASE Gathered
    <3>1. /\ phase = "gathering" /\ phase' = "enriching"
          /\ \A s \in DOMAIN entry : entry[s].state = "ended"
      BY <2>4 DEF Gathered
    <3>2. {s \in DOMAIN entry : entry[s].state = "running"} = {}
      BY <3>1
    <3>3. SearchLeft = 2 /\ SearchLeft' = 1
      BY <3>1, <3>2, FS_EmptySet DEF SearchLeft
    <3>4. QED
      BY <3>3
  <2>5. CASE Answer
    <3>1. SearchLeft = 1 /\ SearchLeft' = 0
      BY <2>5 DEF Answer, SearchLeft
    <3>2. QED
      BY <3>1
  <2>6. CASE StartSearch
    BY <2>6 DEF StartSearch
  <2>7. QED
    BY <2>2, <2>3, <2>4, <2>5, <2>6 DEF SearchNext
<1>2. SearchInit => SearchInv
  BY DEF SearchInit, SearchInv, SearchTypeOK, StatusIsTheTruth, FailuresAreTold
<1>3. QED
  BY <1>1, <1>2, SearchInvStep, PTL DEF SearchSpec, SearchRunsDown

-----------------------------------------------------------------------------
(* Honeypot                                                                *)

\* A connection that was made.
Session == [
  phase : {"banner", "reading", "enriching", "storing", "closing", "closed", "crashed", "dropped"},
  service : PotServices, on : PotWorkers, commands : 0..FtpMax, reset : BOOLEAN,
  risk : RowLevels, evidence : RowLevels]

\* A row is of a session that was emitted and came past its insert; what was emitted once
\* is not again; the commands of a session that reads on are fewer than the most.
HitInv(c) ==
  /\ hit[c] = NewHit \/ hit[c] \in Session
  /\ hit[c] # NewHit /\ hit[c].phase \in {"banner", "reading"} => hit[c].commands < FtpMax
  /\ hit[c].phase \in {"none", "banner", "reading", "enriching"} => emitted[c] = 0
  /\ hit[c].phase = "storing" => hit[c].risk = hit[c].evidence /\ emitted[c] = 1
  /\ emitted[c] \in {0, 1}
  /\ \A r \in rows : r.of = c =>
       /\ hit[c].phase \in {"closing", "closed", "dropped"} /\ emitted[c] = 1
       /\ r.risk = hit[c].evidence /\ r.service = hit[c].service

PotInv ==
  /\ up \subseteq PotWorkers /\ bound \in [PotServices -> up \cup {Unbound}]
  /\ hit \in [Hits -> Session \cup {NewHit}] /\ emitted \in [Hits -> {0, 1}]
  /\ \A c \in Hits : HitInv(c)
  /\ rows \subseteq [of : Hits, service : PotServices, risk : RowLevels]
  /\ IsFiniteSet(rows)
  /\ \A r, q \in rows : r.of = q.of => r = q

Groups ==
  LET of(s) == {r \in rows : r.service = s}
  IN  Cardinality(of("ssh")) + Cardinality(of("ftp")) + Cardinality(of("http_admin"))
StatsInv ==
  /\ stats.phase = "counted" => stats.total \in Nat /\ stats.total <= Cardinality(rows)
  /\ stats.phase = "done" => stats.total <= InGroup("ssh") + InGroup("ftp") + InGroup("http_admin")

\* The groups of the rows are all of them.
LEMMA GroupsAddUp ==
  ASSUME PotInv PROVE Cardinality(rows) = Groups /\ Cardinality(rows) \in Nat
<1> DEFINE of(s) == {r \in rows : r.service = s}
<1>1. IsFiniteSet(rows) /\ \A r \in rows : r.service \in {"ssh", "ftp", "http_admin"}
  BY PotAssumption DEF PotInv
<1> DEFINE a == of("ssh")
           b == of("ftp")
           d == of("http_admin")
<1>2. rows = (a \cup b) \cup d
  BY <1>1
<1>3. IsFiniteSet(a) /\ IsFiniteSet(b) /\ IsFiniteSet(d)
  BY <1>1, FS_Subset
<1>4. a \cap b = {} /\ (a \cup b) \cap d = {}
  OBVIOUS
<1>5. Groups = Cardinality(a) + Cardinality(b) + Cardinality(d)
  BY DEF Groups
<1> HIDE DEF a, b, d
<1>6. /\ IsFiniteSet(a \cup b) /\ Cardinality(a \cup b) = Cardinality(a) + Cardinality(b) - Cardinality(a \cap b)
      /\ Cardinality((a \cup b) \cup d)
           = Cardinality(a \cup b) + Cardinality(d) - Cardinality((a \cup b) \cap d)
  BY <1>3, FS_Union
<1>7. /\ Cardinality(a) \in Nat /\ Cardinality(b) \in Nat /\ Cardinality(d) \in Nat
      /\ Cardinality({}) = 0
  BY <1>3, FS_CardinalityType, FS_EmptySet
<1>8. Cardinality(rows) = Cardinality(a) + Cardinality(b) + Cardinality(d)
  <2>1. Cardinality(a \cup b) = Cardinality(a) + Cardinality(b)
    BY <1>4, <1>6, <1>7
  <2>2. Cardinality(rows) = Cardinality(a \cup b) + Cardinality(d)
    <3>1. Cardinality((a \cup b) \cap d) = 0
      BY <1>4, <1>7
    <3>2. Cardinality(rows) = Cardinality((a \cup b) \cup d)
      BY <1>2
    <3>3. Cardinality(rows) = Cardinality(a \cup b) + Cardinality(d) - Cardinality((a \cup b) \cap d)
      BY <1>6, <3>2, Zenon
    <3>4. Cardinality(a \cup b) \in Nat /\ Cardinality(d) \in Nat
      BY <1>7, <2>1
    <3>5. QED
      BY <3>1, <3>3, <3>4
  <2>3. QED
    BY <2>1, <2>2
<1>9. QED
  BY <1>7, <1>8, <1>5

\* A session that goes on, or ends, without a row of it.
LEMMA SessionMoves ==
  ASSUME PotInv, NEW c \in Hits, NEW h \in Session, hit' = [hit EXCEPT ![c] = h],
         UNCHANGED <<up, bound, rows, stats>>,
         emitted' \in [Hits -> {0, 1}], \A b \in Hits \ {c} : emitted'[b] = emitted[b],
         h.phase \in {"banner", "reading"} => h.commands < FtpMax,
         h.phase \in {"banner", "reading", "enriching"} => emitted'[c] = 0,
         h.phase = "storing" => h.risk = h.evidence /\ emitted'[c] = 1,
         hit[c].phase \in {"closing", "closed", "dropped"} =>
           /\ h.phase \in {"closing", "closed", "dropped"} /\ emitted'[c] = emitted[c]
           /\ h.evidence = hit[c].evidence /\ h.service = hit[c].service
  PROVE  PotInv'
<1>1. /\ hit' \in [Hits -> Session \cup {NewHit}] /\ hit'[c] = h
      /\ \A b \in Hits \ {c} : hit'[b] = hit[b]
  BY DEF PotInv
<1>2. \A b \in Hits : HitInv(b)
  BY DEF PotInv
<1>3. ASSUME NEW b \in Hits \ {c} PROVE HitInv(b)'
  <2>1. hit'[b] = hit[b] /\ emitted'[b] = emitted[b] /\ rows' = rows
    BY <1>1
  <2>2. QED
    BY <1>2, <2>1 DEF HitInv
<1>4. HitInv(c)'
  <2>1. h \in Session /\ h.phase \in {"banner", "reading", "enriching", "storing", "closing", "closed", "crashed", "dropped"}
    BY DEF Session
  <2>2. emitted'[c] \in {0, 1}
    OBVIOUS
  <2>3. \A r \in rows : r.of = c =>
          /\ hit[c].phase \in {"closing", "closed", "dropped"} /\ emitted[c] = 1
          /\ r.risk = hit[c].evidence /\ r.service = hit[c].service
    BY <1>2 DEF HitInv
  <2>4. \A r \in rows : r.of = c =>
          /\ h.phase \in {"closing", "closed", "dropped"} /\ emitted'[c] = 1
          /\ r.risk = h.evidence /\ r.service = h.service
    BY <2>3
  <2>5. QED
    BY <1>1, <2>1, <2>2, <2>4 DEF HitInv
<1>5. QED
  BY <1>1, <1>3, <1>4 DEF PotInv

\* What a session is that one may go on from.
LEMMA SessionHere ==
  ASSUME PotInv, NEW c \in Hits, hit[c].phase # "none"
  PROVE  hit[c] \in Session /\ HitInv(c) /\ hit[c] # NewHit
BY DEF PotInv, NewHit

\* A session whose phase changes, and nothing of which a row tells.
LEMMA PhaseMoves ==
  ASSUME PotInv, NEW c \in Hits, hit[c].phase \in {"banner", "reading", "storing", "closing"},
         NEW next \in {"reading", "enriching", "closing", "closed", "crashed"},
         Turn(c, next), Same,
         \/ hit[c].phase \in {"banner", "reading"} /\ next \in {"reading", "enriching", "crashed"}
         \/ hit[c].phase \in {"storing", "closing"} /\ next \in {"closing", "closed"}
  PROVE  PotInv'
<1> DEFINE h == [hit[c] EXCEPT !.phase = next]
<1>1. hit[c] \in Session /\ HitInv(c) /\ hit[c] # NewHit
  BY SessionHere
<1>2. hit' = [hit EXCEPT ![c] = h] /\ UNCHANGED <<up, bound, rows, emitted, stats>>
  BY DEF Turn, Same
<1>3. /\ h \in Session /\ h.phase = next /\ h.commands = hit[c].commands
      /\ h.evidence = hit[c].evidence /\ h.service = hit[c].service
  BY <1>1 DEF Session
<1> HIDE DEF h
<1>4. emitted' \in [Hits -> {0, 1}] /\ \A b \in Hits \ {c} : emitted'[b] = emitted[b]
  BY <1>2 DEF PotInv
<1>5. /\ h.phase \in {"banner", "reading"} => h.commands < FtpMax
      /\ h.phase \in {"banner", "reading", "enriching"} => emitted'[c] = 0
  BY <1>1, <1>2, <1>3 DEF HitInv
<1>6. hit[c].phase \in {"closing", "closed", "dropped"} => h.phase \in {"closing", "closed", "dropped"}
  BY <1>3
<1>7. h.phase # "storing"
  BY <1>3
<1>8. QED
  BY <1>2, <1>3, <1>4, <1>5, <1>6, <1>7, SessionMoves

LEMMA PotInvStep == PotInv /\ [PotNext]_potVars => PotInv'
<1> SUFFICES ASSUME PotInv, [PotNext]_potVars PROVE PotInv'
  OBVIOUS
<1>1. /\ FtpMax \in Nat \ {0} /\ Unbound \notin PotWorkers /\ "LOW" \in PotLevels
      /\ PotServices \subseteq {"ssh", "ftp", "http_admin"}
  BY PotAssumption
<1>2. /\ up \subseteq PotWorkers /\ bound \in [PotServices -> up \cup {Unbound}]
      /\ hit \in [Hits -> Session \cup {NewHit}] /\ emitted \in [Hits -> {0, 1}]
      /\ \A c \in Hits : HitInv(c)
  BY DEF PotInv
<1>3. ASSUME UNCHANGED <<hit, rows, emitted>>, up' \subseteq PotWorkers,
             bound' \in [PotServices -> up' \cup {Unbound}]
      PROVE  PotInv'
  BY <1>3 DEF PotInv, HitInv
<1>4. ASSUME NEW w \in PotWorkers, StartHoneypots(w) PROVE PotInv'
  BY <1>2, <1>3, <1>4 DEF StartHoneypots
<1>5. ASSUME NEW w \in PotWorkers, WorkerEnds(w) PROVE PotInv'
  <2>1. /\ up' = up \ {w}
        /\ bound' = [s \in PotServices |-> IF bound[s] = w THEN Unbound ELSE bound[s]]
        /\ hit' = [c \in Hits |-> IF Open(c) /\ hit[c].on = w
                                  THEN [hit[c] EXCEPT !.phase = "dropped"] ELSE hit[c]]
        /\ UNCHANGED <<rows, emitted, stats>>
    BY <1>5 DEF WorkerEnds
  <2>2. up' \subseteq PotWorkers /\ bound' \in [PotServices -> up' \cup {Unbound}]
    BY <1>2, <2>1
  <2>3. ASSUME NEW c \in Hits PROVE hit'[c] \in Session \cup {NewHit} /\ HitInv(c)'
    <3>1. CASE hit'[c] = hit[c]
      BY <1>2, <2>1, <3>1 DEF HitInv
    <3>2. CASE hit'[c] # hit[c]
      <4>1. Open(c) /\ hit'[c] = [hit[c] EXCEPT !.phase = "dropped"]
        BY <2>1, <3>2
      <4>2. hit[c] \in Session /\ HitInv(c)
        BY <4>1, SessionHere DEF Open
      <4>3. /\ hit'[c] \in Session /\ hit'[c].phase = "dropped"
            /\ hit'[c].evidence = hit[c].evidence /\ hit'[c].service = hit[c].service
        BY <4>1, <4>2 DEF Session
      <4>4. QED
        BY <2>1, <4>2, <4>3 DEF HitInv
    <3>3. QED
      BY <3>1, <3>2
  <2>4. hit' \in [Hits -> Session \cup {NewHit}]
    BY <2>1, <2>3
  <2>5. QED
    BY <2>1, <2>2, <2>3, <2>4 DEF PotInv
<1>6. ASSUME NEW c \in Hits, Connect(c) PROVE PotInv'
  <2>1. PICK s \in PotServices :
          /\ bound[s] # Unbound
          /\ hit' = [hit EXCEPT ![c] =
               [phase |-> IF s = "http_admin" THEN "reading" ELSE "banner",
                service |-> s, on |-> bound[s], commands |-> 0, reset |-> FALSE,
                risk |-> "LOW", evidence |-> "LOW"]]
    BY <1>6 DEF Connect
  <2>2. hit[c].phase = "none" /\ UNCHANGED <<up, bound, rows, emitted, stats>>
    BY <1>6 DEF Connect
  <2> DEFINE h == [phase |-> IF s = "http_admin" THEN "reading" ELSE "banner",
                   service |-> s, on |-> bound[s], commands |-> 0, reset |-> FALSE,
                   risk |-> "LOW", evidence |-> "LOW"]
  <2>3. bound[s] \in PotWorkers
    BY <1>2, <2>1
  <2>4. /\ h \in Session /\ h.phase \in {"banner", "reading"} /\ h.commands = 0
    BY <1>1, <2>3 DEF Session, RowLevels
  <2>5. hit' = [hit EXCEPT ![c] = h]
    BY <2>1
  <2> HIDE DEF h
  <2>6. emitted[c] = 0
    BY <1>2, <2>2 DEF HitInv
  <2>7. /\ emitted' \in [Hits -> {0, 1}] /\ \A b \in Hits \ {c} : emitted'[b] = emitted[b]
        /\ emitted'[c] = 0
    BY <1>2, <2>2, <2>6
  <2>8. h.commands < FtpMax
    BY <1>1, <2>4
  <2>9. QED
    BY <2>2, <2>4, <2>5, <2>7, <2>8, SessionMoves
<1>7. ASSUME NEW c \in Hits, SendBanner(c) PROVE PotInv'
  BY <1>7, PhaseMoves DEF SendBanner
<1>8. ASSUME NEW c \in Hits, BannerFails(c) PROVE PotInv'
  BY <1>8, PhaseMoves DEF BannerFails
<1>9. ASSUME NEW c \in Hits, PeerResets(c) PROVE PotInv'
  <2> DEFINE h == [hit[c] EXCEPT !.reset = TRUE]
  <2>1. Open(c) /\ hit' = [hit EXCEPT ![c] = h] /\ UNCHANGED <<up, bound, rows, emitted, stats>>
    BY <1>9 DEF PeerResets, Same
  <2>2. hit[c] \in Session /\ HitInv(c) /\ hit[c] # NewHit
    BY <2>1, SessionHere DEF Open
  <2>3. /\ h \in Session /\ h.phase = hit[c].phase /\ h.commands = hit[c].commands
        /\ h.risk = hit[c].risk /\ h.evidence = hit[c].evidence /\ h.service = hit[c].service
    BY <2>2 DEF Session
  <2> HIDE DEF h
  <2>4. /\ emitted' \in [Hits -> {0, 1}] /\ \A b \in Hits : emitted'[b] = emitted[b]
    BY <1>2, <2>1
  <2>5. /\ h.phase \in {"banner", "reading"} => h.commands < FtpMax
        /\ h.phase \in {"banner", "reading", "enriching"} => emitted'[c] = 0
        /\ h.phase = "storing" => h.risk = h.evidence /\ emitted'[c] = 1
    BY <2>2, <2>3, <2>4 DEF HitInv
  <2>6. QED
    BY <2>1, <2>3, <2>4, <2>5, SessionMoves
<1>10. ASSUME NEW c \in Hits, ReadOnce(c) PROVE PotInv'
  BY <1>10, PhaseMoves DEF ReadOnce
<1>11. ASSUME NEW c \in Hits, ReadCommand(c) PROVE PotInv'
  <2>1. PICK over \in BOOLEAN :
          hit' = [hit EXCEPT ![c].commands = @ + 1,
                    ![c].phase = IF over \/ hit[c].commands + 1 = FtpMax
                                 THEN "enriching" ELSE "reading"]
    BY <1>11 DEF ReadCommand
  <2>2. hit[c].phase = "reading" /\ UNCHANGED <<up, bound, rows, emitted, stats>>
    BY <1>11 DEF ReadCommand, Same
  <2>3. hit[c] \in Session /\ HitInv(c) /\ hit[c] # NewHit
    BY <2>2, SessionHere
  <2> DEFINE next == IF over \/ hit[c].commands + 1 = FtpMax THEN "enriching" ELSE "reading"
             h == [hit[c] EXCEPT !.commands = hit[c].commands + 1, !.phase = next]
  <2>4. hit' = [hit EXCEPT ![c] = h]
    BY <1>2, <2>1, <2>3 DEF Session
  <2>5. hit[c].commands \in 0..FtpMax /\ hit[c].commands < FtpMax /\ emitted[c] = 0
    BY <2>2, <2>3 DEF HitInv, Session
  <2>6. hit[c].commands + 1 \in 0..FtpMax
    BY <1>1, <2>5
  <2>7. /\ next \in {"enriching", "reading"}
        /\ next = "reading" => hit[c].commands + 1 < FtpMax
    BY <1>1, <2>5
  <2> HIDE DEF next
  <2>8. h \in Session /\ h.phase = next /\ h.commands = hit[c].commands + 1
    BY <2>3, <2>6, <2>7 DEF Session
  <2> HIDE DEF h
  <2>9. /\ emitted' \in [Hits -> {0, 1}] /\ \A b \in Hits : emitted'[b] = emitted[b]
    BY <1>2, <2>2
  <2>10. QED
    BY <2>2, <2>4, <2>5, <2>7, <2>8, <2>9, SessionMoves
<1>12. ASSUME NEW c \in Hits, CommandsEnd(c) PROVE PotInv'
  BY <1>12, PhaseMoves DEF CommandsEnd
<1>13. ASSUME NEW c \in Hits, Enrich(c) \/ EnrichFails(c) PROVE PotInv'
  <2>1. PICK worst \in RowLevels : Enriched(c, worst, worst)
    <3>1. CASE Enrich(c)
      <4>1. PICK geo \in PotLevels, abuse \in PotLevels :
              Enriched(c, RiskOf(geo, abuse), Worse(geo, abuse))
        BY <3>1 DEF Enrich
      <4>2. Worse(geo, abuse) \in RowLevels
        BY DEF Worse, RowLevels
      <4>3. QED
        BY <4>1, <4>2 DEF RiskOf
    <3>2. CASE EnrichFails(c)
      BY <3>2 DEF EnrichFails, RowLevels
    <3>3. QED
      BY <1>13, <3>1, <3>2
  <2>2. /\ hit[c].phase = "enriching" /\ emitted' = [emitted EXCEPT ![c] = @ + 1]
        /\ UNCHANGED <<up, bound, rows, stats>>
    BY <2>1 DEF Enriched
  <2> DEFINE h == [hit[c] EXCEPT !.phase = "storing", !.risk = worst, !.evidence = worst]
  <2>3. hit[c] \in Session /\ HitInv(c) /\ hit[c] # NewHit
    BY <2>2, SessionHere
  <2>4. hit' = [hit EXCEPT ![c] = h]
    BY <1>2, <2>1 DEF Enriched
  <2>6. h \in Session /\ h.phase = "storing" /\ h.risk = worst /\ h.evidence = worst
    BY <2>3 DEF Session
  <2> HIDE DEF h
  <2>7. emitted[c] = 0
    BY <2>2, <2>3 DEF HitInv
  <2>8. /\ emitted' \in [Hits -> {0, 1}] /\ emitted'[c] = 1
        /\ \A b \in Hits \ {c} : emitted'[b] = emitted[b]
    BY <1>2, <2>2, <2>7
  <2>9. QED
    BY <2>2, <2>4, <2>6, <2>8, SessionMoves
<1>14. ASSUME NEW c \in Hits, StoreHit(c) PROVE PotInv'
  <2> DEFINE row == [of |-> c, service |-> hit[c].service, risk |-> hit[c].risk]
             h == [hit[c] EXCEPT !.phase = "closing"]
  <2>1. /\ hit[c].phase = "storing" /\ rows' = rows \cup {row}
        /\ hit' = [hit EXCEPT ![c] = h] /\ UNCHANGED <<up, bound, emitted, stats>>
    BY <1>14 DEF StoreHit, Turn
  <2>2. hit[c] \in Session /\ HitInv(c) /\ hit[c] # NewHit
    BY <2>1, SessionHere
  <2>3. /\ h \in Session /\ h.phase = "closing" /\ h.evidence = hit[c].evidence
        /\ h.service = hit[c].service /\ h.risk = hit[c].risk
        /\ hit[c].service \in PotServices /\ hit[c].risk \in RowLevels
    BY <2>2 DEF Session
  <2>4. /\ row \in [of : Hits, service : PotServices, risk : RowLevels]
        /\ row.of = c /\ row.service = h.service /\ row.risk = hit[c].risk
    BY <2>3
  <2>5. hit[c].risk = hit[c].evidence /\ emitted[c] = 1 /\ \A r \in rows : r.of # c
    BY <2>1, <2>2 DEF HitInv
  <2> HIDE DEF row, h
  <2>6. /\ hit' \in [Hits -> Session \cup {NewHit}] /\ hit'[c] = h
        /\ \A b \in Hits \ {c} : hit'[b] = hit[b]
    BY <1>2, <2>1, <2>3
  <2>7. rows' \subseteq [of : Hits, service : PotServices, risk : RowLevels]
    BY <2>1, <2>4 DEF PotInv
  <2>8. \A r, q \in rows' : r.of = q.of => r = q
    BY <2>1, <2>4, <2>5 DEF PotInv
  <2>9. IsFiniteSet(rows')
    BY <2>1, FS_AddElement DEF PotInv
  <2>10. ASSUME NEW b \in Hits \ {c} PROVE HitInv(b)'
    <3>1. hit'[b] = hit[b] /\ emitted'[b] = emitted[b] /\ HitInv(b)
      BY <1>2, <2>1, <2>6
    <3>2. \A r \in rows' : r.of = b => r \in rows
      BY <2>1, <2>4
    <3>3. QED
      BY <3>1, <3>2 DEF HitInv
  <2>11. HitInv(c)'
    <3>1. \A r \in rows' : r.of = c => r = row
      BY <2>1, <2>5
    <3>2. \A r \in rows' : r.of = c =>
            r.risk = h.evidence /\ r.service = h.service
      BY <2>3, <2>4, <2>5, <3>1
    <3>3. h # NewHit => h.phase \notin {"banner", "reading", "none", "enriching", "storing"}
      BY <2>3
    <3>4. QED
      BY <1>2, <2>1, <2>3, <2>5, <2>6, <3>2 DEF HitInv
  <2>12. QED
    BY <1>2, <2>1, <2>6, <2>7, <2>8, <2>9, <2>10, <2>11 DEF PotInv
<1>15. ASSUME NEW c \in Hits, StoreFails(c) PROVE PotInv'
  BY <1>15, PhaseMoves DEF StoreFails
<1>16. ASSUME NEW c \in Hits, CloseHit(c) PROVE PotInv'
  BY <1>16, PhaseMoves DEF CloseHit
<1>17. CASE UNCHANGED <<up, bound, hit, rows, emitted>>
  BY <1>2, <1>3, <1>17
<1>18. CASE CountTotal \/ CountByService \/ StatsAnswered
  BY <1>17, <1>18 DEF CountTotal, CountByService, StatsAnswered
<1>19. CASE UNCHANGED potVars
  BY <1>17, <1>19 DEF potVars
<1>20. ASSUME NEW c \in Hits, HitNext(c) PROVE PotInv'
  BY <1>6, <1>7, <1>8, <1>9, <1>10, <1>11, <1>12, <1>13, <1>14, <1>15, <1>16, <1>20 DEF HitNext
<1>21. QED
  BY <1>4, <1>5, <1>18, <1>19, <1>20 DEF PotNext

\* The total is counted first, and rows only come: their groups add up to no less.
LEMMA StatsInvStep == PotInv /\ StatsInv /\ [PotNext]_potVars => StatsInv'
<1> SUFFICES ASSUME PotInv, StatsInv, [PotNext]_potVars PROVE StatsInv'
  OBVIOUS
<1>1. /\ IsFiniteSet(rows) /\ Cardinality(rows) \in Nat /\ Cardinality(rows) = Groups
      /\ \A r \in rows : r.service \in PotServices
  BY GroupsAddUp DEF PotInv
<1>2. CASE CountTotal
  <2>1. stats'.phase = "counted" /\ stats'.total = Cardinality(rows) /\ rows' = rows
    BY <1>2 DEF CountTotal
  <2>2. QED
    BY <1>1, <2>1 DEF StatsInv
<1>3. CASE CountByService
  <2>1. /\ stats.phase = "counted" /\ rows' = rows
        /\ stats' = [phase |-> "done", total |-> stats.total,
                     by |-> [s \in PotServices |-> Cardinality({r \in rows : r.service = s})]]
    BY <1>3 DEF CountByService
  <2>2. /\ stats'.phase = "done" /\ stats'.total = stats.total
        /\ \A s \in PotServices : stats'.by[s] = Cardinality({r \in rows : r.service = s})
    BY <2>1
  <2>3. ASSUME NEW s PROVE InGroup(s)' = Cardinality({r \in rows : r.service = s})
    <3>1. CASE s \in PotServices
      BY <2>2, <3>1 DEF InGroup
    <3>2. CASE s \notin PotServices
      <4>1. {r \in rows : r.service = s} = {}
        BY <1>1, <3>2
      <4>2. QED
        BY <3>2, <4>1, FS_EmptySet DEF InGroup
    <3>3. QED
      BY <3>1, <3>2
  <2>4. InGroup("ssh")' + InGroup("ftp")' + InGroup("http_admin")' = Groups
    BY <2>3 DEF Groups
  <2>5. stats.total <= Groups
    BY <1>1, <2>1 DEF StatsInv
  <2>6. QED
    BY <2>2, <2>4, <2>5 DEF StatsInv
<1>4. CASE StatsAnswered
  BY <1>4 DEF StatsAnswered, NoStats, StatsInv
<1>5. ASSUME UNCHANGED stats, rows \subseteq rows', IsFiniteSet(rows') PROVE StatsInv'
  <2>1. Cardinality(rows) <= Cardinality(rows') /\ Cardinality(rows') \in Nat
    BY <1>5, FS_Subset, FS_CardinalityType
  <2>2. stats.phase = "done" => InGroup("ssh")' = InGroup("ssh") /\ InGroup("ftp")' = InGroup("ftp")
                              /\ InGroup("http_admin")' = InGroup("http_admin")
    BY <1>5 DEF InGroup
  <2>3. stats.phase = "counted" => stats.total \in Nat /\ stats.total <= Cardinality(rows')
    BY <1>1, <2>1 DEF StatsInv
  <2>4. QED
    BY <1>5, <2>2, <2>3 DEF StatsInv
<1>6. ASSUME NEW w \in PotWorkers, StartHoneypots(w) \/ WorkerEnds(w) PROVE StatsInv'
  BY <1>1, <1>5, <1>6 DEF StartHoneypots, WorkerEnds
<1>7. ASSUME NEW c \in Hits, HitNext(c) PROVE StatsInv'
  <2>1. UNCHANGED stats /\ rows \subseteq rows'
    BY <1>7 DEF HitNext, Connect, SendBanner, BannerFails, PeerResets, ReadOnce, ReadCommand,
                CommandsEnd, Enrich, EnrichFails, Enriched, StoreHit, StoreFails, CloseHit, Same
  <2>2. IsFiniteSet(rows')
    <3>1. rows' = rows \/ rows' = rows \cup {[of |-> c, service |-> hit[c].service, risk |-> hit[c].risk]}
      BY <1>7 DEF HitNext, Connect, SendBanner, BannerFails, PeerResets, ReadOnce, ReadCommand,
                  CommandsEnd, Enrich, EnrichFails, Enriched, StoreHit, StoreFails, CloseHit, Same
    <3>2. IsFiniteSet(rows \cup {[of |-> c, service |-> hit[c].service, risk |-> hit[c].risk]})
      BY <1>1, FS_AddElement, ZenonT(60)
    <3>3. QED
      BY <1>1, <3>1, <3>2
  <2>3. QED
    BY <1>5, <2>1, <2>2
<1>8. CASE UNCHANGED potVars
  BY <1>1, <1>5, <1>8 DEF potVars
<1>9. QED
  BY <1>2, <1>3, <1>4, <1>6, <1>7, <1>8 DEF PotNext

LEMMA PotInvHolds == PotSpec => [](PotInv /\ StatsInv)
<1>1. PotInit => PotInv /\ StatsInv
  <2> SUFFICES ASSUME PotInit PROVE PotInv /\ StatsInv
    OBVIOUS
  <2> USE DEF PotInit
  <2>1. NewHit.phase = "none" /\ NoStats.phase = "none"
    BY DEF NewHit, NoStats
  <2>2. \A c \in Hits : HitInv(c)
    BY <2>1 DEF HitInv
  <2>3. IsFiniteSet(rows)
    BY FS_EmptySet
  <2>4. PotInv
    BY <2>2, <2>3 DEF PotInv
  <2>5. StatsInv
    BY <2>1 DEF StatsInv
  <2>6. QED
    BY <2>4, <2>5
<1>2. QED
  BY <1>1, PotInvStep, StatsInvStep, PTL DEF PotSpec

\* A row is the record of one session, each session is recorded at most once, and the
\* statistics are never less than the total: for any workers, services and sessions.
THEOREM RowsAreTheSessions == PotSpec => [](PotTypeOK /\ HitsAreRecordedOnce)
<1>1. PotInv => PotTypeOK
  <2> SUFFICES ASSUME PotInv PROVE PotTypeOK
    OBVIOUS
  <2>1. ASSUME NEW c \in Hits, hit[c] # NewHit
        PROVE  /\ hit[c].phase \in {"banner", "reading", "enriching", "storing", "closing",
                                    "closed", "crashed", "dropped"}
               /\ hit[c].commands \in 0..FtpMax /\ hit[c].risk \in RowLevels
    <3>1. hit[c] \in Session
      BY <2>1 DEF PotInv
    <3>2. QED
      BY <3>1 DEF Session
  <2>2. \A r \in rows : r.of \in Hits /\ r.risk \in RowLevels
    BY DEF PotInv
  <2>3. QED
    BY <2>1, <2>2 DEF PotInv, PotTypeOK
<1>2. PotInv /\ StatsInv => HitsAreRecordedOnce
  <2> SUFFICES ASSUME PotInv, StatsInv PROVE HitsAreRecordedOnce
    OBVIOUS
  <2>1. \A r \in rows : r.of \in Hits /\ HitInv(r.of)
    BY DEF PotInv
  <2>2. \A r \in rows : r.risk = hit[r.of].evidence /\ r.service = hit[r.of].service
    BY <2>1 DEF HitInv
  <2>3. \A c \in Hits : emitted[c] <= 1 /\ (emitted[c] = 0 => \A r \in rows : r.of # c)
    <3> SUFFICES ASSUME NEW c \in Hits
                 PROVE  emitted[c] <= 1 /\ (emitted[c] = 0 => \A r \in rows : r.of # c)
      OBVIOUS
    <3>1. HitInv(c)
      BY DEF PotInv
    <3>2. emitted[c] \in {0, 1}
      BY DEF PotInv
    <3>3. QED
      BY <3>1, <3>2 DEF HitInv
  <2>4. QED
    BY <2>2, <2>3 DEF PotInv, StatsInv, HitsAreRecordedOnce
<1>3. QED
  BY <1>1, <1>2, PotInvHolds, PTL

\* What is left of a session, by its phase and its commands.
LEMMA HandlerLeftIs ==
  ASSUME NEW c \in Hits
  PROVE  /\ hit[c].phase = "banner" => HandlerLeft(c) = FtpMax + 5
         /\ hit[c].phase = "reading" => HandlerLeft(c) = FtpMax + 4 - hit[c].commands
         /\ hit[c].phase = "enriching" => HandlerLeft(c) = 3
         /\ hit[c].phase = "storing" => HandlerLeft(c) = 2
         /\ hit[c].phase = "closing" => HandlerLeft(c) = 1
         /\ hit[c].phase \in {"closed", "crashed", "dropped"} => HandlerLeft(c) = 0
BY DEF HandlerLeft

\* Each step of a handler takes its session to a later phase, or counts a command.
LEMMA HandlerServes ==
  ASSUME PotInv, NEW c \in Hits, Open(c), Serves(c)
  PROVE  HandlerLeft(c)' < HandlerLeft(c)
<1>1. /\ hit[c] \in Session /\ FtpMax \in Nat \ {0}
      /\ hit[c].phase \in {"banner", "reading"} => hit[c].commands < FtpMax
  BY SessionHere, PotAssumption DEF Open, HitInv
<1>2. hit[c].commands \in Nat /\ hit[c].phase \in
        {"banner", "reading", "enriching", "storing", "closing", "closed", "crashed", "dropped"}
  BY <1>1 DEF Session
<1>3. c \in DOMAIN hit
  BY DEF PotInv
<1>4. ASSUME NEW next, Turn(c, next)
      PROVE  hit'[c].phase = next /\ hit'[c].commands = hit[c].commands
  BY <1>1, <1>3, <1>4 DEF Turn, Session
<1>5. /\ hit'[c].phase = "reading" => HandlerLeft(c)' = FtpMax + 4 - hit'[c].commands
      /\ hit'[c].phase = "enriching" => HandlerLeft(c)' = 3
      /\ hit'[c].phase = "storing" => HandlerLeft(c)' = 2
      /\ hit'[c].phase = "closing" => HandlerLeft(c)' = 1
      /\ hit'[c].phase \in {"closed", "crashed", "dropped"} => HandlerLeft(c)' = 0
  BY DEF HandlerLeft
<1>6. CASE SendBanner(c)
  <2>1. hit[c].phase = "banner" /\ Turn(c, "reading")
    BY <1>6 DEF SendBanner
  <2>2. QED
    BY <1>1, <1>2, <1>4, <1>5, <2>1, HandlerLeftIs
<1>7. CASE BannerFails(c)
  <2>1. hit[c].phase = "banner" /\ Turn(c, "crashed")
    BY <1>7 DEF BannerFails
  <2>2. QED
    BY <1>1, <1>2, <1>4, <1>5, <2>1, HandlerLeftIs
<1>8. CASE ReadOnce(c) \/ CommandsEnd(c)
  <2>1. hit[c].phase = "reading" /\ Turn(c, "enriching")
    BY <1>8 DEF ReadOnce, CommandsEnd
  <2>2. QED
    BY <1>1, <1>2, <1>4, <1>5, <2>1, HandlerLeftIs
<1>9. CASE ReadCommand(c)
  <2>1. PICK next \in {"enriching", "reading"} :
          hit' = [hit EXCEPT ![c].commands = @ + 1, ![c].phase = next]
    BY <1>9 DEF ReadCommand
  <2>2. hit[c].phase = "reading"
    BY <1>9 DEF ReadCommand
  <2>3. hit'[c].phase = next /\ hit'[c].commands = hit[c].commands + 1
    BY <1>1, <1>3, <2>1 DEF Session
  <2>4. QED
    BY <1>1, <1>2, <1>5, <2>2, <2>3, HandlerLeftIs
<1>10. CASE Enrich(c) \/ EnrichFails(c)
  <2>1. PICK risk, evidence : Enriched(c, risk, evidence)
    BY <1>10 DEF Enrich, EnrichFails
  <2>2. hit'[c].phase = "storing" /\ hit[c].phase = "enriching"
    BY <1>1, <1>3, <2>1 DEF Session, Enriched
  <2>3. QED
    BY <1>5, <2>2, HandlerLeftIs
<1>11. CASE StoreHit(c) \/ StoreFails(c)
  <2>1. hit[c].phase = "storing" /\ Turn(c, "closing")
    BY <1>11 DEF StoreHit, StoreFails
  <2>2. QED
    BY <1>4, <1>5, <2>1, HandlerLeftIs
<1>12. CASE CloseHit(c)
  <2>1. hit[c].phase = "closing" /\ Turn(c, "closed")
    BY <1>12 DEF CloseHit
  <2>2. QED
    BY <1>4, <1>5, <2>1, HandlerLeftIs
<1>13. QED
  BY <1>6, <1>7, <1>8, <1>9, <1>10, <1>11, <1>12 DEF Serves

\* What is left of an open session is a number, and nothing but its handler touches it.
LEMMA NothingAddsSteps ==
  ASSUME PotInv, [PotNext]_potVars, NEW c \in Hits, Open(c)
  PROVE  HandlerLeft(c)' <= HandlerLeft(c)
<1>1. /\ hit[c] \in Session /\ FtpMax \in Nat \ {0}
      /\ hit[c].phase \in {"banner", "reading"} => hit[c].commands < FtpMax
  BY SessionHere, PotAssumption DEF Open, HitInv
<1>2. hit[c].commands \in Nat /\ hit[c].phase \in
        {"banner", "reading", "enriching", "storing", "closing", "closed", "crashed", "dropped"}
  BY <1>1 DEF Session
<1>3. hit \in [Hits -> Session \cup {NewHit}]
  BY DEF PotInv
<1>4. HandlerLeft(c) \in Nat
  BY <1>1, <1>2, HandlerLeftIs
<1>5. ASSUME Serves(c) PROVE HandlerLeft(c)' <= HandlerLeft(c)
  <2>1. HandlerLeft(c)' < HandlerLeft(c)
    BY <1>5, HandlerServes
  <2>2. hit'[c].phase = "reading" => hit'[c].commands \in Int
    <3>1. PotInv'
      BY PotInvStep
    <3>2. hit'[c] \in Session \/ hit'[c] = NewHit
      BY <3>1 DEF PotInv
    <3>3. QED
      BY <3>2 DEF Session, NewHit
  <2>3. HandlerLeft(c)' \in Int
    BY <1>1, <2>2 DEF HandlerLeft
  <2>4. QED
    BY <1>4, <2>1, <2>3
<1>6. ASSUME \/ hit'[c] = hit[c]
             \/ hit'[c].phase = hit[c].phase /\ hit'[c].commands = hit[c].commands
      PROVE  HandlerLeft(c)' <= HandlerLeft(c)
  <2>1. HandlerLeft(c)' = HandlerLeft(c)
    BY <1>6 DEF HandlerLeft
  <2>2. QED
    BY <1>4, <2>1
<1>7. ASSUME hit'[c].phase = "dropped" PROVE HandlerLeft(c)' <= HandlerLeft(c)
  <2>1. HandlerLeft(c)' = 0
    BY <1>7 DEF HandlerLeft
  <2>2. QED
    BY <1>4, <2>1
<1>8. ASSUME NEW b \in Hits, HitNext(b) PROVE HandlerLeft(c)' <= HandlerLeft(c)
  <2>1. CASE b # c
    <3>1. PICK h : hit' = [hit EXCEPT ![b] = h]
      <4>1. \A next : Turn(b, next) => \E h : hit' = [hit EXCEPT ![b] = h]
        BY DEF Turn
      <4>2. CASE Connect(b)
        BY <4>2 DEF Connect
      <4>3. CASE SendBanner(b) \/ BannerFails(b) \/ ReadOnce(b) \/ CommandsEnd(b)
                 \/ StoreHit(b) \/ StoreFails(b) \/ CloseHit(b)
        BY <4>1, <4>3 DEF SendBanner, BannerFails, ReadOnce, CommandsEnd, StoreHit, StoreFails,
                          CloseHit
      <4>4. CASE PeerResets(b)
        BY <4>4 DEF PeerResets
      <4>5. CASE ReadCommand(b)
        BY <4>5 DEF ReadCommand
      <4>6. CASE Enrich(b) \/ EnrichFails(b)
        BY <4>6 DEF Enrich, EnrichFails, Enriched
      <4>7. QED
        BY <1>8, <4>2, <4>3, <4>4, <4>5, <4>6 DEF HitNext
    <3>2. hit'[c] = hit[c]
      BY <1>3, <2>1, <3>1
    <3>3. QED
      BY <1>6, <3>2
  <2>2. CASE b = c
    <3>1. CASE Connect(c)
      BY <3>1 DEF Connect, Open
    <3>2. CASE PeerResets(c)
      <4>1. hit' = [hit EXCEPT ![c].reset = TRUE]
        BY <3>2 DEF PeerResets
      <4>2. hit'[c].phase = hit[c].phase /\ hit'[c].commands = hit[c].commands
        BY <1>1, <1>3, <4>1 DEF Session
      <4>3. QED
        BY <1>6, <4>2
    <3>3. CASE Serves(c)
      BY <1>5, <3>3
    <3>4. QED
      BY <1>8, <2>2, <3>1, <3>2, <3>3 DEF HitNext, Serves
  <2>3. QED
    BY <2>1, <2>2
<1>9. ASSUME NEW w \in PotWorkers, StartHoneypots(w) \/ WorkerEnds(w)
      PROVE  HandlerLeft(c)' <= HandlerLeft(c)
  <2>1. CASE StartHoneypots(w)
    BY <1>6, <2>1 DEF StartHoneypots
  <2>2. CASE WorkerEnds(w)
    <3>1. hit'[c] = IF Open(c) /\ hit[c].on = w
                    THEN [hit[c] EXCEPT !.phase = "dropped"] ELSE hit[c]
      BY <2>2 DEF WorkerEnds
    <3>2. hit'[c] = hit[c] \/ hit'[c].phase = "dropped"
      BY <1>1, <3>1 DEF Session
    <3>3. QED
      BY <1>6, <1>7, <3>2
  <2>3. QED
    BY <1>9, <2>1, <2>2
<1>10. CASE CountTotal \/ CountByService \/ StatsAnswered \/ UNCHANGED potVars
  BY <1>6, <1>10 DEF CountTotal, CountByService, StatsAnswered, potVars
<1>11. QED
  BY <1>8, <1>9, <1>10 DEF PotNext

\* A session's handler comes to its end within a bounded number of its steps: for any
\* peers, services, workers and most commands.
THEOREM SessionsRunDown == PotSpec => SessionRunsDown
<1>1. PotInv /\ [PotNext]_potVars =>
        [\A c \in Hits : Open(c) =>
           /\ HandlerLeft(c)' <= HandlerLeft(c)
           /\ Serves(c) => HandlerLeft(c)' < HandlerLeft(c)]_potVars
  BY NothingAddsSteps, HandlerServes
<1>2. QED
  BY <1>1, PotInvHolds, PTL DEF PotSpec, SessionRunsDown

-----------------------------------------------------------------------------
(* The parts together                                                      *)

\* A behaviour of the composition is one of each part: the one that was chosen takes its
\* steps, the others stutter.
LEMMA EachPartRuns ==
  /\ DecisionsSpec => TriageSpec
  /\ DecisionsSpec => SearchSpec
  /\ DecisionsSpec => PotSpec
  /\ DecisionsSpec => PolicySpec
  /\ DecisionsSpec => [](part \in {"triage", "search", "honeypot", "policy"})
<1>1. DecisionsSpec => TriageSpec
  <2>1. DecisionsInit => TriageInit
    BY DEF DecisionsInit
  <2>2. [DecisionsNext]_decisionsVars => [TriageNext]_triageVars
    <3>1. DecisionsNext => TriageNext \/ UNCHANGED triageVars
      BY DEF DecisionsNext, Stays
    <3>2. UNCHANGED decisionsVars => UNCHANGED triageVars
      BY DEF decisionsVars
    <3>3. QED
      BY <3>1, <3>2
  <2>3. QED
    BY <2>1, <2>2, PTL DEF DecisionsSpec, TriageSpec
<1>2. DecisionsSpec => SearchSpec
  <2>1. DecisionsInit => SearchInit
    BY DEF DecisionsInit
  <2>2. [DecisionsNext]_decisionsVars => [SearchNext]_searchVars
    <3>1. DecisionsNext => SearchNext \/ UNCHANGED searchVars
      BY DEF DecisionsNext, Stays
    <3>2. UNCHANGED decisionsVars => UNCHANGED searchVars
      BY DEF decisionsVars
    <3>3. QED
      BY <3>1, <3>2
  <2>3. DecisionsFairness => SearchFairness
    BY PTL DEF DecisionsFairness
  <2>4. QED
    BY <2>1, <2>2, <2>3, PTL DEF DecisionsSpec, SearchSpec
<1>3. DecisionsSpec => PotSpec
  <2>1. DecisionsInit => PotInit
    BY DEF DecisionsInit
  <2>2. [DecisionsNext]_decisionsVars => [PotNext]_potVars
    <3>1. DecisionsNext => PotNext \/ UNCHANGED potVars
      BY DEF DecisionsNext, Stays
    <3>2. UNCHANGED decisionsVars => UNCHANGED potVars
      BY DEF decisionsVars
    <3>3. QED
      BY <3>1, <3>2
  <2>3. DecisionsFairness => PotFairness
    BY PTL DEF DecisionsFairness
  <2>4. QED
    BY <2>1, <2>2, <2>3, PTL DEF DecisionsSpec, PotSpec
<1>4. DecisionsSpec => PolicySpec
  <2>1. DecisionsInit => PolicyInit
    BY DEF DecisionsInit
  <2>2. [DecisionsNext]_decisionsVars => [PolicyNext]_policyVars
    <3>1. DecisionsNext => PolicyNext \/ UNCHANGED policyVars
      BY DEF DecisionsNext, Stays
    <3>2. UNCHANGED decisionsVars => UNCHANGED policyVars
      BY DEF decisionsVars
    <3>3. QED
      BY <3>1, <3>2
  <2>3. QED
    BY <2>1, <2>2, PTL DEF DecisionsSpec, PolicySpec
<1>5. DecisionsSpec => [](part \in {"triage", "search", "honeypot", "policy"})
  <2>1. DecisionsInit => part \in {"triage", "search", "honeypot", "policy"}
    BY DEF DecisionsInit
  <2>2. part \in {"triage", "search", "honeypot", "policy"} /\ [DecisionsNext]_decisionsVars
          => (part \in {"triage", "search", "honeypot", "policy"})'
    BY DEF DecisionsNext, decisionsVars
  <2>3. QED
    BY <2>1, <2>2, PTL DEF DecisionsSpec
<1>6. QED
  BY <1>1, <1>2, <1>3, <1>4, <1>5

\* The state of every part has its shape: for any values of the constants.
THEOREM DecisionsTypeCorrect == DecisionsSpec => []DecisionsTypeOK
<1>1. part \in {"triage", "search", "honeypot", "policy"}
        /\ TriageTypeOK /\ SearchTypeOK /\ PotTypeOK /\ PolicyTypeOK => DecisionsTypeOK
  BY DEF DecisionsTypeOK
<1>2. QED
  BY <1>1, EachPartRuns, SpentDayEndsTheBatch, SearchesTellTheTruth, RowsAreTheSessions,
     PolicyTypeCorrect, PTL

\* What is answered is true of what happened: the summary of a batch, the entries of the
\* sources, the rows of the honeypot and the decision of a policy.
THEOREM AnswersStayTrue == DecisionsSpec => []AnswersAreTrue
<1>1. part \in {"triage", "search", "honeypot", "policy"}
        /\ BatchAccounted /\ SpentDayStops /\ StatusIsTheTruth /\ FailuresAreTold
        /\ HitsAreRecordedOnce /\ DecisionIsDeclarative /\ MissingNeverAllows
        => AnswersAreTrue
  BY DEF AnswersAreTrue
<1>2. QED
  BY <1>1, EachPartRuns, SpentDayEndsTheBatch, SearchesTellTheTruth, RowsAreTheSessions,
     DecidedByTheSet, MissingAllowsNothing, PTL

\* What is behind EverythingEnds: a batch, a search and a session have finitely many
\* steps before them, every one of which leaves fewer, and a batch is never stuck.
THEOREM AnswersRunDown ==
  DecisionsSpec => /\ [](Work \in Nat /\ BatchCanGoOn) /\ [][WorkFalls]_triageVars
                   /\ SearchRunsDown /\ SessionRunsDown
  BY EachPartRuns, BatchRunsOut, SearchesRunDown, SessionsRunDown, PTL
=============================================================================
