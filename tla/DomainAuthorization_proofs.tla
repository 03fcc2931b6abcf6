---------------------- MODULE DomainAuthorization_proofs ----------------------
(***************************************************************************)
(* Theorems about DomainAuthorization, for any number of users, records,   *)
(* tokens and requests, and any tree of names.                             *)
(***************************************************************************)
EXTENDS DomainAuthorization, FiniteSetTheorems, TLAPS

\* A request that is looking tokens up has seen whatever it has found; the gate
\* looks only at records of its user that cover its target.
LookingOK(r) ==
  /\ \A s \in Slots : held[r][s] # "none" => heldToken[r][s] \in Tokens
  /\ \A s \in Slots : heldToken[r][s] \in published => heldToken[r][s] \in witnessed[r]
  /\ \A s \in Slots : result[r][s] = "match" => heldToken[r][s] \in witnessed[r]
  /\ stage[r] = "gate" =>
       \A s \in Slots : held[r][s] # "none" =>
         s.user = asks[r].user /\ Covers(s, asks[r].target)

ScopeOf(s) == [domain |-> s.domain, method |-> s.method]

\* An accepted scan was decided upon a scope it had just proved, or none.
DecidedOn(r, scope) ==
  LET d == Decide(asks[r].target, asks[r].checks, scope)
  IN  d.denied = {} /\ d.basis = basis[r]

AcceptedOK(r) ==
  \/ DecidedOn(r, NoScope)
  \/ \E s \in Slots :
       /\ s.user = asks[r].user
       /\ Covers(s, asks[r].target)
       /\ heldToken[r][s] \in witnessed[r]
       /\ DecidedOn(r, ScopeOf(s))

ReqOK(r) ==
  /\ stage[r] \in {"idle", "insert", "accepted"} =>
       result[r] = Blank("none") /\ held[r] = Blank("none")
  /\ stage[r] \in {"check", "gate"} => LookingOK(r)
  /\ stage[r] = "accepted" => AcceptedOK(r)

DomInv == DomTypeOK /\ \A r \in Reqs : ReqOK(r)

LEMMA DomInvInit == DomInit => DomInv
  BY DomainAssumption, AuthzAssumption
  DEF DomInit, DomInv, DomTypeOK, ReqOK, Blank, Statuses, Stages, Results, Bases, NoBasis,
      Methods

-----------------------------------------------------------------------------
\* Of a request that returns nothing is left.
LEMMA Returned ==
  ASSUME DomTypeOK, NEW r \in Reqs, Return(r)
  PROVE  /\ stage' \in [Reqs -> Stages] /\ stage'[r] = "idle"
         /\ slot' \in [Reqs -> Slots \cup {NoSlot}]
         /\ asks' \in [Reqs -> Asked \cup {NoAsk}]
         /\ held' \in [Reqs -> [Slots -> Statuses]]
         /\ heldToken' \in [Reqs -> [Slots -> Tokens \cup {NoToken}]]
         /\ result' \in [Reqs -> [Slots -> Results]]
         /\ basis' \in [Reqs -> Bases]
         /\ witnessed' \in [Reqs -> SUBSET Tokens]
         /\ ReqOK(r)'
         /\ \A q \in Reqs \ {r} :
              /\ stage'[q] = stage[q] /\ slot'[q] = slot[q] /\ asks'[q] = asks[q]
              /\ held'[q] = held[q] /\ heldToken'[q] = heldToken[q]
              /\ result'[q] = result[q] /\ basis'[q] = basis[q]
              /\ witnessed'[q] = witnessed[q]
<1>1. /\ NoBasis \in Bases
      /\ Blank("none") \in [Slots -> Statuses] /\ Blank("none") \in [Slots -> Results]
      /\ Blank(NoToken) \in [Slots -> Tokens \cup {NoToken}]
  BY DEF NoBasis, Bases, Blank, Statuses, Results
<1>2. QED
  BY <1>1 DEF Return, DomTypeOK, Stages, ReqOK

\* What a request knows stays true while nothing but the rows changes.
LEMMA Kept ==
  ASSUME NEW q \in Reqs, ReqOK(q), UNCHANGED published,
         stage'[q] = stage[q], asks'[q] = asks[q], held'[q] = held[q],
         heldToken'[q] = heldToken[q], result'[q] = result[q],
         basis'[q] = basis[q], witnessed'[q] = witnessed[q]
  PROVE  ReqOK(q)'
  BY DEF ReqOK, LookingOK, AcceptedOK, DecidedOn, Blank

\* A flush that goes through writes only rows that are still the loaded ones.
LEMMA Flushed ==
  ASSUME DomInv, NEW r \in Reqs, stage[r] \in {"check", "gate"},
         MustRaise(r) = {}, Flush(r)
  PROVE  /\ status' \in [Slots -> Statuses]
         /\ token' = token
         /\ Rows' = Rows
         /\ \A s \in Slots : status'[s] # status[s] =>
              /\ s \in Loaded(r)
              /\ token[s] = heldToken[r][s]
              /\ status'[s] = StatusAfter(held[r][s], result[r][s])
              /\ status'[s] # held[r][s]
              /\ status'[s] # "none"
<1>1. \A s \in Slots : StatusAfter(held[r][s], result[r][s]) \in Statuses
  BY DEF StatusAfter, Statuses, DomInv, DomTypeOK
<1>2. status' \in [Slots -> Statuses] /\ token' = token
  BY <1>1 DEF Flush, DomInv, DomTypeOK
<1>3. ASSUME NEW s \in Slots, s \in Loaded(r),
             StatusAfter(held[r][s], result[r][s]) # held[r][s]
      PROVE  /\ StatusAfter(held[r][s], result[r][s]) # "none"
             /\ token[s] = heldToken[r][s]
             /\ status[s] # "none"
  <2>1. heldToken[r][s] \in Tokens
    BY <1>3 DEF DomInv, ReqOK, LookingOK, Loaded
  <2>2. CASE result[r][s] # "transient"
    BY <1>3, <2>1, <2>2, DomainAssumption
    DEF MustRaise, Gone, StatusAfter, DomInv, DomTypeOK
  <2>3. CASE result[r][s] = "transient"
    <3>1. held[r][s] = "pending"
      BY <1>3, <2>3 DEF StatusAfter
    <3>2. QED
      BY <1>3, <2>1, <2>3, <3>1, DomainAssumption DEF StatusAfter, DomInv, DomTypeOK, MustRaise, Gone
  <2>4. QED
    BY <2>2, <2>3
<1>4. QED
  BY <1>2, <1>3 DEF Flush, Rows, DomInv, DomTypeOK

-----------------------------------------------------------------------------
\* The steps that only create, read or delete rows.
LEMMA RecordStep ==
  ASSUME DomInv, NEW r \in Reqs,
         \/ \E s \in Slots : LookForRecord(r, s)
         \/ \E t \in Tokens : InsertRecord(r, t)
         \/ InsertDuplicate(r) \/ EndRequest(r)
  PROVE  DomInv'
<1> USE DEF DomInv
<1>1. ASSUME NEW s \in Slots, LookForRecord(r, s) PROVE DomInv'
  <2>1. DomTypeOK'
    BY <1>1 DEF LookForRecord, DomTypeOK, rowVars, Stages
  <2>2. ASSUME NEW q \in Reqs \ {r} PROVE ReqOK(q)'
    BY <1>1, Kept DEF LookForRecord, DomTypeOK, rowVars
  <2>3. ReqOK(r)'
    BY <1>1 DEF LookForRecord, DomTypeOK, rowVars, ReqOK, Blank
  <2>4. QED
    BY <2>1, <2>2, <2>3
<1>2. ASSUME NEW t \in Tokens, InsertRecord(r, t) PROVE DomInv'
  <2>1. DomTypeOK'
    <3>1. slot[r] \in Slots
      BY <1>2 DEF InsertRecord, DomTypeOK
    <3>2. status' \in [Slots -> Statuses] /\ token' \in [Slots -> Tokens \cup {NoToken}]
      BY <1>2, <3>1 DEF InsertRecord, DomTypeOK, Statuses
    <3>3. \A q \in Slots : status'[q] = "none" <=> token'[q] = NoToken
      BY <1>2, <3>1, DomainAssumption DEF InsertRecord, DomTypeOK
    <3>4. \A p, q \in Slots : token'[p] = token'[q] => p = q \/ token'[p] = NoToken
      BY <1>2, <3>1 DEF InsertRecord, DomTypeOK, Fresh
    <3>5. QED
      BY <1>2, <3>2, <3>3, <3>4, Returned, ZenonT(60) DEF InsertRecord, DomTypeOK
  <2>2. QED
    BY <1>2, <2>1, Returned, Kept DEF InsertRecord
<1>3. CASE InsertDuplicate(r)
  <2>1. DomTypeOK'
    BY <1>3, Returned DEF InsertDuplicate, DomTypeOK, rowVars
  <2>2. QED
    BY <1>3, <2>1, Returned, Kept DEF InsertDuplicate, rowVars
<1>4. CASE EndRequest(r)
  <2>1. DomTypeOK'
    BY <1>4, Returned DEF EndRequest, DomTypeOK, rowVars
  <2>2. QED
    BY <1>4, <2>1, Returned, Kept DEF EndRequest, rowVars
<1>5. QED
  BY <1>1, <1>2, <1>3, <1>4

LEMMA DeleteStep ==
  ASSUME DomInv, NEW s \in Slots, DeleteRecord(s)
  PROVE  DomInv'
<1>1. DomTypeOK'
  BY DEF DeleteRecord, DomInv, DomTypeOK, reqVars, Statuses
<1>2. QED
  BY <1>1, Kept DEF DeleteRecord, DomInv, reqVars

\* A session that loads records has the published ones among them witnessed.
LEMMA Loading ==
  ASSUME DomInv, NEW r \in Reqs, stage[r] = "idle", NEW L \in SUBSET Rows, Load(r, L),
         UNCHANGED <<rowVars, published, slot, result, basis>>,
         asks' \in [Reqs -> Asked \cup {NoAsk}], stage' \in [Reqs -> Stages],
         stage'[r] = "check" \/ (stage'[r] = "gate" /\ asks'[r] \in Asked /\
           \A s \in L : s.user = asks'[r].user /\ Covers(s, asks'[r].target)),
         \A q \in Reqs \ {r} : stage'[q] = stage[q] /\ asks'[q] = asks[q]
  PROVE  DomInv'
<1> USE DEF DomInv
<1>1. /\ held' \in [Reqs -> [Slots -> Statuses]]
      /\ heldToken' \in [Reqs -> [Slots -> Tokens \cup {NoToken}]]
      /\ witnessed' \in [Reqs -> SUBSET Tokens]
      /\ held'[r] = [s \in Slots |-> IF s \in L THEN status[s] ELSE "none"]
      /\ heldToken'[r] = [s \in Slots |-> IF s \in L THEN token[s] ELSE NoToken]
      /\ witnessed'[r] = published \cap {token[s] : s \in L}
  BY DEF Load, DomTypeOK, Statuses
<1>2. DomTypeOK'
  BY <1>1 DEF DomTypeOK, rowVars
<1>3. ASSUME NEW q \in Reqs \ {r} PROVE ReqOK(q)'
  BY <1>3, Kept DEF Load, DomTypeOK
<1>4. LookingOK(r)'
  <2>1. \A s \in Slots : held'[r][s] # "none" => heldToken'[r][s] \in Tokens
    BY <1>1 DEF Rows, DomTypeOK
  <2>2. \A s \in Slots : heldToken'[r][s] \in published' => heldToken'[r][s] \in witnessed'[r]
    BY <1>1, DomainAssumption DEF Rows, DomTypeOK
  <2>3. \A s \in Slots : result'[r][s] # "match"
    BY DEF ReqOK, Blank
  <2>4. stage'[r] = "gate" =>
          \A s \in Slots : held'[r][s] # "none" =>
            s.user = asks'[r].user /\ Covers(s, asks'[r].target)
    BY <1>1
  <2>5. QED
    BY <2>1, <2>2, <2>3, <2>4 DEF LookingOK, Covers
<1>5. QED
  BY <1>2, <1>3, <1>4 DEF ReqOK

LEMMA BeginStep ==
  ASSUME DomInv, NEW r \in Reqs,
         (\E s \in Slots : BeginCheck(r, s)) \/ (\E a \in Asks : BeginGate(r, a))
  PROVE  DomInv'
<1>1. ASSUME NEW s \in Slots, BeginCheck(r, s) PROVE DomInv'
  <2>1. {s} \in SUBSET Rows
    BY <1>1 DEF BeginCheck
  <2>2. QED
    BY <1>1, <2>1, Loading DEF BeginCheck, DomInv, DomTypeOK, Stages
<1>2. ASSUME NEW a \in Asks, BeginGate(r, a) PROVE DomInv'
  <2> DEFINE b == [a EXCEPT !.checks = Expand(a.checks)]
             L == {s \in RecordsOf(a.user) : /\ status[s] = "verified"
                                             /\ Expand(a.checks) \cap Active # {}
                                             /\ Covers(s, a.target)}
  <2>1. b \in Asked /\ b.user = a.user /\ b.target = a.target
    BY DomainAssumption DEF Asked
  <2>2. L \in SUBSET Rows /\ \A s \in L : s.user = a.user /\ Covers(s, a.target)
    BY DEF RecordsOf
  <2>3. /\ asks' \in [Reqs -> Asked \cup {NoAsk}] /\ asks'[r] = b
        /\ stage' \in [Reqs -> Stages] /\ stage[r] = "idle" /\ stage'[r] = "gate"
        /\ \A q \in Reqs \ {r} : stage'[q] = stage[q] /\ asks'[q] = asks[q]
    BY <1>2, <2>1 DEF BeginGate, DomInv, DomTypeOK, Stages
  <2>4. Load(r, L) /\ UNCHANGED <<rowVars, published, slot, result, basis>>
    BY <1>2 DEF BeginGate
  <2>5. \A s \in L : s.user = asks'[r].user /\ Covers(s, asks'[r].target)
    BY <2>1, <2>2, <2>3
  <2> HIDE DEF L, b
  <2>6. QED
    BY <2>1, <2>2, <2>3, <2>4, <2>5, Loading
<1>3. QED
  BY <1>1, <1>2

-----------------------------------------------------------------------------
LEMMA LookUpStep ==
  ASSUME DomInv, NEW r \in Reqs, NEW s \in Slots, NEW found \in Results \ {"none"},
         LookUp(r, s, found)
  PROVE  DomInv'
<1> USE DEF DomInv
<1>1. /\ result' \in [Reqs -> [Slots -> Results]]
      /\ result'[r] = [result[r] EXCEPT ![s] = found]
      /\ \A q \in Reqs \ {r} : result'[q] = result[q]
  BY DEF LookUp, DomTypeOK
<1>2. DomTypeOK'
  BY <1>1 DEF LookUp, DomTypeOK, rowVars
<1>3. ASSUME NEW q \in Reqs \ {r} PROVE ReqOK(q)'
  BY <1>1, <1>3, Kept DEF LookUp
<1>4. LookingOK(r)'
  <2>1. LookingOK(r)
    BY DEF LookUp, ReqOK
  <2>2. \A q \in Slots : result'[r][q] = "match" => heldToken[r][q] \in witnessed[r]
    BY <1>1, <2>1 DEF LookUp, LookingOK, DomTypeOK
  <2>3. QED
    BY <2>1, <2>2 DEF LookUp, LookingOK, Covers
<1>5. QED
  BY <1>2, <1>3, <1>4 DEF ReqOK, LookUp

\* A decision taken by the gate rests on a record it has just proved, or none.
LEMMA Deciding ==
  ASSUME DomInv, NEW r \in Reqs, stage[r] = "gate", NEW d \in Decisions(r), d.denied = {},
         asks'[r] = asks[r], basis'[r] = d.basis, heldToken'[r] = heldToken[r],
         witnessed'[r] = witnessed[r]
  PROVE  AcceptedOK(r)'
<1>1. LookingOK(r)
  BY DEF DomInv, ReqOK
<1>2. CASE Proved(r) = {}
  <2>1. d = Decide(asks[r].target, asks[r].checks, NoScope)
    BY <1>2 DEF Decisions
  <2>2. DecidedOn(r, NoScope)'
    BY <2>1 DEF DecidedOn
  <2>3. QED
    BY <2>2 DEF AcceptedOK
<1>3. CASE Proved(r) # {}
  <2>1. PICK s \in Proved(r) : d = Decide(asks[r].target, asks[r].checks, ScopeOf(s))
    BY <1>3 DEF Decisions, ScopeOf
  <2>2. s \in Slots /\ held[r][s] # "none" /\ result[r][s] = "match"
    BY DEF Proved, Loaded
  <2>3. s.user = asks[r].user /\ Covers(s, asks[r].target) /\ heldToken[r][s] \in witnessed[r]
    BY <1>1, <2>2 DEF LookingOK
  <2>4. DecidedOn(r, ScopeOf(s))'
    BY <2>1 DEF DecidedOn
  <2>5. QED
    BY <2>2, <2>3, <2>4 DEF AcceptedOK, Covers
<1>4. QED
  BY <1>2, <1>3

\* The bases of decisions are well formed.
LEMMA BasisType ==
  ASSUME DomTypeOK, NEW r \in Reqs, NEW d \in Decisions(r)
  PROVE  d.basis \in Bases
<1>1. ASSUME NEW scope, scope = NoScope \/ \E s \in Slots : scope = ScopeOf(s),
             NEW host, NEW checks
      PROVE  Decide(host, checks, scope).basis \in Bases
  <2>1. scope # NoScope => scope.domain \in Names /\ scope.method \in Methods
    BY <1>1, DomainAssumption DEF ScopeOf
  <2>2. QED
    BY <2>1, AuthzAssumption DEF Decide, Bases
<1>2. PICK scope : /\ scope = NoScope \/ \E s \in Slots : scope = ScopeOf(s)
                   /\ d = Decide(asks[r].target, asks[r].checks, scope)
  BY DEF Decisions, Proved, Loaded, ScopeOf
<1>3. QED
  BY <1>1, <1>2

LEMMA CommitStep ==
  ASSUME DomInv, NEW r \in Reqs,
         CommitCheck(r) \/ Deny(r) \/ \E d \in Decisions(r) : Accept(r, d)
  PROVE  DomInv'
<1> USE DEF DomInv
<1>1. stage[r] \in {"check", "gate"} /\ MustRaise(r) = {} /\ Flush(r)
  BY DEF CommitCheck, Deny, Accept, MustRaise
<1>2. /\ status' \in [Slots -> Statuses]
      /\ token' = token
      /\ \A s \in Slots : status'[s] = "none" <=> token'[s] = NoToken
  BY <1>1, Flushed DEF DomTypeOK, Rows
<1>3. CASE CommitCheck(r) \/ Deny(r)
  <2>1. Return(r) /\ UNCHANGED published
    BY <1>3 DEF CommitCheck, Deny
  <2>2. DomTypeOK'
    BY <1>2, <2>1, Returned DEF DomTypeOK
  <2>3. QED
    BY <2>1, <2>2, Returned, Kept
<1>4. ASSUME NEW d \in Decisions(r), Accept(r, d) PROVE DomInv'
  <2>1. /\ stage[r] = "gate" /\ d.denied = {}
        /\ stage' = [stage EXCEPT ![r] = "accepted"]
        /\ basis' = [basis EXCEPT ![r] = d.basis]
        /\ held' = [held EXCEPT ![r] = Blank("none")]
        /\ result' = [result EXCEPT ![r] = Blank("none")]
        /\ UNCHANGED <<published, slot, asks, heldToken, witnessed>>
    BY <1>4 DEF Accept
  <2>2. Blank("none") \in [Slots -> Statuses] /\ Blank("none") \in [Slots -> Results]
    BY DEF Blank, Statuses, Results
  <2>3. DomTypeOK'
    BY <1>2, <2>1, <2>2, BasisType DEF DomTypeOK, Stages
  <2>4. ASSUME NEW q \in Reqs \ {r} PROVE ReqOK(q)'
    BY <2>1, <2>4, Kept DEF DomTypeOK
  <2>5. AcceptedOK(r)'
    BY <2>1, Deciding DEF DomTypeOK
  <2>6. ReqOK(r)'
    BY <2>1, <2>5 DEF ReqOK, DomTypeOK, Blank
  <2>7. QED
    BY <2>3, <2>4, <2>6
<1>5. QED
  BY <1>3, <1>4

\* The owner's doings: whatever is published while a request holds its token
\* is witnessed by the request.
LEMMA OwnerStep ==
  ASSUME DomInv, (\E s \in Slots : Publish(s)) \/ (\E t \in Tokens : Withdraw(t))
  PROVE  DomInv'
<1> USE DEF DomInv
<1>1. ASSUME NEW s \in Slots, Publish(s) PROVE DomInv'
  <2>1. token[s] \in Tokens
    BY <1>1 DEF Publish, Rows, DomTypeOK
  <2>2. /\ witnessed' \in [Reqs -> SUBSET Tokens]
        /\ \A r \in Reqs : witnessed[r] \subseteq witnessed'[r]
    BY <1>1, <2>1 DEF Publish, DomTypeOK
  <2>3. DomTypeOK'
    BY <1>1, <2>1, <2>2 DEF Publish, DomTypeOK, rowVars, reqVars
  <2>4. ASSUME NEW r \in Reqs PROVE ReqOK(r)'
    <3>1. UNCHANGED reqVars
      BY <1>1 DEF Publish
    <3>2. CASE stage[r] \in {"check", "gate"}
      <4>1. \A q \in Slots : heldToken[r][q] \in published' => heldToken[r][q] \in witnessed'[r]
        BY <1>1, <3>2, <2>2 DEF Publish, ReqOK, LookingOK, DomTypeOK
      <4>2. LookingOK(r)'
        BY <3>1, <3>2, <4>1, <2>2 DEF reqVars, ReqOK, LookingOK, Covers
      <4>3. QED
        BY <3>1, <3>2, <4>2 DEF reqVars, ReqOK
    <3>3. CASE stage[r] \notin {"check", "gate"}
      BY <3>1, <3>3, <2>2 DEF reqVars, ReqOK, AcceptedOK, DecidedOn, Covers, Blank
    <3>4. QED
      BY <3>2, <3>3
  <2>5. QED
    BY <2>3, <2>4
<1>2. ASSUME NEW t \in Tokens, Withdraw(t) PROVE DomInv'
  <2>1. DomTypeOK'
    BY <1>2 DEF Withdraw, DomTypeOK, rowVars, reqVars
  <2>2. ASSUME NEW r \in Reqs PROVE ReqOK(r)'
    <3>1. UNCHANGED <<reqVars, witnessed>> /\ published' \subseteq published
      BY <1>2 DEF Withdraw
    <3>2. LookingOK(r) => LookingOK(r)'
      BY <3>1 DEF reqVars, LookingOK, Covers
    <3>3. AcceptedOK(r) => AcceptedOK(r)'
      BY <3>1 DEF reqVars, AcceptedOK, DecidedOn, Covers
    <3>4. QED
      BY <3>1, <3>2, <3>3 DEF reqVars, ReqOK, Blank
  <2>3. QED
    BY <2>1, <2>2
<1>3. QED
  BY <1>1, <1>2

LEMMA DomInvStep == DomInv /\ [DomNext]_domVars => DomInv'
<1> SUFFICES ASSUME DomInv, [DomNext]_domVars
             PROVE  DomInv'
  OBVIOUS
<1>1. ASSUME NEW r \in Reqs, Serve(r) PROVE DomInv'
  <2>1. CASE \/ \E s \in Slots : LookForRecord(r, s)
             \/ \E t \in Tokens : InsertRecord(r, t)
             \/ InsertDuplicate(r) \/ EndRequest(r)
    BY <2>1, RecordStep
  <2>2. CASE (\E s \in Slots : BeginCheck(r, s)) \/ (\E a \in Asks : BeginGate(r, a))
    BY <2>2, BeginStep
  <2>3. CASE \E s \in Slots, found \in Results \ {"none"} : LookUp(r, s, found)
    BY <2>3, LookUpStep
  <2>4. CASE CommitCheck(r) \/ Deny(r) \/ \E d \in Decisions(r) : Accept(r, d)
    BY <2>4, CommitStep
  <2>5. QED
    BY <1>1, <2>1, <2>2, <2>3, <2>4 DEF Serve
<1>2. CASE UNCHANGED domVars
  BY <1>2, Kept DEF domVars, rowVars, reqVars, DomInv, DomTypeOK, Rows
<1>3. ASSUME NEW s \in Slots, DeleteRecord(s) PROVE DomInv'
  BY <1>3, DeleteStep
<1>4. QED
  BY <1>1, <1>2, <1>3, OwnerStep DEF DomNext

\* The strengthened invariant: what a request under way has found is what it
\* has witnessed, and an accepted scan was decided upon that.
THEOREM DomInvariant == DomSpec => []DomInv
  BY DomInvInit, DomInvStep, PTL DEF DomSpec

\* Records, requests and what they hold are always well formed, and no two
\* records share a token.
THEOREM DomTypeCorrect == DomSpec => []DomTypeOK
<1>1. DomInv => DomTypeOK
  BY DEF DomInv
<1>2. QED
  BY <1>1, DomInvariant, PTL

-----------------------------------------------------------------------------
\* The traffic of a scan that was decided upon a covering scope stays within
\* that scope.
LEMMA ScopeConfines ==
  ASSUME NEW scope \in [domain : Names, method : Methods],
         NEW host \in Names, Covers(scope, host),
         NEW checks, checks \cap Active # {},
         NEW h \in Reachable(Decide(host, checks, scope).basis, host)
  PROVE  \/ h \in Names /\ Covers(scope, h)
         \/ h \in Addresses /\ \E n \in Names : Covers(scope, n) /\ h \in Resolve[n]
<1> DEFINE b == [kind |-> "verified", method |-> scope.method, host |-> scope.domain]
           allowed == NamesAllowed(ScopeHosts(b), ScopeSuffixes(b))
<1>1. Decide(host, checks, scope).basis = b
  BY AuthzAssumption DEF Decide, NoScope
<1>2. allowed \subseteq Names /\ \A n \in allowed : Covers(scope, n)
  <2>1. ASSUME NEW n \in allowed
        PROVE  n \in Names /\ (n \in ScopeHosts(b) \/ \E d \in ScopeSuffixes(b) : InSuffix(n, d))
    BY DEF NamesAllowed
  <2>2. CASE scope.method = "dns_txt"
    <3>1. ScopeHosts(b) = {} /\ ScopeSuffixes(b) = {scope.domain}
      BY <2>2 DEF ScopeHosts, ScopeSuffixes
    <3>2. QED
      BY <2>1, <2>2, <3>1 DEF InSuffix, Covers
  <2>3. CASE scope.method = "http_file"
    <3>1. ScopeHosts(b) = {scope.domain} /\ ScopeSuffixes(b) = {}
      BY <2>3 DEF ScopeHosts, ScopeSuffixes
    <3>2. QED
      BY <2>1, <3>1 DEF Covers
  <2>4. QED
    BY <2>2, <2>3 DEF Methods
<1>3. CASE h \in allowed
  BY <1>2, <1>3
<1>4. CASE h \in ScopeAddresses(ScopeHosts(b), ScopeSuffixes(b), host)
  <2>1. PICK n \in allowed : h \in Resolve[n]
    BY <1>4 DEF ScopeAddresses
  <2>2. h \in Addresses
    BY <1>2, <2>1, AuthzAssumption
  <2>3. QED
    BY <1>2, <2>1, <2>2
<1>5. QED
  BY <1>1, <1>3, <1>4 DEF Reachable

\* Without a scope, active checks are granted on training targets only, and
\* their traffic stays there.
LEMMA TrainingConfines ==
  ASSUME NEW host, NEW checks, checks \cap Active # {},
         Decide(host, checks, NoScope).denied = {}
  PROVE  /\ host \in Training /\ checks \cap Active \subseteq Permits[host]
         /\ \A h \in Reachable(Decide(host, checks, NoScope).basis, host) :
              h = host \/ (h \in Addresses /\ h \in Resolve[host])
<1>1. host \in Training /\ checks \cap Active \subseteq Permits[host] /\ host # NoHost
  BY AuthzAssumption DEF Decide, Granted
<1> DEFINE b == [kind |-> "training", method |-> "none", host |-> host]
<1>2. Decide(host, checks, NoScope).basis = b
  BY <1>1 DEF Decide
<1>3. ScopeHosts(b) = {host} /\ ScopeSuffixes(b) = {}
  BY DEF ScopeHosts, ScopeSuffixes
<1>4. NamesAllowed({host}, {}) = {host}
  BY <1>1, AuthzAssumption DEF NamesAllowed
<1>5. ScopeAddresses({host}, {}, host) \subseteq Resolve[host]
  BY <1>4 DEF ScopeAddresses
<1>6. Resolve[host] \subseteq Addresses
  BY <1>1, AuthzAssumption
<1>7. QED
  BY <1>1, <1>2, <1>3, <1>4, <1>5, <1>6 DEF Reachable

\* An active scan reaches only what its user proved while it was being
\* authorized, or its training target.
THEOREM ActiveProved == DomSpec => []ActiveOnlyWhereProved
<1>1. DomInv => ActiveOnlyWhereProved
  <2> SUFFICES ASSUME DomInv, NEW r \in Reqs, stage[r] = "accepted", ActiveOf(r) # {},
                      NEW h \in Reachable(basis[r], asks[r].target)
               PROVE  \/ h \in Names /\
                           (ProvedInRequest(r, h) \/ (h = asks[r].target /\ h \in Training))
                      \/ h \in Addresses /\ \E n \in Names :
                           /\ ProvedInRequest(r, n) \/ (n = asks[r].target /\ n \in Training)
                           /\ h \in Resolve[n]
    BY DEF ActiveOnlyWhereProved
  <2>1. AcceptedOK(r)
    BY DEF DomInv, ReqOK
  <2>2. CASE DecidedOn(r, NoScope)
    BY <2>2, TrainingConfines, AuthzAssumption DEF DecidedOn, ActiveOf
  <2>3. ASSUME NEW s \in Slots, s.user = asks[r].user, Covers(s, asks[r].target),
               heldToken[r][s] \in witnessed[r], DecidedOn(r, ScopeOf(s))
        PROVE  \/ h \in Names /\ ProvedInRequest(r, h)
               \/ h \in Addresses /\ \E n \in Names : ProvedInRequest(r, n) /\ h \in Resolve[n]
    <3>1. ScopeOf(s) \in [domain : Names, method : Methods]
      BY DomainAssumption DEF ScopeOf
    <3>2. \A n : Covers(ScopeOf(s), n) <=> Covers(s, n)
      BY DEF ScopeOf, Covers
    <3>3. asks[r].target \in Names /\ Covers(ScopeOf(s), asks[r].target)
      BY <2>3, <3>2 DEF Covers
    <3>4. \A n : Covers(s, n) => ProvedInRequest(r, n)
      BY <2>3 DEF ProvedInRequest
    <3>5. \/ h \in Names /\ Covers(ScopeOf(s), h)
          \/ h \in Addresses /\ \E n \in Names : Covers(ScopeOf(s), n) /\ h \in Resolve[n]
      BY <2>3, <3>1, <3>3, ScopeConfines DEF DecidedOn, ActiveOf
    <3>6. QED
      BY <3>2, <3>4, <3>5
  <2>4. QED
    BY <2>1, <2>2, <2>3 DEF AcceptedOK
<1>2. QED
  BY <1>1, DomInvariant, PTL

\* An accepted scan consists of known checks, and of no active check that
\* neither a proof nor the target's training entry covers.
THEOREM ChecksPermitted == DomSpec => []AcceptedChecksPermitted
<1>1. ASSUME NEW host, NEW checks, NEW scope, Decide(host, checks, scope).denied = {},
             checks # {}
      PROVE  checks \subseteq Active \cup Passive /\ host # NoHost
  BY <1>1 DEF Decide, Granted
<1>2. \A r \in Reqs : asks[r] \in Asked => asks[r].checks # {}
  <2>1. \A types : Expand(types) # {}
    BY AuthzAssumption DEF Expand
  <2>2. \A a \in Asks : [a EXCEPT !.checks = Expand(a.checks)].checks = Expand(a.checks)
    BY DomainAssumption
  <2>3. QED
    <3>1. ASSUME NEW r \in Reqs, asks[r] \in Asked PROVE asks[r].checks # {}
      <4>1. PICK a \in Asks : asks[r] = [a EXCEPT !.checks = Expand(a.checks)]
        BY <3>1 DEF Asked
      <4>2. QED
        BY <2>1, <2>2, <4>1
    <3>2. QED
      BY <3>1
<1>3. DomInv => AcceptedChecksPermitted
  <2> SUFFICES ASSUME DomInv, NEW r \in Reqs, stage[r] = "accepted"
               PROVE  /\ asks[r].checks \subseteq Active \cup Passive
                      /\ asks[r].target # NoHost
                      /\ \/ ProvedInRequest(r, asks[r].target)
                         \/ asks[r].target \in Training /\ ActiveOf(r) \subseteq Permits[asks[r].target]
                         \/ ActiveOf(r) = {}
    BY DEF AcceptedChecksPermitted
  <2>1. AcceptedOK(r) /\ asks[r].checks # {}
    BY <1>2 DEF DomInv, ReqOK, DomTypeOK
  <2>2. CASE DecidedOn(r, NoScope)
    BY <1>1, <2>1, <2>2, TrainingConfines DEF DecidedOn, ActiveOf
  <2>3. CASE ~DecidedOn(r, NoScope)
    BY <1>1, <2>1, <2>3 DEF AcceptedOK, DecidedOn, ProvedInRequest
  <2>4. QED
    BY <2>2, <2>3
<1>4. QED
  BY <1>3, DomInvariant, PTL

-----------------------------------------------------------------------------
\* A status changes by an insertion, a deletion, or a commit that rests on the
\* finding for that very row.
THEOREM Verdicts == DomSpec => VerdictsComeFromLookups
<1> DEFINE Sound(s) == \A v \in {<<"verified", "match">>, <<"revoked", "mismatch">>} :
                         status[s] # v[1] /\ status'[s] = v[1] =>
                           \E r \in Reqs : result[r][s] = v[2] /\ heldToken[r][s] = token[s]
<1>1. ASSUME DomInv, NEW s \in Slots, NEW r \in Reqs,
             stage[r] \in {"check", "gate"}, MustRaise(r) = {}, Answered(r), Flush(r)
      PROVE  Sound(s)
  <2> SUFFICES ASSUME status'[s] # status[s]
               PROVE  Sound(s)
    OBVIOUS
  <2>1. /\ s \in Loaded(r) /\ token[s] = heldToken[r][s]
        /\ status'[s] = StatusAfter(held[r][s], result[r][s])
        /\ status'[s] # held[r][s]
    BY <1>1, Flushed
  <2>2. result[r][s] \in Results /\ result[r][s] # "none"
    BY <1>1, <2>1 DEF Answered, DomInv, DomTypeOK
  <2>3. status'[s] = "verified" => result[r][s] = "match"
    BY <2>1, <2>2 DEF StatusAfter
  <2>4. status'[s] = "revoked" => result[r][s] = "mismatch"
    BY <2>1, <2>2 DEF StatusAfter, Results
  <2>5. QED
    BY <2>1, <2>3, <2>4
<1>2. ASSUME DomInv, NEW s \in Slots, [DomNext]_domVars
      PROVE  Sound(s)
  <2>1. ASSUME NEW r \in Reqs, Serve(r) PROVE Sound(s)
    <3>1. CASE CommitCheck(r) \/ Deny(r) \/ \E d \in Decisions(r) : Accept(r, d)
      <4>1. /\ stage[r] \in {"check", "gate"} /\ MustRaise(r) = {}
            /\ Answered(r) /\ Flush(r)
        BY <3>1 DEF CommitCheck, Deny, Accept, MustRaise
      <4>2. QED
        BY <1>1, <1>2, <4>1
    <3>2. CASE \E t \in Tokens : InsertRecord(r, t)
      BY <1>2, <3>2 DEF InsertRecord, DomInv, DomTypeOK
    <3>3. CASE UNCHANGED status
      BY <3>3
    <3>4. QED
      BY <2>1, <3>1, <3>2, <3>3
      DEF Serve, LookForRecord, BeginCheck, BeginGate, LookUp, InsertDuplicate,
          EndRequest, rowVars
  <2>2. ASSUME NEW q \in Slots, DeleteRecord(q) PROVE Sound(s)
    BY <1>2, <2>2 DEF DeleteRecord, DomInv, DomTypeOK
  <2>3. CASE UNCHANGED status
    BY <2>3
  <2>4. QED
    BY <1>2, <2>1, <2>2, <2>3 DEF DomNext, Publish, Withdraw, domVars, rowVars
<1>3. DomInv /\ [DomNext]_domVars =>
        [\A s \in Slots : Sound(s)]_domVars
  BY <1>2
<1>4. QED
  BY <1>3, DomInvariant, PTL DEF DomSpec, VerdictsComeFromLookups

-----------------------------------------------------------------------------
\* The requests that are about to insert a record for the user.
Inserting(u) == {r \in Reqs : stage[r] = "insert" /\ slot[r].user = u}

\* Whoever is about to insert has seen room for one more record.
CountInv ==
  \A u \in Users :
    Cardinality(RecordsOf(u)) + Cardinality(Inserting(u)) < MaxRecords + Cardinality(Reqs)

LEMMA Counts ==
  \A u : /\ IsFiniteSet(RecordsOf(u)) /\ IsFiniteSet(Inserting(u))
         /\ Cardinality(RecordsOf(u)) \in Nat
         /\ Cardinality(Inserting(u)) \in Nat
         /\ Cardinality(Inserting(u)) <= Cardinality(Reqs)
         /\ Cardinality(Reqs) \in Nat
<1> TAKE u
<1>1. RecordsOf(u) \subseteq Slots /\ Inserting(u) \subseteq Reqs
  BY DEF RecordsOf, Rows, Inserting
<1>2. QED
  BY <1>1, DomainAssumption, FS_Subset, FS_CardinalityType

LEMMA Fewer ==
  ASSUME CountInv, NEW u \in Users,
         RecordsOf(u)' \subseteq RecordsOf(u), Inserting(u)' \subseteq Inserting(u)
  PROVE  Cardinality(RecordsOf(u)') + Cardinality(Inserting(u)')
           < MaxRecords + Cardinality(Reqs)
<1>1. /\ Cardinality(RecordsOf(u)') <= Cardinality(RecordsOf(u))
      /\ Cardinality(Inserting(u)') <= Cardinality(Inserting(u))
      /\ Cardinality(RecordsOf(u)') \in Nat /\ Cardinality(Inserting(u)') \in Nat
  BY Counts, FS_Subset, FS_CardinalityType
<1>2. QED
  BY <1>1, Counts, DomainAssumption DEF CountInv

LEMMA CountStep == DomInv /\ DomInv' /\ CountInv /\ [DomNext]_domVars => CountInv'
<1> SUFFICES ASSUME DomInv, CountInv, [DomNext]_domVars, NEW u \in Users
             PROVE  (Cardinality(RecordsOf(u)) + Cardinality(Inserting(u))
                      < MaxRecords + Cardinality(Reqs))'
  BY DEF CountInv
<1> USE DEF DomInv
<1>1. ASSUME NEW r \in Reqs, NEW s \in Slots, LookForRecord(r, s)
      PROVE  (Cardinality(RecordsOf(u)) + Cardinality(Inserting(u))
               < MaxRecords + Cardinality(Reqs))'
  <2>1. RecordsOf(u)' = RecordsOf(u)
    BY <1>1 DEF LookForRecord, rowVars, RecordsOf, Rows
  <2>2. CASE s.user = u
    <3>1. Cardinality(RecordsOf(u)) < MaxRecords
      BY <1>1, <2>2 DEF LookForRecord
    <3>2. /\ Cardinality(Inserting(u)') <= Cardinality(Reqs)
          /\ Cardinality(Inserting(u)') \in Nat
      <4>1. Inserting(u)' \subseteq Reqs
        BY DEF Inserting
      <4>2. QED
        BY <4>1, DomainAssumption, FS_Subset, FS_CardinalityType
    <3>3. QED
      BY <2>1, <3>1, <3>2, Counts, DomainAssumption
  <2>3. CASE s.user # u
    <3>1. Inserting(u)' = Inserting(u)
      BY <1>1, <2>3 DEF LookForRecord, Inserting, DomTypeOK
    <3>2. QED
      BY <2>1, <3>1 DEF CountInv
  <2>4. QED
    BY <2>2, <2>3
<1>2. ASSUME NEW r \in Reqs, NEW t \in Tokens, InsertRecord(r, t)
      PROVE  (Cardinality(RecordsOf(u)) + Cardinality(Inserting(u))
               < MaxRecords + Cardinality(Reqs))'
  <2>1. slot[r] \in Slots /\ status[slot[r]] = "none"
    BY <1>2 DEF InsertRecord, DomTypeOK
  <2>2. CASE slot[r].user = u
    <3>1. RecordsOf(u)' = RecordsOf(u) \cup {slot[r]} /\ slot[r] \notin RecordsOf(u)
      BY <1>2, <2>1, <2>2 DEF InsertRecord, RecordsOf, Rows, DomTypeOK
    <3>2. Inserting(u)' = Inserting(u) \ {r} /\ r \in Inserting(u)
      BY <1>2, <2>2, Returned DEF InsertRecord, Inserting
    <3>3. Cardinality(RecordsOf(u)') = Cardinality(RecordsOf(u)) + 1
      BY <3>1, Counts, FS_AddElement
    <3>4. Cardinality(Inserting(u)') = Cardinality(Inserting(u)) - 1
      BY <3>2, Counts, FS_RemoveElement
    <3>5. QED
      BY <3>3, <3>4, Counts, DomainAssumption DEF CountInv
  <2>3. CASE slot[r].user # u
    <3>1. RecordsOf(u)' = RecordsOf(u)
      BY <1>2, <2>1, <2>3 DEF InsertRecord, RecordsOf, Rows, DomTypeOK
    <3>2. Inserting(u)' \subseteq Inserting(u)
      BY <1>2, Returned DEF InsertRecord, Inserting
    <3>3. QED
      BY <3>1, <3>2, Fewer
  <2>4. QED
    BY <2>2, <2>3
<1>3. CASE RecordsOf(u)' \subseteq RecordsOf(u) /\ Inserting(u)' \subseteq Inserting(u)
  BY <1>3, Fewer
<1>4. ASSUME NEW r \in Reqs, Serve(r) PROVE
        \/ \E s \in Slots : LookForRecord(r, s)
        \/ \E t \in Tokens : InsertRecord(r, t)
        \/ RecordsOf(u)' \subseteq RecordsOf(u) /\ Inserting(u)' \subseteq Inserting(u)
  <2>1. CASE CommitCheck(r) \/ Deny(r) \/ \E d \in Decisions(r) : Accept(r, d)
    <3>1. /\ stage[r] \in {"check", "gate"} /\ MustRaise(r) = {} /\ Flush(r)
      BY <2>1 DEF CommitCheck, Deny, Accept, MustRaise
    <3>2. RecordsOf(u)' = RecordsOf(u)
      BY <3>1, Flushed DEF RecordsOf
    <3>3. Inserting(u)' \subseteq Inserting(u)
      BY <2>1, Returned DEF CommitCheck, Deny, Accept, Inserting, DomTypeOK
    <3>4. QED
      BY <3>2, <3>3
  <2>2. CASE InsertDuplicate(r) \/ EndRequest(r)
    BY <2>2, Returned DEF InsertDuplicate, EndRequest, rowVars, RecordsOf, Rows, Inserting
  <2>3. CASE (\E s \in Slots : BeginCheck(r, s)) \/ \E a \in Asks : BeginGate(r, a)
    BY <2>3 DEF BeginCheck, BeginGate, rowVars, RecordsOf, Rows, Inserting, DomTypeOK
  <2>4. CASE \E s \in Slots, found \in Results \ {"none"} : LookUp(r, s, found)
    BY <2>4 DEF LookUp, rowVars, RecordsOf, Rows, Inserting
  <2>5. QED
    BY <1>4, <2>1, <2>2, <2>3, <2>4 DEF Serve
<1>5. ASSUME NEW s \in Slots, DeleteRecord(s)
      PROVE  RecordsOf(u)' \subseteq RecordsOf(u) /\ Inserting(u)' \subseteq Inserting(u)
  BY <1>5 DEF DeleteRecord, reqVars, RecordsOf, Rows, Inserting, DomTypeOK
<1>6. CASE \/ \E s \in Slots : Publish(s)
           \/ \E t \in Tokens : Withdraw(t)
           \/ UNCHANGED domVars
  <2>1. UNCHANGED <<rowVars, reqVars>>
    BY <1>6 DEF Publish, Withdraw, domVars
  <2>2. QED
    BY <2>1, <1>3 DEF rowVars, reqVars, RecordsOf, Rows, Inserting
<1>7. QED
  BY <1>1, <1>2, <1>3, <1>4, <1>5, <1>6 DEF DomNext

\* Racing requests overshoot the limit on a user's records by less than their
\* number.
THEOREM Bounded == DomSpec => []RecordsBounded
<1>1. DomInit => CountInv
  <2> SUFFICES ASSUME DomInit, NEW u \in Users
               PROVE  Cardinality(RecordsOf(u)) + Cardinality(Inserting(u))
                        < MaxRecords + Cardinality(Reqs)
    BY DEF CountInv
  <2>1. RecordsOf(u) = {} /\ Inserting(u) = {}
    BY DEF DomInit, RecordsOf, Rows, Blank, Inserting
  <2>2. QED
    BY <2>1, Counts, FS_EmptySet, DomainAssumption
<1>2. CountInv => RecordsBounded
  BY Counts, DomainAssumption DEF CountInv, RecordsBounded
<1>3. QED
  BY <1>1, <1>2, CountStep, DomInvariant, PTL DEF DomSpec
=============================================================================
