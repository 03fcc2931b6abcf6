------------------------- MODULE DomainAuthorization -------------------------
(***************************************************************************)
(* Who may scan what: the records by which a user proves control of a      *)
(* domain (web/routers/domain_verification.py) and the gate every active   *)
(* scan passes (web/domain_verification.py: run_check, authorize_scan).    *)
(*                                                                         *)
(* A record holds a token, which the owner of the domain publishes in DNS  *)
(* or in a file, and withdraws again.  A check loads the record, waits for *)
(* the network, and writes the record's status from what it had loaded:    *)
(* other checks, a deletion, and the owner may come in between.  The gate  *)
(* checks every verified record that covers the target in this way, and    *)
(* trusts only what it has just seen.                                      *)
(*                                                                         *)
(* A record is identified by its token, drawn anew for every row: a row    *)
(* that is deleted and made again is another row.                          *)
(***************************************************************************)
EXTENDS ScanAuthz, Naturals

CONSTANTS
  Users,
  Slots,       \* the (user, domain, method) combinations, each unique
  Tokens, NoToken,
  Reqs,        \* the requests under way
  NoSlot,
  Asks,        \* the scans that are asked for: user, target, list of checks
  MaxRecords   \* MAX_RECORDS_PER_USER

ASSUME DomainAssumption ==
  /\ Slots \subseteq [user : Users, domain : Names, method : Methods]
  /\ NoSlot \notin Slots
  /\ NoToken \notin Tokens
  /\ Asks \subseteq [user : Users, target : Hosts \cup {NoHost}, checks : SUBSET Checks]
  /\ MaxRecords \in Nat \ {0}
  /\ IsFiniteSet(Slots) /\ IsFiniteSet(Reqs)

VARIABLES
  \* the domain_verifications rows
  status, token,
  \* the owners' DNS and web servers
  published,    \* the tokens to be found where their rows say
  \* the requests
  stage,        \* what each request is doing
  slot,         \* the record it is about to create
  asks,         \* the user, target and checks of a scan
  held,         \* held[r]: the status its session has loaded, of each record
  heldToken,    \* and the tokens of these records
  result,       \* and what their checks have found
  basis,        \* the basis of the scan's authorization
  \* history
  witnessed     \* the loaded tokens published at some time since the loading

rowVars   == <<status, token>>
reqVars   == <<stage, slot, asks, held, heldToken, result, basis>>
domVars   == <<rowVars, published, reqVars, witnessed>>

Statuses == {"none", "pending", "verified", "failed", "revoked"}
Results  == {"none", "match", "mismatch", "transient"}
Stages   == {"idle", "insert", "check", "gate", "accepted"}
NoAsk    == [user |-> "none", target |-> NoHost, checks |-> {}]
Bases    == [kind : {"verified", "training", "passive_only"},
             method : Methods \cup {"none"}, host : Names \cup {NoHost}]
NoBasis  == [kind |-> "passive_only", method |-> "none", host |-> NoHost]

\* The scans asked for, with the checks that an empty list stands for.
Asked == {[a EXCEPT !.checks = Expand(a.checks)] : a \in Asks}

Blank(x) == [s \in Slots |-> x]

DomInit ==
  /\ status = Blank("none")
  /\ token = Blank(NoToken)
  /\ published = {}
  /\ stage = [r \in Reqs |-> "idle"]
  /\ slot = [r \in Reqs |-> NoSlot]
  /\ asks = [r \in Reqs |-> NoAsk]
  /\ held = [r \in Reqs |-> Blank("none")]
  /\ heldToken = [r \in Reqs |-> Blank(NoToken)]
  /\ result = [r \in Reqs |-> Blank("none")]
  /\ basis = [r \in Reqs |-> NoBasis]
  /\ witnessed = [r \in Reqs |-> {}]

-----------------------------------------------------------------------------
Rows == {s \in Slots : status[s] # "none"}
RecordsOf(u) == {s \in Rows : s.user = u}

\* The request is answered, or fails, or its process dies.
Return(r) ==
  /\ stage' = [stage EXCEPT ![r] = "idle"]
  /\ slot' = [slot EXCEPT ![r] = NoSlot]
  /\ asks' = [asks EXCEPT ![r] = NoAsk]
  /\ held' = [held EXCEPT ![r] = Blank("none")]
  /\ heldToken' = [heldToken EXCEPT ![r] = Blank(NoToken)]
  /\ result' = [result EXCEPT ![r] = Blank("none")]
  /\ basis' = [basis EXCEPT ![r] = NoBasis]
  /\ witnessed' = [witnessed EXCEPT ![r] = {}]

\* The request's session loads the records in L.
Load(r, L) ==
  /\ held' = [held EXCEPT ![r] = [s \in Slots |-> IF s \in L THEN status[s] ELSE "none"]]
  /\ heldToken' = [heldToken EXCEPT ![r] = [s \in Slots |-> IF s \in L THEN token[s] ELSE NoToken]]
  /\ witnessed' = [witnessed EXCEPT ![r] = published \cap {token[s] : s \in L}]

Loaded(r) == {s \in Slots : held[r][s] # "none"}

-----------------------------------------------------------------------------

\* POST /api/domains/verify finds no such record, and room for one more.  (A
\* record that it finds is answered as it is.)
LookForRecord(r, s) ==
  /\ stage[r] = "idle"
  /\ status[s] = "none"
  /\ Cardinality(RecordsOf(s.user)) < MaxRecords
  /\ stage' = [stage EXCEPT ![r] = "insert"]
  /\ slot' = [slot EXCEPT ![r] = s]
  /\ UNCHANGED <<rowVars, published, asks, held, heldToken, result, basis, witnessed>>

\* new_token never repeats itself; a token that is nowhere to be found any
\* more stands for one that was never drawn.
Fresh(t) ==
  /\ t \notin published
  /\ \A s \in Slots : token[s] # t /\ \A r \in Reqs : heldToken[r][s] # t

\* A mutant: the token is not drawn anew.
InsertRecordSameToken(r, t) ==
  /\ stage[r] = "insert"
  /\ status[slot[r]] = "none"
  /\ status' = [status EXCEPT ![slot[r]] = "pending"]
  /\ token' = [token EXCEPT ![slot[r]] = t]
  /\ Return(r)
  /\ UNCHANGED published

\* It inserts the record, under a token of its own.
InsertRecord(r, t) ==
  /\ stage[r] = "insert"
  /\ status[slot[r]] = "none"
  /\ Fresh(t)
  /\ status' = [status EXCEPT ![slot[r]] = "pending"]
  /\ token' = [token EXCEPT ![slot[r]] = t]
  /\ Return(r)
  /\ UNCHANGED published

\* A concurrent request has inserted it: the unique constraint refuses the
\* second row, and the first is answered.
InsertDuplicate(r) ==
  /\ stage[r] = "insert"
  /\ status[slot[r]] # "none"
  /\ Return(r)
  /\ UNCHANGED <<rowVars, published>>

\* DELETE /api/domains/{id}.
DeleteRecord(s) ==
  /\ s \in Rows
  /\ status' = [status EXCEPT ![s] = "none"]
  /\ token' = [token EXCEPT ![s] = NoToken]
  /\ UNCHANGED <<published, reqVars, witnessed>>

-----------------------------------------------------------------------------
\* POST /api/domains/{id}/check loads the record.
BeginCheck(r, s) ==
  /\ stage[r] = "idle"
  /\ s \in Rows
  /\ stage' = [stage EXCEPT ![r] = "check"]
  /\ Load(r, {s})
  /\ UNCHANGED <<rowVars, published, slot, asks, result, basis>>

\* authorize_scan loads the user's verified records that cover the target, if
\* an active check is asked for at all.
BeginGate(r, a) ==
  LET checks == Expand(a.checks)
  IN  /\ stage[r] = "idle"
      /\ stage' = [stage EXCEPT ![r] = "gate"]
      /\ asks' = [asks EXCEPT ![r] = [a EXCEPT !.checks = checks]]
      /\ Load(r, {s \in RecordsOf(a.user) : /\ status[s] = "verified"
                                            /\ checks \cap Active # {}
                                            /\ Covers(s, a.target)})
      /\ UNCHANGED <<rowVars, published, slot, result, basis>>

\* The DNS query, or the fetch of the file, comes back: the token is there, or
\* it is not, or nothing can be said.  (authorize_scan leaves a record whose
\* check raises as it was, like one that nothing can be said of.)
LookUp(r, s, found) ==
  /\ stage[r] \in {"check", "gate"}
  /\ s \in Loaded(r)
  /\ result[r][s] = "none"
  /\ \/ found = "match" /\ heldToken[r][s] \in published
     \/ found = "mismatch" /\ heldToken[r][s] \notin published
     \/ found = "transient"
  /\ result' = [result EXCEPT ![r][s] = found]
  /\ UNCHANGED <<rowVars, published, stage, slot, asks, held, heldToken, basis, witnessed>>

Answered(r) == \A s \in Loaded(r) : result[r][s] # "none"

\* Mutant: a failure that says nothing revokes.
StatusAfterHasty(old, found) ==
  IF found = "match" THEN "verified"
  ELSE IF old = "verified" THEN "revoked"
  ELSE "failed"

\* The status run_check assigns, given the one that was loaded.
StatusAfter(old, found) ==
  IF found = "match" THEN "verified"
  ELSE IF found = "transient" THEN (IF old = "pending" THEN "failed" ELSE old)
  ELSE IF old = "verified" THEN "revoked"
  ELSE "failed"

\* The flush updates the rows of the records it has changed; only a status
\* that differs from the loaded one is written.
Flush(r) ==
  /\ status' = [s \in Slots |->
                  IF s \in Loaded(r) /\ StatusAfter(held[r][s], result[r][s]) # held[r][s]
                  THEN StatusAfter(held[r][s], result[r][s])
                  ELSE status[s]]
  /\ UNCHANGED token

\* A record that has to be updated and is gone makes the flush raise.  After a
\* transient failure there may be nothing to update.
Gone(r) == {s \in Loaded(r) : token[s] # heldToken[r][s]}
MustRaise(r) == {s \in Gone(r) : result[r][s] # "transient" \/ held[r][s] = "pending"}

\* check_verification commits and answers.
CommitCheck(r) ==
  /\ stage[r] = "check"
  /\ Answered(r)
  /\ Gone(r) = {}
  /\ Flush(r)
  /\ Return(r)
  /\ UNCHANGED published

\* Mutant: a verdict of an earlier check is trusted when there is no new one.
ProvedTrusting(r) == {s \in Loaded(r) : result[r][s] \in {"match", "transient"}}

Proved(r) == {s \in Loaded(r) : result[r][s] = "match"}

\* authorize_scan commits what the checks have found, and decides: the first
\* record that proved its domain counts, in whatever order they were read.
Decisions(r) ==
  LET scopes == IF Proved(r) = {} THEN {NoScope}
                ELSE {[domain |-> s.domain, method |-> s.method] : s \in Proved(r)}
  IN  {Decide(asks[r].target, asks[r].checks, scope) : scope \in scopes}

Accept(r, d) ==
  /\ stage[r] = "gate"
  /\ Answered(r)
  /\ MustRaise(r) = {}
  /\ d \in Decisions(r)
  /\ d.denied = {}
  /\ Flush(r)
  /\ stage' = [stage EXCEPT ![r] = "accepted"]
  /\ basis' = [basis EXCEPT ![r] = d.basis]
  /\ held' = [held EXCEPT ![r] = Blank("none")]
  /\ result' = [result EXCEPT ![r] = Blank("none")]
  /\ UNCHANGED <<published, slot, asks, heldToken, witnessed>>

Deny(r) ==
  /\ stage[r] = "gate"
  /\ Answered(r)
  /\ MustRaise(r) = {}
  /\ \E d \in Decisions(r) : d.denied # {}
  /\ Flush(r)
  /\ Return(r)
  /\ UNCHANGED published

\* The request fails at any of its steps, the flush of a missing row included;
\* or the scan it launched is over.
EndRequest(r) ==
  /\ stage[r] # "idle"
  /\ Return(r)
  /\ UNCHANGED <<rowVars, published>>

-----------------------------------------------------------------------------
\* The owner of a domain publishes the token of a record, or withdraws it.
Publish(s) ==
  /\ s \in Rows
  /\ published' = published \cup {token[s]}
  /\ witnessed' = [r \in Reqs |->
                     IF /\ stage[r] \in {"check", "gate"}
                        /\ \E q \in Slots : heldToken[r][q] = token[s]
                     THEN witnessed[r] \cup {token[s]}
                     ELSE witnessed[r]]
  /\ UNCHANGED <<rowVars, reqVars>>

Withdraw(t) ==
  /\ t \in published
  /\ published' = published \ {t}
  /\ UNCHANGED <<rowVars, reqVars, witnessed>>

-----------------------------------------------------------------------------
Serve(r) ==
  \/ \E s \in Slots : LookForRecord(r, s) \/ BeginCheck(r, s)
  \/ \E t \in Tokens : InsertRecord(r, t)
  \/ InsertDuplicate(r)
  \/ \E a \in Asks : BeginGate(r, a)
  \/ \E s \in Slots, found \in Results \ {"none"} : LookUp(r, s, found)
  \/ CommitCheck(r)
  \/ \E d \in Decisions(r) : Accept(r, d)
  \/ Deny(r)
  \/ EndRequest(r)

DomNext ==
  \/ \E r \in Reqs : Serve(r)
  \/ \E s \in Slots : DeleteRecord(s) \/ Publish(s)
  \/ \E t \in Tokens : Withdraw(t)

DomSpec == DomInit /\ [][DomNext]_domVars

-----------------------------------------------------------------------------
DomTypeOK ==
  /\ status \in [Slots -> Statuses]
  /\ token \in [Slots -> Tokens \cup {NoToken}]
  /\ \A s \in Slots : status[s] = "none" <=> token[s] = NoToken
  /\ \A s, q \in Slots : token[s] = token[q] => s = q \/ token[s] = NoToken
  /\ published \subseteq Tokens
  /\ stage \in [Reqs -> Stages]
  /\ slot \in [Reqs -> Slots \cup {NoSlot}]
  /\ asks \in [Reqs -> Asked \cup {NoAsk}]
  /\ \A r \in Reqs : stage[r] = "insert" => slot[r] \in Slots
  /\ \A r \in Reqs : stage[r] \in {"gate", "accepted"} => asks[r] \in Asked
  /\ held \in [Reqs -> [Slots -> Statuses]]
  /\ heldToken \in [Reqs -> [Slots -> Tokens \cup {NoToken}]]
  /\ result \in [Reqs -> [Slots -> Results]]
  /\ basis \in [Reqs -> Bases]
  /\ witnessed \in [Reqs -> SUBSET Tokens]

ActiveOf(r) == asks[r].checks \cap Active

\* The user of the scan had a record that covers the host, and its token was
\* published at some time while the scan was being authorized.
ProvedInRequest(r, host) ==
  \E s \in Slots :
    /\ s.user = asks[r].user
    /\ Covers(s, host)
    /\ heldToken[r][s] \in witnessed[r]

\* Every name an accepted scan's active checks may connect to was proved by
\* its user during the request, or is the training target itself; an address
\* belongs to such a name.  No verdict of an earlier check, no record of
\* another user, and no withdrawn token is enough.
ActiveOnlyWhereProved ==
  \A r \in Reqs : stage[r] = "accepted" /\ ActiveOf(r) # {} =>
    \A h \in Reachable(basis[r], asks[r].target) :
      LET Vouched(n) == ProvedInRequest(r, n) \/ (n = asks[r].target /\ n \in Training)
      IN  \/ h \in Names /\ Vouched(h)
          \/ h \in Addresses /\ \E n \in Names : Vouched(n) /\ h \in Resolve[n]

\* An accepted scan runs known checks only, and on a target that its user has
\* not proved only the active ones its training entry permits.
AcceptedChecksPermitted ==
  \A r \in Reqs : stage[r] = "accepted" =>
    /\ asks[r].checks \subseteq Active \cup Passive
    /\ asks[r].target # NoHost
    /\ \/ ProvedInRequest(r, asks[r].target)
       \/ asks[r].target \in Training /\ ActiveOf(r) \subseteq Permits[asks[r].target]
       \/ ActiveOf(r) = {}

\* Requests that race to create records overshoot the limit by less than
\* their number.
RecordsBounded ==
  \A u \in Users :
    Cardinality(RecordsOf(u)) < MaxRecords + Cardinality(Reqs)

\* A record becomes verified only by a check of that very row that found its
\* token, and is revoked only by one that looked for it and did not find it.
VerdictsComeFromLookups ==
  [][\A s \in Slots : \A v \in {<<"verified", "match">>, <<"revoked", "mismatch">>} :
       status[s] # v[1] /\ status'[s] = v[1] =>
         \E r \in Reqs : result[r][s] = v[2] /\ heldToken[r][s] = token[s]]_domVars

\* web/domain_verification.py, CheckResult: a transient failure never revokes
\* an existing verification.
TransientKeepsVerified ==
  [][\A s \in Slots :
       status[s] = "verified" /\ status'[s] # "verified" /\ token'[s] = token[s] =>
         \E r \in Reqs : result[r][s] = "mismatch"]_domVars
=============================================================================
