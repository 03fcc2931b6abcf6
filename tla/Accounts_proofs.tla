--------------------------- MODULE Accounts_proofs ---------------------------
(***************************************************************************)
(* Theorems about Accounts, for any number of accounts, keys and requests. *)
(***************************************************************************)
EXTENDS Accounts, TLAPS

\* The part of AcctTypeOK that is about the requests.
ReqTypeOK ==
  /\ stage \in [Reqs -> Stages]
  /\ who \in [Reqs -> Users \cup {NoUser}]
  /\ \A r \in Reqs : stage[r] = "idle" <=> who[r] = NoUser
  /\ saw \in [Reqs -> Row]
  /\ cookie \in [Reqs -> SUBSET Token]
  /\ born \in [Reqs -> Nat]
  /\ target \in [Reqs -> Users \cup {NoUser}]
  /\ \A r \in Reqs : stage[r] \in {"update", "delete"} <=> target[r] # NoUser
  /\ found \in [Reqs -> Rights]

\* The rows that requests make and change are rows.
LEMMA RowTypes ==
  /\ NoRow \in Row /\ NoRow.tier = Free /\ NoRow.version = 0
  /\ NoRights \in Rights
  /\ \A role \in Roles : NewRow(role) \in Row /\ NewRow(role).role = role
       /\ NewRow(role).active /\ NewRow(role).tier = Free /\ NewRow(role).version = 0
  /\ \A x \in Row : /\ RightsOf(x) \in Rights
                    /\ VersionOf(x) \in Row /\ VersionOf(x).version = x.version
                    /\ VersionOf(x).tier = Free
  BY AccountAssumption DEF NoRow, NewRow, NoRights, RightsOf, VersionOf, Row, Roles, Rights

\* What a request that goes on has in its variables.
LEMMA Entered ==
  ASSUME AcctTypeOK, NEW r \in Reqs, NEW s \in Stages, NEW u \in Users \cup {NoUser},
         NEW x \in Row, Enter(r, s, u, x)
  PROVE  /\ stage' \in [Reqs -> Stages] /\ stage'[r] = s
         /\ who' \in [Reqs -> Users \cup {NoUser}] /\ who'[r] = u
         /\ saw' \in [Reqs -> Row] /\ saw'[r] = x
         /\ \A q \in Reqs \ {r} : stage'[q] = stage[q] /\ who'[q] = who[q] /\ saw'[q] = saw[q]
  BY DEF Enter, AcctTypeOK

\* What one that is over leaves there.
LEMMA Over ==
  ASSUME AcctTypeOK, NEW r \in Reqs, Leave(r)
  PROVE  /\ ReqTypeOK'
         /\ stage'[r] = "idle" /\ who'[r] = NoUser /\ saw'[r] = NoRow
         /\ cookie'[r] = {} /\ born'[r] = 0
         /\ \A q \in Reqs \ {r} :
              /\ stage'[q] = stage[q] /\ who'[q] = who[q] /\ saw'[q] = saw[q]
              /\ cookie'[q] = cookie[q] /\ born'[q] = born[q]
<1>1. "idle" \in Stages
  BY DEF Stages
<1>2. Enter(r, "idle", NoUser, NoRow)
  BY DEF Leave
<1>3. /\ cookie' \in [Reqs -> SUBSET Token] /\ cookie'[r] = {}
      /\ born' \in [Reqs -> Nat] /\ born'[r] = 0
      /\ target' \in [Reqs -> Users \cup {NoUser}] /\ target'[r] = NoUser
      /\ found' \in [Reqs -> Rights]
      /\ \A q \in Reqs \ {r} : cookie'[q] = cookie[q] /\ born'[q] = born[q] /\ target'[q] = target[q]
  BY RowTypes DEF Leave, AcctTypeOK
<1>4. /\ stage' \in [Reqs -> Stages] /\ stage'[r] = "idle"
      /\ who' \in [Reqs -> Users \cup {NoUser}] /\ who'[r] = NoUser
      /\ saw' \in [Reqs -> Row] /\ saw'[r] = NoRow
      /\ \A q \in Reqs \ {r} : stage'[q] = stage[q] /\ who'[q] = who[q] /\ saw'[q] = saw[q]
  BY <1>1, <1>2, Entered, RowTypes
<1>5. \A q \in Reqs : /\ stage'[q] = "idle" <=> who'[q] = NoUser
                      /\ stage'[q] \in {"update", "delete"} <=> target'[q] # NoUser
  BY <1>3, <1>4 DEF AcctTypeOK
<1>6. ReqTypeOK'
  BY <1>3, <1>4, <1>5 DEF ReqTypeOK
<1>7. QED
  BY <1>3, <1>4, <1>6

\* A cookie that slides is a token of the same account and session.
LEMMA Slid ==
  ASSUME AcctTypeOK, NEW r \in Reqs, Slide(r)
  PROVE  /\ tokens' \in SUBSET Token
         /\ \A t \in tokens' : t \in tokens \/ \E c \in cookie[r] :
              t.user = c.user /\ t.born = c.born /\ t.tv = saw[r].version
<1>1. saw[r].version \in Nat
  BY DEF AcctTypeOK, Row
<1>2. cookie[r] \subseteq Token
  BY DEF AcctTypeOK
<1>3. \A c \in Token : /\ [c EXCEPT !.tv = saw[r].version] \in Token
                       /\ [c EXCEPT !.tv = saw[r].version].user = c.user
                       /\ [c EXCEPT !.tv = saw[r].version].born = c.born
                       /\ [c EXCEPT !.tv = saw[r].version].tv = saw[r].version
  BY <1>1 DEF Token
<1>4. tokens \subseteq Token
  BY DEF AcctTypeOK
<1>5. \A t \in tokens' : t \in tokens \/ \E c \in cookie[r] : t = [c EXCEPT !.tv = saw[r].version]
  BY DEF Slide
<1>6. ASSUME NEW t \in tokens', t \notin tokens
      PROVE  /\ t \in Token
             /\ \E c \in cookie[r] : t.user = c.user /\ t.born = c.born /\ t.tv = saw[r].version
  <2>1. PICK c \in cookie[r] : t = [c EXCEPT !.tv = saw[r].version]
    BY <1>5, <1>6
  <2>2. c \in Token
    BY <1>2, <2>1
  <2>3. QED
    BY <1>3, <2>1, <2>2
<1>7. QED
  BY <1>4, <1>6

-----------------------------------------------------------------------------
\* A row that is inserted.
LEMMA Inserted ==
  ASSUME AcctTypeOK, NEW r \in Reqs, who[r] # NoUser, InsertRow(r, who[r])
  PROVE  /\ who[r] \in Users \ (exists \cup deleted)
         /\ exists' \in SUBSET Users /\ deleted' \in SUBSET Users
         /\ exists' \cap deleted' = {}
         /\ row' \in [Users -> Row]
         /\ redeemedBy' \in [Keys -> Users \cup {NoUser}]
  BY DEF InsertRow, AcctTypeOK

\* Rows with a column that is changed.
LEMMA ColumnTypes ==
  ASSUME NEW x \in Row
  PROVE  /\ \A n \in Nat : [x EXCEPT !.version = n] \in Row
         /\ \A t \in Tiers : [x EXCEPT !.tier = t] \in Row
         /\ \A a \in Roles, b \in BOOLEAN : [x EXCEPT !.role = a, !.active = b] \in Row
         /\ x.version \in Nat /\ x.tier \in Tiers /\ x.role \in Roles /\ x.active \in BOOLEAN
  BY DEF Row

LEMMA TypeOfStep == AcctTypeOK /\ [AcctNext]_acctVars => AcctTypeOK'
<1> SUFFICES ASSUME AcctTypeOK, [AcctNext]_acctVars PROVE AcctTypeOK'
  OBVIOUS
<1>1. ASSUME NEW r \in Reqs, NEW s \in {"register", "seed", "issue", "session", "logout"},
             NEW u \in Users, NEW x \in Row, stage[r] \notin {"update", "delete"},
             Enter(r, s, u, x),
             cookie' \in [Reqs -> SUBSET Token], born' \in [Reqs -> Nat],
             UNCHANGED <<target, found>>
      PROVE  ReqTypeOK'
  <2>1. s \in Stages /\ s \notin {"idle", "update", "delete"} /\ u # NoUser
    BY AccountAssumption DEF Stages
  <2>2. /\ stage' \in [Reqs -> Stages] /\ stage'[r] = s
        /\ who' \in [Reqs -> Users \cup {NoUser}] /\ who'[r] = u
        /\ saw' \in [Reqs -> Row]
        /\ \A q \in Reqs \ {r} : stage'[q] = stage[q] /\ who'[q] = who[q]
    BY <1>1, <2>1, Entered
  <2>3. QED
    BY <1>1, <2>1, <2>2 DEF ReqTypeOK, AcctTypeOK
<1>2. ASSUME NEW r \in Reqs, NEW u \in Users, BeginRegister(r, u) PROVE AcctTypeOK'
  <2>1. FirstRole \in Roles
    BY DEF FirstRole, Roles
  <2>2. ReqTypeOK'
    BY <1>1, <1>2, <2>1, RowTypes DEF BeginRegister, AcctTypeOK
  <2>3. QED
    BY <1>2, <2>2 DEF BeginRegister, ReqTypeOK, AcctTypeOK, tableVars, history
<1>3. ASSUME NEW r \in Reqs, NEW u \in Users, BeginSeed(r, u) PROVE AcctTypeOK'
  <2>1. "admin" \in Roles
    BY DEF Roles
  <2>2. ReqTypeOK'
    BY <1>1, <1>3, <2>1, RowTypes DEF BeginSeed, AcctTypeOK
  <2>3. QED
    BY <1>3, <2>2 DEF BeginSeed, ReqTypeOK, AcctTypeOK, tableVars, history
<1>4. ASSUME NEW r \in Reqs, CommitRegister(r) PROVE AcctTypeOK'
  <2>1. who[r] \in Users /\ who[r] # NoUser /\ VersionOf(saw[r]) \in Row
    BY <1>4, RowTypes, AccountAssumption DEF CommitRegister, AcctTypeOK
  <2>2. /\ stage[r] \notin {"update", "delete"}
        /\ Enter(r, "issue", who[r], VersionOf(saw[r]))
        /\ cookie' \in [Reqs -> SUBSET Token] /\ born' \in [Reqs -> Nat]
        /\ UNCHANGED <<target, found>>
    BY <1>4 DEF CommitRegister, AcctTypeOK
  <2>3. ReqTypeOK'
    BY <1>1, <2>1, <2>2
  <2>4. QED
    BY <1>4, <2>1, <2>3, Inserted DEF CommitRegister, ReqTypeOK, AcctTypeOK, history
<1>5. ASSUME NEW r \in Reqs, CommitSeed(r) PROVE AcctTypeOK'
  <2>1. who[r] # NoUser
    BY <1>5 DEF CommitSeed, AcctTypeOK
  <2>2. QED
    BY <1>5, <2>1, Over, Inserted DEF CommitSeed, ReqTypeOK, AcctTypeOK, history
<1>6. ASSUME NEW r \in Reqs, NEW u \in Users, BeginLogin(r, u) PROVE AcctTypeOK'
  <2>1. VersionOf(row[u]) \in Row
    BY RowTypes DEF AcctTypeOK
  <2>2. ReqTypeOK'
    BY <1>1, <1>6, <2>1 DEF BeginLogin, AcctTypeOK
  <2>3. QED
    BY <1>6, <2>2 DEF BeginLogin, ReqTypeOK, AcctTypeOK, tableVars, history
<1>7. ASSUME NEW r \in Reqs, IssueToken(r) PROVE AcctTypeOK'
  <2>1. who[r] \in Users /\ saw[r].version \in Nat /\ born[r] \in Nat
    BY <1>7, ColumnTypes DEF IssueToken, AcctTypeOK
  <2>2. tokens' \in SUBSET Token
    BY <1>7, <2>1 DEF IssueToken, AcctTypeOK, Token
  <2>3. QED
    BY <1>7, <2>2, Over DEF IssueToken, ReqTypeOK, AcctTypeOK, tableVars, history
<1>8. ASSUME NEW r \in Reqs, NEW t \in tokens, Authenticate(r, t) PROVE AcctTypeOK'
  <2>1. t.user \in Users /\ row[t.user] \in Row /\ t \in Token
    BY DEF AcctTypeOK, Token
  <2>2. cookie' \in [Reqs -> SUBSET Token]
    BY <1>8, <2>1 DEF Authenticate, AcctTypeOK
  <2>3. ReqTypeOK'
    BY <1>1, <1>8, <2>1, <2>2 DEF Authenticate, AcctTypeOK
  <2>4. QED
    BY <1>8, <2>3 DEF Authenticate, ReqTypeOK, AcctTypeOK, tableVars, history
<1>9. ASSUME NEW r \in Reqs, NEW u \in Users, AuthenticateByKey(r, u) PROVE AcctTypeOK'
  <2>1. ReqTypeOK'
    BY <1>1, <1>9 DEF AuthenticateByKey, AcctTypeOK
  <2>2. QED
    BY <1>9, <2>1 DEF AuthenticateByKey, ReqTypeOK, AcctTypeOK, tableVars, history
<1>10. ASSUME NEW r \in Reqs, Answer(r) PROVE AcctTypeOK'
  BY <1>10, Over, Slid DEF Answer, ReqTypeOK, AcctTypeOK, tableVars, history
<1>11. ASSUME NEW r \in Reqs, NEW t \in tokens, BeginLogout(r, t) PROVE AcctTypeOK'
  <2>1. t.user \in Users /\ VersionOf(row[t.user]) \in Row
    BY RowTypes DEF AcctTypeOK, Token
  <2>2. ReqTypeOK'
    BY <1>1, <1>11, <2>1 DEF BeginLogout, AcctTypeOK
  <2>3. overlapped' \in SUBSET Users
    BY <1>11, <2>1 DEF BeginLogout, AcctTypeOK
  <2>4. QED
    BY <1>11, <2>2, <2>3 DEF BeginLogout, ReqTypeOK, AcctTypeOK, tableVars
<1>12. ASSUME NEW r \in Reqs, CommitLogout(r) PROVE AcctTypeOK'
  <2>1. who[r] \in Users /\ saw[r].version + 1 \in Nat
    <3>1. who[r] \in Users /\ saw[r] \in Row
      BY <1>12 DEF CommitLogout, AcctTypeOK
    <3>2. saw[r].version \in Nat
      BY <3>1, ColumnTypes
    <3>3. QED
      BY <3>1, <3>2
  <2>2. row' \in [Users -> Row]
    BY <1>12, <2>1, ColumnTypes DEF CommitLogout, AcctTypeOK
  <2>3. logouts' \in [Users -> Nat]
    BY <1>12, <2>1 DEF CommitLogout, AcctTypeOK
  <2>4. QED
    BY <1>12, <2>2, <2>3, Over DEF CommitLogout, ReqTypeOK, AcctTypeOK
<1>13. ASSUME NEW r \in Reqs, NEW u \in Users, BeginUpdate(r, u) PROVE AcctTypeOK'
  <2>1. /\ VersionOf(saw[r]) \in Row /\ who[r] \in Users \cup {NoUser} /\ who[r] # NoUser
        /\ "update" \in Stages /\ u # NoUser
        /\ RightsOf(IF u = who[r] THEN saw[r] ELSE row[u]) \in Rights
    BY <1>13, RowTypes, AccountAssumption DEF BeginUpdate, AcctTypeOK, Stages
  <2>2. ReqTypeOK'
    BY <1>13, <2>1, Entered DEF BeginUpdate, ReqTypeOK, AcctTypeOK
  <2>3. QED
    BY <1>13, <2>2 DEF BeginUpdate, ReqTypeOK, AcctTypeOK, tableVars, history
<1>14. ASSUME NEW r \in Reqs, NEW role \in Roles, NEW on \in BOOLEAN, CommitUpdate(r, role, on)
       PROVE  AcctTypeOK'
  <2>1. target[r] \in Users
    BY <1>14 DEF CommitUpdate, AcctTypeOK
  <2>2. row[target[r]] \in Row
    BY <2>1 DEF AcctTypeOK
  <2>3. /\ Written(role, found[r].role, row[target[r]].role) \in Roles
        /\ Written(on, found[r].active, row[target[r]].active) \in BOOLEAN
    BY <2>2, ColumnTypes DEF Written
  <2>4. row' \in [Users -> Row] /\ dropped' \in BOOLEAN
    BY <1>14, <2>1, <2>2, <2>3, ColumnTypes DEF CommitUpdate, AcctTypeOK
  <2>5. QED
    BY <1>14, <2>4, Over, Slid DEF CommitUpdate, ReqTypeOK, AcctTypeOK
<1>15. ASSUME NEW r \in Reqs, NEW u \in Users, BeginDelete(r, u) PROVE AcctTypeOK'
  <2>1. /\ VersionOf(saw[r]) \in Row /\ who[r] \in Users \cup {NoUser} /\ who[r] # NoUser
        /\ "delete" \in Stages /\ u # NoUser
    BY <1>15, RowTypes, AccountAssumption DEF BeginDelete, AcctTypeOK, Stages
  <2>2. /\ Enter(r, "delete", who[r], VersionOf(saw[r]))
        /\ target' = [target EXCEPT ![r] = u] /\ UNCHANGED <<cookie, born, found>>
    BY <1>15 DEF BeginDelete
  <2>3. ReqTypeOK'
    BY <2>1, <2>2, Entered DEF ReqTypeOK, AcctTypeOK
  <2>4. QED
    BY <1>15, <2>3 DEF BeginDelete, ReqTypeOK, AcctTypeOK, tableVars, history
<1>16. ASSUME NEW r \in Reqs, CommitDelete(r) PROVE AcctTypeOK'
  <2>1. target[r] \in Users
    BY <1>16 DEF CommitDelete, AcctTypeOK
  <2>2. /\ exists' \in SUBSET Users /\ deleted' \in SUBSET Users
        /\ exists' \cap deleted' = {} /\ row' \in [Users -> Row] /\ dropped' \in BOOLEAN
    BY <1>16, <2>1, RowTypes DEF CommitDelete, AcctTypeOK
  <2>3. QED
    BY <1>16, <2>2, Over, Slid DEF CommitDelete, ReqTypeOK, AcctTypeOK
<1>17. ASSUME NEW r \in Reqs, NEW k \in Keys, Redeem(r, k) PROVE AcctTypeOK'
  <2>1. who[r] \in Users /\ row[who[r]] \in Row
    BY <1>17 DEF Redeem, AcctTypeOK
  <2>2. Written(KeyTier[k], saw[r].tier, row[who[r]].tier) \in Tiers
    BY <2>1, ColumnTypes, AccountAssumption DEF Written
  <2>3. row' \in [Users -> Row] /\ redeemedBy' \in [Keys -> Users \cup {NoUser}]
    BY <1>17, <2>1, <2>2, ColumnTypes DEF Redeem, AcctTypeOK
  <2>4. QED
    BY <1>17, <2>3, Over, Slid DEF Redeem, ReqTypeOK, AcctTypeOK, history
<1>18. ASSUME NEW r \in Reqs, EndRequest(r) PROVE AcctTypeOK'
  BY <1>18, Over DEF EndRequest, ReqTypeOK, AcctTypeOK, tableVars, history
<1>19. ASSUME NEW t \in tokens, Expire(t) PROVE AcctTypeOK'
  BY <1>19 DEF Expire, AcctTypeOK, tableVars, reqVars, history
<1>20. CASE UNCHANGED acctVars
  BY <1>20 DEF acctVars, AcctTypeOK, tableVars, reqVars, history
<1>21. QED
  BY <1>2, <1>3, <1>4, <1>5, <1>6, <1>7, <1>8, <1>9, <1>10, <1>11, <1>12, <1>13, <1>14,
     <1>15, <1>16, <1>17, <1>18, <1>19, <1>20 DEF AcctNext, Handle

LEMMA AcctTypeInit == AcctInit => AcctTypeOK
<1> SUFFICES ASSUME AcctInit PROVE AcctTypeOK
  OBVIOUS
<1>1. /\ stage \in [Reqs -> Stages] /\ \A r \in Reqs : stage[r] = "idle" /\ who[r] = NoUser
      /\ who \in [Reqs -> Users \cup {NoUser}] /\ target \in [Reqs -> Users \cup {NoUser}]
      /\ \A r \in Reqs : target[r] = NoUser
      /\ saw \in [Reqs -> Row] /\ found \in [Reqs -> Rights]
  BY RowTypes DEF AcctInit, Stages
<1>2. /\ cookie \in [Reqs -> SUBSET Token] /\ born \in [Reqs -> Nat]
      /\ logouts \in [Users -> Nat] /\ row \in [Users -> Row]
      /\ redeemedBy \in [Keys -> Users \cup {NoUser}]
  BY RowTypes DEF AcctInit
<1>3. QED
  BY <1>1, <1>2 DEF AcctInit, AcctTypeOK

\* Rows, keys, tokens and requests are well formed, and no deleted account
\* comes back.
THEOREM AcctTypeCorrect == AcctSpec => []AcctTypeOK
<1>1. QED
  BY AcctTypeInit, TypeOfStep, PTL DEF AcctSpec

-----------------------------------------------------------------------------
(***************************************************************************)
(* Keys and tiers.  A request that has read a paid tier belongs to an      *)
(* account that has redeemed a key, and will keep it.                      *)
(***************************************************************************)
Owns(u) == \E k \in Keys : redeemedBy[k] = u

TierOf(u) ==
  /\ ~Owns(u) => row[u].tier = Free
  /\ Owns(u) => \E k \in Keys : redeemedBy[k] = u /\ row[u].tier = KeyTier[k]

RedeemInv ==
  /\ \A k \in Keys : redeemedBy[k] \in exists \cup {NoUser}
  /\ \A u \in Users : TierOf(u)
  /\ \A r \in Reqs : saw[r].tier # Free => who[r] \in Users /\ Owns(who[r])

\* Nothing that leaves keys and tiers alone, and reads no tier but one that is
\* there, disturbs them.
LEMMA RedeemKept ==
  ASSUME AcctTypeOK, RedeemInv, redeemedBy' = redeemedBy,
         exists \subseteq exists', \A u \in Users : row'[u].tier = row[u].tier,
         NEW r \in Reqs,
         saw'[r].tier # Free =>
           \/ who'[r] \in Users /\ saw'[r].tier = row[who'[r]].tier
           \/ who'[r] = who[r] /\ saw'[r].tier = saw[r].tier,
         \A q \in Reqs \ {r} : who'[q] = who[q] /\ saw'[q] = saw[q]
  PROVE  RedeemInv'
<1>1. \A u \in Users \cup {NoUser} : Owns(u)' <=> Owns(u)
  BY DEF Owns
<1>2. \A u \in Users : TierOf(u)'
  BY <1>1 DEF RedeemInv, TierOf
<1>3. saw'[r].tier # Free => who'[r] \in Users /\ Owns(who'[r])
  BY DEF RedeemInv, TierOf
<1>4. \A q \in Reqs : saw'[q].tier # Free => who'[q] \in Users /\ Owns(who'[q])
  BY <1>3 DEF RedeemInv
<1>5. \A q \in Reqs : saw'[q].tier # Free => who'[q] \in Users /\ Owns(who[q])'
  BY <1>4 DEF Owns
<1>6. QED
  BY <1>2, <1>5 DEF RedeemInv

LEMMA RedeemOfStep == AcctTypeOK /\ RedeemInv /\ [AcctNext]_acctVars => RedeemInv'
<1> SUFFICES ASSUME AcctTypeOK, RedeemInv, [AcctNext]_acctVars PROVE RedeemInv'
  OBVIOUS
<1>1. ASSUME NEW r \in Reqs, Leave(r), redeemedBy' = redeemedBy, exists \subseteq exists',
             \A u \in Users : row'[u].tier = row[u].tier
      PROVE  RedeemInv'
  BY <1>1, Over, RowTypes, RedeemKept
<1>2. ASSUME NEW r \in Reqs, NEW s \in Stages, NEW u \in Users, NEW x \in Row,
             Enter(r, s, u, x), x.tier \in {Free, row[u].tier}, UNCHANGED <<redeemedBy, row>>,
             exists \subseteq exists'
      PROVE  RedeemInv'
  <2>1. /\ who'[r] = u /\ saw'[r] = x
        /\ \A q \in Reqs \ {r} : who'[q] = who[q] /\ saw'[q] = saw[q]
    BY <1>2, Entered
  <2>2. \A v \in Users : row'[v].tier = row[v].tier
    BY <1>2
  <2>3. saw'[r].tier # Free => who'[r] \in Users /\ saw'[r].tier = row[who'[r]].tier
    BY <1>2, <2>1
  <2>4. QED
    BY <1>2, <2>1, <2>2, <2>3, RedeemKept
<1>3. ASSUME NEW r \in Reqs, NEW u \in Users, BeginRegister(r, u) PROVE RedeemInv'
  <2>1. FirstRole \in Roles /\ "register" \in Stages
    BY DEF FirstRole, Roles, Stages
  <2>2. QED
    BY <1>2, <1>3, <2>1, RowTypes DEF BeginRegister, tableVars
<1>4. ASSUME NEW r \in Reqs, NEW u \in Users, BeginSeed(r, u) PROVE RedeemInv'
  <2>1. "admin" \in Roles /\ "seed" \in Stages
    BY DEF Roles, Stages
  <2>2. QED
    BY <1>2, <1>4, <2>1, RowTypes DEF BeginSeed, tableVars
<1>5. ASSUME NEW r \in Reqs, who[r] \in Users, InsertRow(r, who[r])
      PROVE  /\ redeemedBy' = redeemedBy /\ exists \subseteq exists'
             /\ \A u \in Users : row'[u].tier = row[u].tier
  <2>1. ~Owns(who[r])
    BY <1>5, AccountAssumption DEF InsertRow, Owns, RedeemInv
  <2>2. saw[r].tier = Free /\ row[who[r]].tier = Free
    BY <1>5, <2>1 DEF RedeemInv, TierOf
  <2>3. QED
    BY <1>5, <2>2 DEF InsertRow, AcctTypeOK
<1>6. ASSUME NEW r \in Reqs, CommitRegister(r) PROVE RedeemInv'
  <2>1. who[r] \in Users /\ VersionOf(saw[r]) \in Row /\ "issue" \in Stages
        /\ VersionOf(saw[r]).tier = Free
    BY <1>6, RowTypes DEF CommitRegister, AcctTypeOK, Stages
  <2>2. Enter(r, "issue", who[r], VersionOf(saw[r])) /\ InsertRow(r, who[r])
    BY <1>6 DEF CommitRegister
  <2>3. QED
    BY <1>5, <2>1, <2>2, Entered, RedeemKept
<1>7. ASSUME NEW r \in Reqs, CommitSeed(r) PROVE RedeemInv'
  <2>1. who[r] \in Users
    BY <1>7 DEF CommitSeed, AcctTypeOK
  <2>2. QED
    BY <1>1, <1>5, <1>7, <2>1 DEF CommitSeed
<1>8. ASSUME NEW r \in Reqs, NEW u \in Users, BeginLogin(r, u) PROVE RedeemInv'
  <2>1. VersionOf(row[u]) \in Row /\ VersionOf(row[u]).tier = Free /\ "issue" \in Stages
    BY RowTypes DEF AcctTypeOK, Stages
  <2>2. QED
    BY <1>2, <1>8, <2>1 DEF BeginLogin, tableVars
<1>9. ASSUME NEW r \in Reqs, NEW t \in tokens, Authenticate(r, t) PROVE RedeemInv'
  <2>1. t.user \in Users /\ row[t.user] \in Row /\ "session" \in Stages
    BY DEF AcctTypeOK, Token, Stages
  <2>2. QED
    BY <1>2, <1>9, <2>1 DEF Authenticate, tableVars
<1>10. ASSUME NEW r \in Reqs, NEW u \in Users, AuthenticateByKey(r, u) PROVE RedeemInv'
  <2>1. row[u] \in Row /\ "session" \in Stages
    BY DEF AcctTypeOK, Stages
  <2>2. QED
    BY <1>2, <1>10, <2>1 DEF AuthenticateByKey, tableVars
<1>11. ASSUME NEW r \in Reqs, NEW t \in tokens, BeginLogout(r, t) PROVE RedeemInv'
  <2>1. /\ t.user \in Users /\ "logout" \in Stages
        /\ VersionOf(row[t.user]) \in Row /\ VersionOf(row[t.user]).tier = Free
    BY RowTypes DEF AcctTypeOK, Token, Stages
  <2>2. QED
    BY <1>2, <1>11, <2>1 DEF BeginLogout, tableVars
<1>12. ASSUME NEW r \in Reqs, CommitLogout(r) PROVE RedeemInv'
  <2>1. \A u \in Users : row[u] \in Row
    BY DEF AcctTypeOK
  <2>2. \A u \in Users : row'[u].tier = row[u].tier
    BY <1>12, <2>1 DEF CommitLogout, AcctTypeOK, Row
  <2>3. QED
    BY <1>1, <1>12, <2>2 DEF CommitLogout
<1>13. ASSUME NEW r \in Reqs, NEW u \in Users, BeginUpdate(r, u) \/ BeginDelete(r, u)
       PROVE  RedeemInv'
  <2>1. /\ who[r] \in Users /\ {"update", "delete"} \subseteq Stages
        /\ VersionOf(saw[r]) \in Row /\ VersionOf(saw[r]).tier = Free
    BY <1>13, RowTypes DEF BeginUpdate, BeginDelete, AcctTypeOK, Stages
  <2>2. /\ \E s \in {"update", "delete"} : Enter(r, s, who[r], VersionOf(saw[r]))
        /\ UNCHANGED <<redeemedBy, row, exists>>
    BY <1>13 DEF BeginUpdate, BeginDelete, tableVars
  <2>3. QED
    BY <1>2, <2>1, <2>2
<1>14. ASSUME NEW r \in Reqs, NEW role \in Roles, NEW on \in BOOLEAN, CommitUpdate(r, role, on)
       PROVE  RedeemInv'
  <2>1. target[r] \in Users /\ \A u \in Users : row[u] \in Row
    BY <1>14 DEF CommitUpdate, AcctTypeOK
  <2>2. row'[target[r]].tier = row[target[r]].tier
    BY <1>14, <2>1 DEF CommitUpdate, AcctTypeOK, Row
  <2>3. \A u \in Users : row'[u].tier = row[u].tier
    BY <1>14, <2>2 DEF CommitUpdate, AcctTypeOK
  <2>4. QED
    BY <1>1, <1>14, <2>3 DEF CommitUpdate
<1>15. ASSUME NEW r \in Reqs, CommitDelete(r) PROVE RedeemInv'
  <2>1. target[r] \in Users /\ ~Owns(target[r])
    BY <1>15 DEF CommitDelete, AcctTypeOK, Owns
  <2>2. row[target[r]].tier = Free
    BY <2>1 DEF RedeemInv, TierOf
  <2>3. \A u \in Users : row'[u].tier = row[u].tier
    BY <1>15, <2>2, RowTypes DEF CommitDelete, AcctTypeOK
  <2>4. \A u \in Users : Owns(u)' <=> Owns(u)
    BY <1>15 DEF CommitDelete, Owns
  <2>5. \A u \in Users : TierOf(u)'
    BY <1>15, <2>3, <2>4 DEF RedeemInv, TierOf, CommitDelete
  <2>6. \A k \in Keys : redeemedBy'[k] \in exists' \cup {NoUser}
    BY <1>15 DEF RedeemInv, CommitDelete
  <2>7. \A q \in Reqs : saw'[q].tier # Free => who'[q] \in Users /\ Owns(who[q])'
    BY <1>15, Over, RowTypes DEF RedeemInv, CommitDelete, Owns
  <2>8. QED
    BY <2>5, <2>6, <2>7 DEF RedeemInv
<1>16. ASSUME NEW r \in Reqs, NEW k \in Keys, Redeem(r, k) PROVE RedeemInv'
  <2>1. PICK w \in Users : w = who[r] /\ w \in exists /\ row[w] \in Row
    BY <1>16 DEF Redeem, AcctTypeOK
  <2>2. /\ redeemedBy'[k] = w /\ redeemedBy[k] = NoUser
        /\ \A j \in Keys \ {k} : redeemedBy'[j] = redeemedBy[j]
    BY <1>16, <2>1 DEF Redeem, AcctTypeOK
  <2>3. row'[w].tier = Written(KeyTier[k], saw[r].tier, row[w].tier)
    BY <1>16, <2>1 DEF Redeem, AcctTypeOK, Row
  <2>4. TierOf(w)'
    <3>1. CASE KeyTier[k] = saw[r].tier
      <4>1. saw[r].tier # Free
        BY <3>1, AccountAssumption
      <4>2. PICK j \in Keys : redeemedBy[j] = w /\ row[w].tier = KeyTier[j]
        BY <2>1, <4>1 DEF RedeemInv, TierOf
      <4>3. j # k /\ redeemedBy'[j] = w
        BY <2>1, <2>2, <4>2, AccountAssumption
      <4>4. row'[w].tier = KeyTier[j]
        BY <2>3, <3>1, <4>2 DEF Written
      <4>5. QED
        BY <4>3, <4>4 DEF TierOf, Owns
    <3>2. CASE KeyTier[k] # saw[r].tier
      BY <2>2, <2>3, <3>2 DEF Written, TierOf, Owns
    <3>3. QED
      BY <3>1, <3>2
  <2>5. ASSUME NEW u \in Users \ {w} PROVE TierOf(u)'
    <3>1. row'[u] = row[u]
      BY <1>16, <2>1 DEF Redeem, AcctTypeOK
    <3>2. \A j \in Keys : redeemedBy'[j] = u <=> redeemedBy[j] = u
      BY <2>2, AccountAssumption
    <3>3. QED
      BY <3>1, <3>2 DEF RedeemInv, TierOf, Owns
  <2>6. \A j \in Keys : redeemedBy'[j] \in exists' \cup {NoUser}
    BY <1>16, <2>1, <2>2 DEF Redeem, RedeemInv
  <2>7. Leave(r)
    BY <1>16 DEF Redeem
  <2>8. ASSUME NEW q \in Reqs, saw'[q].tier # Free PROVE who'[q] \in Users /\ Owns(who[q])'
    <3>1. q # r /\ who'[q] = who[q] /\ saw'[q] = saw[q]
      BY <2>7, <2>8, Over, RowTypes
    <3>2. PICK j \in Keys : redeemedBy[j] = who[q] /\ who[q] \in Users
      BY <2>8, <3>1 DEF RedeemInv, Owns
    <3>3. j # k
      BY <2>2, <3>2, AccountAssumption
    <3>4. QED
      BY <2>2, <3>1, <3>2, <3>3 DEF Owns
  <2>9. QED
    BY <2>4, <2>5, <2>6, <2>8 DEF RedeemInv
<1>17. ASSUME NEW r \in Reqs, IssueToken(r) \/ Answer(r) \/ EndRequest(r) PROVE RedeemInv'
  BY <1>1, <1>17 DEF IssueToken, Answer, EndRequest, tableVars
<1>18. CASE UNCHANGED <<redeemedBy, row, exists, who, saw>>
  BY <1>18 DEF RedeemInv, TierOf, Owns
<1>19. ASSUME NEW t \in tokens, Expire(t) PROVE RedeemInv'
  BY <1>18, <1>19 DEF Expire, tableVars, reqVars
<1>20. CASE UNCHANGED acctVars
  BY <1>18, <1>20 DEF acctVars, tableVars, reqVars
<1>21. QED
  BY <1>3, <1>4, <1>6, <1>7, <1>8, <1>9, <1>10, <1>11, <1>12, <1>13, <1>14, <1>15, <1>16,
     <1>17, <1>19, <1>20 DEF AcctNext, Handle

LEMMA RedeemInit == AcctInit => RedeemInv
  BY RowTypes, AccountAssumption DEF AcctInit, RedeemInv, TierOf, Owns

LEMMA RedeemAlways == AcctSpec => []RedeemInv
<1>1. QED
  BY RedeemInit, RedeemOfStep, AcctTypeCorrect, PTL DEF AcctSpec

\* However redemptions interleave, the tier of an account is that of a key it
\* has redeemed, and free if it has redeemed none.
THEOREM TiersPaid == AcctSpec => []TierPaidFor
<1>1. AcctTypeOK /\ RedeemInv => TierPaidFor
  <2> SUFFICES ASSUME AcctTypeOK, RedeemInv, NEW u \in exists
               PROVE  LET own == {k \in Keys : redeemedBy[k] = u}
                      IN  row[u].tier \in IF own = {} THEN {Free} ELSE {KeyTier[k] : k \in own}
    BY DEF TierPaidFor
  <2>1. TierOf(u)
    BY DEF RedeemInv, AcctTypeOK
  <2>2. QED
    BY <2>1 DEF TierOf, Owns
<1>2. QED
  BY <1>1, RedeemAlways, AcctTypeCorrect, PTL

\* A key is redeemed once, and its account keeps its row.
THEOREM RedeemedOnce == AcctSpec => RedemptionsStand
<1> DEFINE Stand == \A k \in Keys : redeemedBy'[k] # NoUser =>
                      /\ redeemedBy'[k] \in exists'
                      /\ redeemedBy[k] \in {NoUser, redeemedBy'[k]}
<1>1. ASSUME AcctTypeOK, RedeemInv', [AcctNext]_acctVars PROVE Stand
  <2>1. CASE redeemedBy' = redeemedBy
    BY <1>1, <2>1 DEF RedeemInv
  <2>2. ASSUME NEW r \in Reqs, NEW k \in Keys, Redeem(r, k) PROVE Stand
    BY <1>1, <2>2 DEF Redeem, RedeemInv, AcctTypeOK
  <2>3. redeemedBy' = redeemedBy \/ \E r \in Reqs, k \in Keys : Redeem(r, k)
    <3>1. ASSUME NEW r \in Reqs,
                 \/ CommitSeed(r) \/ CommitRegister(r) \/ IssueToken(r) \/ Answer(r)
                 \/ CommitLogout(r) \/ CommitDelete(r) \/ EndRequest(r)
          PROVE  redeemedBy' = redeemedBy
      BY <3>1 DEF CommitSeed, CommitRegister, IssueToken, Answer, CommitLogout, CommitDelete,
         EndRequest, InsertRow, tableVars
    <3>2. ASSUME NEW r \in Reqs, NEW u \in Users,
                 \/ BeginSeed(r, u) \/ BeginRegister(r, u) \/ BeginLogin(r, u)
                 \/ AuthenticateByKey(r, u) \/ BeginUpdate(r, u) \/ BeginDelete(r, u)
          PROVE  redeemedBy' = redeemedBy
      BY <3>2 DEF BeginSeed, BeginRegister, BeginLogin, AuthenticateByKey, BeginUpdate, BeginDelete,
         tableVars
    <3>3. ASSUME NEW r \in Reqs, NEW t \in tokens,
                 Authenticate(r, t) \/ BeginLogout(r, t) \/ Expire(t)
          PROVE  redeemedBy' = redeemedBy
      BY <3>3 DEF Authenticate, BeginLogout, Expire, tableVars
    <3>4. ASSUME NEW r \in Reqs, NEW role \in Roles, NEW on \in BOOLEAN, CommitUpdate(r, role, on)
          PROVE  redeemedBy' = redeemedBy
      BY <3>4 DEF CommitUpdate
    <3>5. CASE UNCHANGED acctVars
      BY <3>5 DEF acctVars, tableVars
    <3>6. CASE \E t \in tokens : Expire(t)
      BY <3>6 DEF Expire, tableVars
    <3>7. QED
      BY <1>1, <3>1, <3>2, <3>3, <3>4, <3>5, <3>6 DEF AcctNext, Handle
  <2>4. QED
    BY <2>1, <2>2, <2>3
<1>2. QED
  BY <1>1, AcctTypeCorrect, RedeemAlways, PTL DEF RedemptionsStand, AcctSpec

-----------------------------------------------------------------------------
(***************************************************************************)
(* The first administrator.  A request that has counted no account, in a   *)
(* table that is still empty and from which nothing was dropped, is about  *)
(* to make an administrator.                                               *)
(***************************************************************************)
FirstInv ==
  /\ FirstIsAdmin
  /\ \A r \in Reqs : stage[r] \in {"register", "seed"} =>
       /\ saw[r].active
       /\ exists = {} /\ ~dropped => saw[r].role = "admin"

\* Requests that are not about to make an account play no part in it.
LEMMA FirstKept ==
  ASSUME FirstInv, NEW r \in Reqs, stage'[r] \notin {"register", "seed"},
         \A q \in Reqs \ {r} : stage'[q] = stage[q] /\ saw'[q] = saw[q],
         exists' = {} /\ ~dropped' => exists = {} /\ ~dropped,
         FirstIsAdmin'
  PROVE  FirstInv'
  BY DEF FirstInv

LEMMA FirstOfStep == AcctTypeOK /\ FirstInv /\ [AcctNext]_acctVars => FirstInv'
<1> SUFFICES ASSUME AcctTypeOK, FirstInv, [AcctNext]_acctVars PROVE FirstInv'
  OBVIOUS
<1>1. ASSUME UNCHANGED <<exists, dropped>>,
             \A u \in Users : row'[u].role = row[u].role /\ row'[u].active = row[u].active
      PROVE  FirstIsAdmin'
  BY <1>1 DEF FirstInv, FirstIsAdmin, IsAdmin
<1>2. ASSUME NEW r \in Reqs, NEW s \in Stages \ {"register", "seed"},
             NEW u \in Users \cup {NoUser}, NEW x \in Row,
             Enter(r, s, u, x), UNCHANGED <<exists, dropped, row>>
      PROVE  FirstInv'
  <2>1. /\ stage'[r] = s
        /\ \A q \in Reqs \ {r} : stage'[q] = stage[q] /\ saw'[q] = saw[q]
    BY <1>2, Entered
  <2>2. FirstIsAdmin'
    BY <1>1, <1>2
  <2>3. QED
    BY <1>2, <2>1, <2>2, FirstKept
<1>3. ASSUME NEW r \in Reqs, NEW u \in Users, NEW s \in {"register", "seed"}, NEW role \in Roles,
             Enter(r, s, u, NewRow(role)), exists = {} => role = "admin",
             UNCHANGED <<exists, dropped, row>>
      PROVE  FirstInv'
  <2>1. NewRow(role) \in Row /\ NewRow(role).role = role /\ NewRow(role).active /\ s \in Stages
    BY RowTypes DEF Stages
  <2>2. /\ saw'[r] = NewRow(role)
        /\ \A q \in Reqs \ {r} : stage'[q] = stage[q] /\ saw'[q] = saw[q]
    BY <1>3, <2>1, Entered
  <2>3. FirstIsAdmin'
    BY <1>1, <1>3
  <2>4. QED
    BY <1>3, <2>1, <2>2, <2>3 DEF FirstInv
<1>4. ASSUME NEW r \in Reqs, NEW u \in Users, BeginRegister(r, u) \/ BeginSeed(r, u)
      PROVE  FirstInv'
  <2>1. FirstRole \in Roles /\ "admin" \in Roles /\ (exists = {} => FirstRole = "admin")
    BY DEF FirstRole, Roles
  <2>2. QED
    BY <1>3, <1>4, <2>1 DEF BeginRegister, BeginSeed, tableVars, history
<1>5. ASSUME NEW r \in Reqs, stage[r] \in {"register", "seed"}, who[r] \in Users,
             InsertRow(r, who[r]), dropped' = dropped
      PROVE  FirstIsAdmin' /\ exists' # {}
  <2>1. PICK u \in Users : u = who[r]
    BY <1>5
  <2>2. /\ exists' = exists \cup {u} /\ u \notin exists /\ row'[u] = saw[r]
        /\ \A v \in exists : row'[v] = row[v]
    BY <1>5, <2>1 DEF InsertRow, AcctTypeOK
  <2>3. CASE exists = {}
    BY <1>5, <2>2, <2>3 DEF FirstInv, FirstIsAdmin, IsAdmin
  <2>4. CASE exists # {}
    BY <1>5, <2>2, <2>4 DEF FirstInv, FirstIsAdmin, IsAdmin
  <2>5. QED
    BY <2>2, <2>3, <2>4
<1>6. ASSUME NEW r \in Reqs, CommitRegister(r) PROVE FirstInv'
  <2>1. /\ who[r] \in Users /\ VersionOf(saw[r]) \in Row /\ "issue" \in Stages
        /\ Enter(r, "issue", who[r], VersionOf(saw[r])) /\ InsertRow(r, who[r])
        /\ stage[r] = "register" /\ dropped' = dropped
    BY <1>6, RowTypes DEF CommitRegister, AcctTypeOK, Stages, history
  <2>2. /\ stage'[r] = "issue"
        /\ \A q \in Reqs \ {r} : stage'[q] = stage[q] /\ saw'[q] = saw[q]
    BY <2>1, Entered
  <2>3. QED
    BY <1>5, <2>1, <2>2, FirstKept
<1>7. ASSUME NEW r \in Reqs, CommitSeed(r) PROVE FirstInv'
  <2>1. who[r] \in Users /\ stage[r] = "seed" /\ InsertRow(r, who[r]) /\ dropped' = dropped
    BY <1>7 DEF CommitSeed, AcctTypeOK, history
  <2>2. /\ stage'[r] = "idle"
        /\ \A q \in Reqs \ {r} : stage'[q] = stage[q] /\ saw'[q] = saw[q]
    BY <1>7, Over DEF CommitSeed
  <2>3. QED
    BY <1>5, <2>1, <2>2, FirstKept
<1>8. ASSUME NEW r \in Reqs, NEW u \in Users, BeginLogin(r, u) \/ AuthenticateByKey(r, u)
      PROVE  FirstInv'
  <2>1. /\ row[u] \in Row /\ VersionOf(row[u]) \in Row
        /\ {"issue", "session"} \subseteq Stages \ {"register", "seed"}
    BY RowTypes DEF AcctTypeOK, Stages
  <2>2. QED
    BY <1>2, <1>8, <2>1 DEF BeginLogin, AuthenticateByKey, tableVars, history
<1>9. ASSUME NEW r \in Reqs, NEW t \in tokens, Authenticate(r, t) \/ BeginLogout(r, t)
      PROVE  FirstInv'
  <2>1. /\ t.user \in Users /\ row[t.user] \in Row /\ VersionOf(row[t.user]) \in Row
        /\ {"session", "logout"} \subseteq Stages \ {"register", "seed"}
    BY RowTypes DEF AcctTypeOK, Token, Stages
  <2>2. QED
    BY <1>2, <1>9, <2>1 DEF Authenticate, BeginLogout, tableVars, history
<1>10. ASSUME NEW r \in Reqs, NEW u \in Users, BeginUpdate(r, u) \/ BeginDelete(r, u)
       PROVE  FirstInv'
  <2>1. /\ who[r] \in Users \cup {NoUser} /\ VersionOf(saw[r]) \in Row
        /\ {"update", "delete"} \subseteq Stages \ {"register", "seed"}
    BY RowTypes DEF AcctTypeOK, Stages
  <2>2. /\ \E s \in {"update", "delete"} : Enter(r, s, who[r], VersionOf(saw[r]))
        /\ UNCHANGED <<exists, dropped, row>>
    BY <1>10 DEF BeginUpdate, BeginDelete, tableVars, history
  <2>3. QED
    BY <1>2, <2>1, <2>2
<1>11. ASSUME NEW r \in Reqs, Leave(r), exists' = {} /\ ~dropped' => exists = {} /\ ~dropped,
              FirstIsAdmin'
       PROVE  FirstInv'
  <2>1. /\ stage'[r] = "idle"
        /\ \A q \in Reqs \ {r} : stage'[q] = stage[q] /\ saw'[q] = saw[q]
    BY <1>11, Over
  <2>2. QED
    BY <1>11, <2>1, FirstKept
<1>12. ASSUME NEW r \in Reqs, CommitLogout(r) \/ \E k \in Keys : Redeem(r, k) PROVE FirstInv'
  <2>1. Leave(r) /\ exists' = exists /\ dropped' = dropped
    BY <1>12 DEF CommitLogout, Redeem, history
  <2>2. \A u \in Users : row[u] \in Row
    BY DEF AcctTypeOK
  <2>3. \A u \in Users : row'[u].role = row[u].role /\ row'[u].active = row[u].active
    BY <1>12, <2>2 DEF CommitLogout, Redeem, AcctTypeOK, Row
  <2>4. QED
    BY <1>1, <1>11, <2>1, <2>3
<1>13. ASSUME NEW r \in Reqs, NEW role \in Roles, NEW on \in BOOLEAN, CommitUpdate(r, role, on)
       PROVE  FirstInv'
  <2>1. Leave(r) /\ exists' = exists /\ (dropped => dropped')
    BY <1>13 DEF CommitUpdate
  <2>2. PICK u \in Users : u = target[r] /\ row[u] \in Row
    BY <1>13 DEF CommitUpdate, AcctTypeOK
  <2>3. \A v \in Users \ {u} : row'[v] = row[v]
    BY <1>13, <2>2 DEF CommitUpdate, AcctTypeOK
  <2>4. IsAdmin(u) /\ ~dropped' => row'[u].role = "admin" /\ row'[u].active
    BY <1>13, <2>2 DEF CommitUpdate, AcctTypeOK
  <2>5. FirstIsAdmin'
    BY <2>1, <2>2, <2>3, <2>4 DEF FirstInv, FirstIsAdmin, IsAdmin
  <2>6. QED
    BY <1>11, <2>1, <2>5
<1>14. ASSUME NEW r \in Reqs, CommitDelete(r) PROVE FirstInv'
  <2>1. PICK u \in Users : u = target[r]
    BY <1>14 DEF CommitDelete, AcctTypeOK
  <2>2. /\ Leave(r) /\ exists' = exists \ {u}
        /\ dropped' = (dropped \/ IsAdmin(u))
        /\ \A v \in Users \ {u} : row'[v] = row[v]
    BY <1>14, <2>1 DEF CommitDelete, AcctTypeOK
  <2>3. ASSUME ~dropped', exists # {} PROVE \E v \in Users : v \in exists' /\ IsAdmin(v)'
    <3>1. PICK v \in Users : IsAdmin(v)
      BY <2>2, <2>3 DEF FirstInv, FirstIsAdmin
    <3>2. v # u
      BY <2>2, <2>3, <3>1
    <3>3. QED
      BY <2>2, <3>1, <3>2 DEF IsAdmin
  <2>4. FirstIsAdmin' /\ (exists' = {} /\ ~dropped' => exists = {} /\ ~dropped)
    BY <2>2, <2>3 DEF FirstIsAdmin
  <2>5. QED
    BY <1>11, <2>2, <2>4
<1>15. ASSUME NEW r \in Reqs, IssueToken(r) \/ Answer(r) \/ EndRequest(r) PROVE FirstInv'
  BY <1>1, <1>11, <1>15 DEF IssueToken, Answer, EndRequest, tableVars, history
<1>16. CASE UNCHANGED <<exists, dropped, row, stage, saw>>
  BY <1>1, <1>16 DEF FirstInv
<1>17. ASSUME NEW t \in tokens, Expire(t) PROVE FirstInv'
  BY <1>16, <1>17 DEF Expire, tableVars, reqVars, history
<1>18. CASE UNCHANGED acctVars
  BY <1>16, <1>18 DEF acctVars, tableVars, reqVars, history
<1>19. QED
  BY <1>4, <1>6, <1>7, <1>8, <1>9, <1>10, <1>12, <1>13, <1>14, <1>15, <1>17, <1>18
  DEF AcctNext, Handle

\* However registrations and starting processes race, the first account
\* administers, and somebody does until an administrator is dropped.
THEOREM FirstAdministers == AcctSpec => []FirstIsAdmin
<1>1. AcctInit => FirstInv
  BY DEF AcctInit, FirstInv, FirstIsAdmin
<1>2. FirstInv => FirstIsAdmin
  BY DEF FirstInv
<1>3. QED
  BY <1>1, <1>2, FirstOfStep, AcctTypeCorrect, PTL DEF AcctSpec

-----------------------------------------------------------------------------
(***************************************************************************)
(* Sessions.  As long as no two logouts of an account overlap, its version *)
(* counts its logouts, and every token carries the count of its login.     *)
(***************************************************************************)
\* The account's version, and the logout that is about to change it.
VersionOK(u) ==
  /\ u \in exists => row[u].version = logouts[u]
  /\ u \notin exists \cup deleted => logouts[u] = 0
  /\ \A p, q \in Reqs : stage[p] = "logout" /\ stage[q] = "logout"
                        /\ who[p] = u /\ who[q] = u => p = q

\* What a request has read, and the token it issues or slides forward.
HoldsOK(r) ==
  /\ stage[r] \in {"register", "seed"} => saw[r].version = 0
  /\ stage[r] # "issue" => born[r] = 0
  /\ stage[r] \notin {"session", "update", "delete"} => cookie[r] = {}
  /\ stage[r] = "logout" => who[r] \in exists \cup deleted
  /\ stage[r] = "logout" /\ who[r] \in exists \ overlapped => saw[r].version = row[who[r]].version
  /\ stage[r] = "issue" /\ who[r] \notin overlapped => saw[r].version = born[r]
  /\ \A c \in cookie[r] : /\ c.tv = saw[r].version
                          /\ c.user \notin overlapped => c.tv = c.born

TokenOK(t) == t.user \notin overlapped => t.tv = t.born

SessionInv ==
  /\ \A u \in Users \ overlapped : VersionOK(u)
  /\ \A r \in Reqs : HoldsOK(r)
  /\ \A t \in tokens : TokenOK(t)

\* A request that the step is not about holds what it held.
LEMMA HoldsKept ==
  ASSUME NEW q \in Reqs, HoldsOK(q), overlapped \subseteq overlapped',
         exists \cup deleted \subseteq exists' \cup deleted',
         stage'[q] = stage[q], who'[q] = who[q], saw'[q] = saw[q],
         cookie'[q] = cookie[q], born'[q] = born[q],
         stage[q] = "logout" /\ who[q] \in exists' \ overlapped' =>
           who[q] \in exists /\ row'[who[q]].version = row[who[q]].version
  PROVE  HoldsOK(q)'
  BY DEF HoldsOK

\* An account that no logout touches keeps its version.
LEMMA VersionKept ==
  ASSUME NEW r \in Reqs, stage'[r] # "logout",
         \A q \in Reqs \ {r} : stage'[q] = stage[q] /\ who'[q] = who[q],
         NEW u \in Users, VersionOK(u), logouts'[u] = logouts[u],
         exists \cup deleted \subseteq exists' \cup deleted',
         u \in exists' => IF u \in exists THEN row'[u].version = row[u].version
                                          ELSE row'[u].version = logouts[u]
  PROVE  VersionOK(u)'
  BY DEF VersionOK

\* A token that slides is as good as the cookie it was.
LEMMA TokenSlides ==
  ASSUME AcctTypeOK, SessionInv, NEW r \in Reqs, Slide(r), overlapped' = overlapped
  PROVE  \A t \in tokens' : TokenOK(t)'
  BY Slid DEF SessionInv, HoldsOK, TokenOK

LEMMA SessionOfStep == AcctTypeOK /\ SessionInv /\ [AcctNext]_acctVars => SessionInv'
<1> SUFFICES ASSUME AcctTypeOK, SessionInv, [AcctNext]_acctVars PROVE SessionInv'
  OBVIOUS
<1>1. ASSUME NEW r \in Reqs, stage'[r] # "logout", HoldsOK(r)',
             \A q \in Reqs \ {r} :
               /\ stage'[q] = stage[q] /\ who'[q] = who[q] /\ saw'[q] = saw[q]
               /\ cookie'[q] = cookie[q] /\ born'[q] = born[q],
             UNCHANGED <<exists, deleted, row, logouts, overlapped>>,
             \A t \in tokens' : TokenOK(t)'
      PROVE  SessionInv'
  <2>1. \A u \in Users \ overlapped : VersionOK(u)'
    BY <1>1, VersionKept DEF SessionInv
  <2>2. \A q \in Reqs \ {r} : HoldsOK(q)'
    BY <1>1, HoldsKept DEF SessionInv
  <2>3. QED
    BY <1>1, <2>1, <2>2 DEF SessionInv
<1>2. ASSUME NEW r \in Reqs, Leave(r) PROVE HoldsOK(r)'
  BY <1>2, Over DEF HoldsOK
<1>3. ASSUME UNCHANGED <<tokens, overlapped>> PROVE \A t \in tokens' : TokenOK(t)'
  BY <1>3 DEF SessionInv, TokenOK
<1>4. ASSUME NEW r \in Reqs, NEW s \in Stages \ {"logout"}, NEW u \in Users \cup {NoUser},
             NEW x \in Row, Enter(r, s, u, x), HoldsOK(r)',
             \A q \in Reqs \ {r} : cookie'[q] = cookie[q] /\ born'[q] = born[q],
             UNCHANGED <<exists, deleted, row, logouts, overlapped, tokens>>
      PROVE  SessionInv'
  <2>1. /\ stage'[r] = s
        /\ \A q \in Reqs \ {r} : stage'[q] = stage[q] /\ who'[q] = who[q] /\ saw'[q] = saw[q]
    BY <1>4, Entered
  <2>2. QED
    BY <1>1, <1>3, <1>4, <2>1
<1>5. ASSUME NEW r \in Reqs, NEW u \in Users, BeginRegister(r, u) \/ BeginSeed(r, u)
      PROVE  SessionInv'
  <2>1. PICK role \in Roles, s \in {"register", "seed"} : Enter(r, s, u, NewRow(role))
    <3>1. FirstRole \in Roles /\ "admin" \in Roles
      BY DEF FirstRole, Roles
    <3>2. QED
      BY <1>5, <3>1 DEF BeginRegister, BeginSeed
  <2>2. NewRow(role) \in Row /\ NewRow(role).version = 0 /\ s \in Stages \ {"logout"}
    BY RowTypes DEF Stages
  <2>3. stage'[r] = s /\ saw'[r] = NewRow(role)
    BY <2>1, <2>2, Entered
  <2>4. stage[r] = "idle" /\ UNCHANGED <<cookie, born>>
    BY <1>5 DEF BeginRegister, BeginSeed
  <2>5. HoldsOK(r)'
    BY <2>2, <2>3, <2>4 DEF SessionInv, HoldsOK
  <2>6. QED
    BY <1>4, <1>5, <2>1, <2>2, <2>4, <2>5 DEF BeginRegister, BeginSeed, tableVars, history
<1>6. ASSUME NEW r \in Reqs, stage[r] \in {"register", "seed"}, who[r] \in Users,
             InsertRow(r, who[r]), UNCHANGED <<logouts, overlapped, tokens>>,
             stage'[r] # "logout", HoldsOK(r)',
             \A q \in Reqs \ {r} :
               /\ stage'[q] = stage[q] /\ who'[q] = who[q] /\ saw'[q] = saw[q]
               /\ cookie'[q] = cookie[q] /\ born'[q] = born[q]
      PROVE  SessionInv'
  <2>1. PICK w \in Users : w = who[r]
    BY <1>6
  <2>2. /\ exists' = exists \cup {w} /\ deleted' = deleted /\ w \notin exists \cup deleted
        /\ row'[w] = saw[r] /\ \A v \in Users \ {w} : row'[v] = row[v]
        /\ saw[r].version = 0
    BY <1>6, <2>1 DEF InsertRow, AcctTypeOK, SessionInv, HoldsOK
  <2>3. ASSUME NEW u \in Users \ overlapped PROVE VersionOK(u)'
    <3>1. VersionOK(u)
      BY DEF SessionInv
    <3>2. u \in exists' => IF u \in exists THEN row'[u].version = row[u].version
                                           ELSE row'[u].version = logouts[u]
      BY <2>2, <3>1 DEF VersionOK
    <3>3. QED
      BY <1>6, <2>2, <3>1, <3>2, VersionKept
  <2>4. ASSUME NEW q \in Reqs \ {r} PROVE HoldsOK(q)'
    <3>1. HoldsOK(q)
      BY DEF SessionInv
    <3>2. stage[q] = "logout" => who[q] # w
      BY <2>2, <3>1 DEF HoldsOK
    <3>3. who[q] \in exists' \ overlapped' /\ stage[q] = "logout" =>
            who[q] \in exists /\ row'[who[q]].version = row[who[q]].version
      BY <2>2, <3>2 DEF AcctTypeOK
    <3>4. QED
      BY <1>6, <2>2, <3>1, <3>3, HoldsKept
  <2>5. QED
    BY <1>3, <1>6, <2>3, <2>4 DEF SessionInv
<1>7. ASSUME NEW r \in Reqs, CommitRegister(r) PROVE SessionInv'
  <2>1. /\ who[r] \in Users /\ stage[r] = "register" /\ InsertRow(r, who[r])
        /\ VersionOf(saw[r]) \in Row /\ VersionOf(saw[r]).version = saw[r].version
        /\ "issue" \in Stages
        /\ Enter(r, "issue", who[r], VersionOf(saw[r]))
        /\ UNCHANGED <<cookie, born, tokens, logouts, overlapped>>
    BY <1>7, RowTypes DEF CommitRegister, AcctTypeOK, Stages, history
  <2>2. /\ stage'[r] = "issue" /\ saw'[r] = VersionOf(saw[r])
        /\ \A q \in Reqs \ {r} : stage'[q] = stage[q] /\ who'[q] = who[q] /\ saw'[q] = saw[q]
    BY <2>1, Entered
  <2>3. saw[r].version = 0 /\ born[r] = 0 /\ cookie[r] = {}
    BY <2>1 DEF SessionInv, HoldsOK
  <2>4. HoldsOK(r)'
    BY <2>1, <2>2, <2>3 DEF HoldsOK
  <2>5. QED
    BY <1>6, <2>1, <2>2, <2>4
<1>8. ASSUME NEW r \in Reqs, CommitSeed(r) PROVE SessionInv'
  <2>1. /\ who[r] \in Users /\ stage[r] = "seed" /\ InsertRow(r, who[r]) /\ Leave(r)
        /\ UNCHANGED <<tokens, logouts, overlapped>>
    BY <1>8 DEF CommitSeed, AcctTypeOK, history
  <2>2. QED
    BY <1>2, <1>6, <2>1, Over
<1>9. ASSUME NEW r \in Reqs, NEW u \in Users, BeginLogin(r, u) PROVE SessionInv'
  <2>1. /\ VersionOf(row[u]) \in Row /\ VersionOf(row[u]).version = row[u].version
        /\ "issue" \in Stages
    BY RowTypes DEF AcctTypeOK, Stages
  <2>2. /\ stage'[r] = "issue" /\ who'[r] = u /\ saw'[r].version = row[u].version
    BY <1>9, <2>1, Entered DEF BeginLogin
  <2>3. /\ born'[r] = logouts[u] /\ u \in exists /\ cookie'[r] = {} /\ overlapped' = overlapped
        /\ \A q \in Reqs \ {r} : born'[q] = born[q]
    BY <1>9 DEF BeginLogin, AcctTypeOK, SessionInv, HoldsOK, history
  <2>4. u \notin overlapped => row[u].version = logouts[u]
    BY <2>3 DEF SessionInv, VersionOK
  <2>5. HoldsOK(r)'
    BY <2>2, <2>3, <2>4 DEF HoldsOK
  <2>6. QED
    BY <1>4, <1>9, <2>1, <2>3, <2>5 DEF BeginLogin, tableVars, history
<1>10. ASSUME NEW r \in Reqs, IssueToken(r) PROVE SessionInv'
  <2>1. ASSUME NEW t \in tokens' PROVE TokenOK(t)'
    <3>1. CASE t \in tokens
      BY <1>10, <3>1 DEF IssueToken, SessionInv, TokenOK, history
    <3>2. CASE t = [user |-> who[r], tv |-> saw[r].version, born |-> born[r]]
      BY <1>10, <3>2 DEF IssueToken, SessionInv, HoldsOK, TokenOK, history
    <3>3. QED
      BY <1>10, <3>1, <3>2 DEF IssueToken
  <2>2. Leave(r) /\ UNCHANGED <<exists, deleted, row, logouts, overlapped>>
    BY <1>10 DEF IssueToken, tableVars, history
  <2>3. QED
    BY <1>1, <1>2, <2>1, <2>2, Over
<1>11. ASSUME NEW r \in Reqs, NEW t \in tokens, Authenticate(r, t) PROVE SessionInv'
  <2>1. t.user \in Users /\ row[t.user] \in Row /\ "session" \in Stages
    BY DEF AcctTypeOK, Token, Stages
  <2>2. stage'[r] = "session" /\ saw'[r] = row[t.user]
    BY <1>11, <2>1, Entered DEF Authenticate
  <2>3. /\ born'[r] = 0 /\ cookie'[r] \subseteq {t}
        /\ \A q \in Reqs \ {r} : cookie'[q] = cookie[q] /\ born'[q] = born[q]
    BY <1>11 DEF Authenticate, AcctTypeOK, SessionInv, HoldsOK
  <2>4. t.tv = row[t.user].version /\ (t.user \notin overlapped => t.tv = t.born)
    BY <1>11 DEF Authenticate, Accepted, SessionInv, TokenOK
  <2>5. HoldsOK(r)'
    BY <1>11, <2>2, <2>3, <2>4 DEF HoldsOK, Authenticate, history
  <2>6. QED
    BY <1>4, <1>11, <2>1, <2>3, <2>5 DEF Authenticate, tableVars, history
<1>12. ASSUME NEW r \in Reqs, NEW u \in Users, AuthenticateByKey(r, u) PROVE SessionInv'
  <2>1. row[u] \in Row /\ "session" \in Stages
    BY DEF AcctTypeOK, Stages
  <2>2. stage'[r] = "session"
    BY <1>12, <2>1, Entered DEF AuthenticateByKey
  <2>3. born'[r] = 0 /\ cookie'[r] = {} /\ UNCHANGED <<cookie, born>>
    BY <1>12 DEF AuthenticateByKey, SessionInv, HoldsOK
  <2>4. HoldsOK(r)'
    BY <2>2, <2>3 DEF HoldsOK
  <2>5. QED
    BY <1>4, <1>12, <2>1, <2>3, <2>4 DEF AuthenticateByKey, tableVars, history
<1>13. ASSUME NEW r \in Reqs, NEW u \in Users, BeginUpdate(r, u) \/ BeginDelete(r, u)
       PROVE  SessionInv'
  <2>1. /\ who[r] \in Users \cup {NoUser} /\ VersionOf(saw[r]) \in Row
        /\ VersionOf(saw[r]).version = saw[r].version
        /\ {"update", "delete"} \subseteq Stages \ {"logout"}
    BY RowTypes DEF AcctTypeOK, Stages
  <2>2. PICK s \in {"update", "delete"} : Enter(r, s, who[r], VersionOf(saw[r]))
    BY <1>13 DEF BeginUpdate, BeginDelete
  <2>3. /\ stage[r] = "session" /\ UNCHANGED <<cookie, born, tokens>>
        /\ UNCHANGED <<exists, deleted, row, logouts, overlapped>>
    BY <1>13 DEF BeginUpdate, BeginDelete, tableVars, history
  <2>4. stage'[r] = s /\ saw'[r].version = saw[r].version
    BY <2>1, <2>2, Entered
  <2>5. HoldsOK(r)'
    BY <2>3, <2>4 DEF SessionInv, HoldsOK
  <2>6. QED
    BY <1>4, <2>1, <2>2, <2>3, <2>5
<1>14. ASSUME NEW r \in Reqs, NEW t \in tokens, BeginLogout(r, t) PROVE SessionInv'
  <2>1. PICK w \in Users : w = t.user
    BY DEF AcctTypeOK, Token
  <2>2. VersionOf(row[w]) \in Row /\ VersionOf(row[w]).version = row[w].version
        /\ "logout" \in Stages
    BY RowTypes DEF AcctTypeOK, Stages
  <2>3. /\ stage[r] = "idle" /\ w \in exists /\ Enter(r, "logout", w, VersionOf(row[w]))
        /\ UNCHANGED <<exists, deleted, row, cookie, born, tokens, logouts>>
        /\ overlapped \subseteq overlapped' /\ overlapped' \subseteq Users
        /\ (\E q \in Reqs : stage[q] = "logout" /\ who[q] = w) => w \in overlapped'
    BY <1>14, <2>1 DEF BeginLogout, tableVars, AcctTypeOK
  <2>4. /\ stage'[r] = "logout" /\ who'[r] = w /\ saw'[r].version = row[w].version
        /\ \A q \in Reqs \ {r} : stage'[q] = stage[q] /\ who'[q] = who[q] /\ saw'[q] = saw[q]
    BY <2>2, <2>3, Entered
  <2>5. ASSUME NEW u \in Users \ overlapped' PROVE VersionOK(u)'
    <3>1. VersionOK(u)
      BY <2>3 DEF SessionInv
    <3>2. u = w => \A q \in Reqs : ~(stage[q] = "logout" /\ who[q] = u)
      BY <2>3
    <3>3. QED
      BY <2>3, <2>4, <3>1, <3>2 DEF VersionOK
  <2>6. HoldsOK(r)'
    BY <2>3, <2>4 DEF SessionInv, HoldsOK
  <2>7. \A q \in Reqs \ {r} : HoldsOK(q)'
    BY <2>3, <2>4, HoldsKept DEF SessionInv
  <2>8. \A x \in tokens' : TokenOK(x)'
    BY <2>3 DEF SessionInv, TokenOK
  <2>9. QED
    BY <2>5, <2>6, <2>7, <2>8 DEF SessionInv
<1>15. ASSUME NEW r \in Reqs, CommitLogout(r) PROVE SessionInv'
  <2>1. PICK w \in Users : w = who[r]
    BY <1>15 DEF CommitLogout, AcctTypeOK
  <2>2. row[w] \in Row /\ saw[r].version \in Nat
    BY ColumnTypes DEF AcctTypeOK
  <2>3. /\ stage[r] = "logout" /\ w \in exists /\ Leave(r)
        /\ row'[w].version = saw[r].version + 1 /\ logouts'[w] = logouts[w] + 1
        /\ \A v \in Users \ {w} : row'[v] = row[v] /\ logouts'[v] = logouts[v]
        /\ UNCHANGED <<exists, deleted, tokens, overlapped>>
    BY <1>15, <2>1, <2>2 DEF CommitLogout, AcctTypeOK, Row
  <2>4. /\ stage'[r] = "idle"
        /\ \A q \in Reqs \ {r} :
             /\ stage'[q] = stage[q] /\ who'[q] = who[q] /\ saw'[q] = saw[q]
             /\ cookie'[q] = cookie[q] /\ born'[q] = born[q]
    BY <2>3, Over
  <2>5. ASSUME NEW u \in Users \ overlapped PROVE VersionOK(u)'
    <3>1. VersionOK(u)
      BY DEF SessionInv
    <3>2. CASE u = w
      <4>1. saw[r].version = row[w].version /\ row[w].version = logouts[w]
        BY <2>1, <2>3, <3>1, <3>2 DEF SessionInv, HoldsOK, VersionOK
      <4>2. row'[w].version = logouts'[w]
        BY <2>3, <4>1
      <4>3. QED
        BY <2>3, <2>4, <3>1, <3>2, <4>2 DEF VersionOK
    <3>3. CASE u # w
      BY <2>3, <2>4, <3>1, <3>3, VersionKept
    <3>4. QED
      BY <3>2, <3>3
  <2>6. ASSUME NEW q \in Reqs \ {r} PROVE HoldsOK(q)'
    <3>1. HoldsOK(q)
      BY DEF SessionInv
    <3>2. stage[q] = "logout" /\ who[q] = w => w \in overlapped
      BY <2>1, <2>3 DEF SessionInv, VersionOK
    <3>3. stage[q] = "logout" /\ who[q] \in exists' \ overlapped' =>
            who[q] \in exists /\ row'[who[q]].version = row[who[q]].version
      BY <2>3, <3>2 DEF AcctTypeOK
    <3>4. QED
      BY <2>3, <2>4, <3>1, <3>3, HoldsKept
  <2>7. QED
    BY <1>2, <1>3, <2>3, <2>5, <2>6 DEF SessionInv
<1>16. ASSUME NEW r \in Reqs, Leave(r), Slide(r), UNCHANGED <<logouts, overlapped>>,
              exists' \subseteq exists, exists \cup deleted \subseteq exists' \cup deleted',
              \A u \in exists' : row'[u].version = row[u].version
       PROVE  SessionInv'
  <2>1. /\ stage'[r] = "idle"
        /\ \A q \in Reqs \ {r} :
             /\ stage'[q] = stage[q] /\ who'[q] = who[q] /\ saw'[q] = saw[q]
             /\ cookie'[q] = cookie[q] /\ born'[q] = born[q]
    BY <1>16, Over
  <2>2. \A u \in Users \ overlapped : VersionOK(u)'
    BY <1>16, <2>1, VersionKept DEF SessionInv
  <2>3. \A q \in Reqs \ {r} : HoldsOK(q)'
    BY <1>16, <2>1, HoldsKept DEF SessionInv
  <2>4. QED
    BY <1>2, <1>16, <2>2, <2>3, TokenSlides DEF SessionInv
<1>17. ASSUME NEW r \in Reqs, Answer(r) PROVE SessionInv'
  BY <1>16, <1>17 DEF Answer, tableVars, history
<1>18. ASSUME NEW r \in Reqs, NEW role \in Roles, NEW on \in BOOLEAN, CommitUpdate(r, role, on)
       PROVE  SessionInv'
  <2>1. PICK u \in Users : u = target[r] /\ row[u] \in Row
    BY <1>18 DEF CommitUpdate, AcctTypeOK
  <2>2. row'[u].version = row[u].version /\ \A v \in Users \ {u} : row'[v] = row[v]
    BY <1>18, <2>1 DEF CommitUpdate, AcctTypeOK, Row
  <2>3. \A v \in exists : row'[v].version = row[v].version
    BY <2>2 DEF AcctTypeOK
  <2>4. QED
    BY <1>16, <1>18, <2>3 DEF CommitUpdate
<1>19. ASSUME NEW r \in Reqs, CommitDelete(r) PROVE SessionInv'
  <2>1. \A u \in exists' : row'[u].version = row[u].version
    BY <1>19 DEF CommitDelete, AcctTypeOK
  <2>2. QED
    BY <1>16, <1>19, <2>1 DEF CommitDelete
<1>20. ASSUME NEW r \in Reqs, NEW k \in Keys, Redeem(r, k) PROVE SessionInv'
  <2>1. \A u \in Users : row[u] \in Row
    BY DEF AcctTypeOK
  <2>2. \A u \in Users : row'[u].version = row[u].version
    BY <1>20, <2>1 DEF Redeem, AcctTypeOK, Row
  <2>3. exists \subseteq Users
    BY DEF AcctTypeOK
  <2>4. QED
    BY <1>16, <1>20, <2>2, <2>3 DEF Redeem, history
<1>21. ASSUME NEW r \in Reqs, EndRequest(r) PROVE SessionInv'
  BY <1>1, <1>2, <1>3, <1>21, Over DEF EndRequest, tableVars, history
<1>22. CASE UNCHANGED <<tableVars, reqVars, history>> /\ tokens' \subseteq tokens
  BY <1>22 DEF SessionInv, VersionOK, HoldsOK, TokenOK, tableVars, reqVars, history
<1>23. ASSUME NEW t \in tokens, Expire(t) PROVE SessionInv'
  BY <1>22, <1>23 DEF Expire
<1>24. CASE UNCHANGED acctVars
  BY <1>22, <1>24 DEF acctVars
<1>25. QED
  BY <1>5, <1>7, <1>8, <1>9, <1>10, <1>11, <1>12, <1>13, <1>14, <1>15, <1>17, <1>18, <1>19,
     <1>20, <1>21, <1>23, <1>24 DEF AcctNext, Handle

\* A token that is accepted belongs to a login after the last logout of its
\* account, if no two logouts of it have overlapped.
THEOREM SessionsFresh == AcctSpec => []LiveSessionsAreFresh
<1>1. AcctInit => SessionInv
  BY RowTypes DEF AcctInit, SessionInv, VersionOK, HoldsOK
<1>2. AcctTypeOK /\ SessionInv => LiveSessionsAreFresh
  <2>1. ASSUME AcctTypeOK, SessionInv, NEW t \in tokens, t.user \notin overlapped, Accepted(t)
        PROVE  t.born = logouts[t.user]
    <3>1. t.user \in Users \ overlapped /\ t.user \in exists /\ row[t.user].version = t.tv
      BY <2>1 DEF AcctTypeOK, Accepted
    <3>2. row[t.user].version = logouts[t.user] /\ t.tv = t.born
      BY <2>1, <3>1 DEF SessionInv, VersionOK, TokenOK
    <3>3. QED
      BY <3>1, <3>2
  <2>2. QED
    BY <2>1 DEF LiveSessionsAreFresh
<1>3. QED
  BY <1>1, <1>2, SessionOfStep, AcctTypeCorrect, PTL DEF AcctSpec
=============================================================================
