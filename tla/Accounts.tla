------------------------------ MODULE Accounts ------------------------------
(***************************************************************************)
(* The users table and the sessions it vouches for (web/auth.py,           *)
(* web/app.py), with the license keys an account redeems                   *)
(* (web/routers/license_routes.py).                                        *)
(*                                                                         *)
(* A session is a signed token that nobody can take back: it carries the   *)
(* account's token_version, and logging out adds one to the version in the *)
(* row.  Every answer to a session re-mints its token, so that it slides   *)
(* forward.  A request reads its own account when it is authenticated, and *)
(* works with that copy to its end; what it writes are the columns whose   *)
(* new value differs from the copy.                                        *)
(*                                                                         *)
(* A user is an account's row id: an account that is deleted never comes   *)
(* back.                                                                   *)
(***************************************************************************)
EXTENDS Naturals, FiniteSets

CONSTANTS
  Users,
  NoUser,
  Keys,         \* the license keys that were generated
  KeyTier,      \* and their tiers
  Tiers, Free,
  Reqs,         \* the requests under way
  MaxLogouts,   \* a bound on the logouts of one account
  MaxTokens     \* a bound on the tokens that are issued while others are valid

ASSUME AccountAssumption ==
  /\ NoUser \notin Users
  /\ Free \in Tiers
  /\ KeyTier \in [Keys -> Tiers \ {Free}]
  /\ MaxLogouts \in Nat /\ MaxTokens \in Nat

VARIABLES
  \* the users table
  exists,       \* the accounts that have a row
  deleted,      \* those that had one
  row,          \* the columns of each row
  \* the license_keys table
  redeemedBy,
  \* the browsers and clients
  tokens,       \* the unexpired tokens in somebody's hands
  \* the requests
  stage,
  who,          \* the account a request acts as, or is about to create
  saw,          \* what it still uses of that account's row, as it was read
  cookie,       \* the token that its answer will re-mint, or none
  born,         \* the logouts that preceded the login it belongs to
  target,       \* the account it administers
  found,        \* and that account's role and flag, as read
  \* history
  logouts,      \* the logouts of each account
  overlapped,   \* the accounts of which two logouts were under way at once
  dropped       \* has an administrator been demoted, deactivated or deleted?

tableVars == <<exists, deleted, row, redeemedBy>>
reqVars   == <<stage, who, saw, cookie, born, target, found>>
history   == <<logouts, overlapped, dropped>>
acctVars  == <<tableVars, tokens, reqVars, history>>

Roles  == {"admin", "analyst"}    \* viewer differs from analyst in no guard
Row    == [role : Roles, active : BOOLEAN, version : Nat, tier : Tiers]
Rights == [role : Roles, active : BOOLEAN]
Token  == [user : Users, tv : Nat, born : Nat]
Stages == {"idle", "register", "seed", "issue", "session", "logout", "update", "delete"}

NewRow(role) == [role |-> role, active |-> TRUE, version |-> 0, tier |-> Free]
NoRow == NewRow("analyst")

\* What is kept of a row that is read for its version, or for its rights.
VersionOf(x) == [NoRow EXCEPT !.version = x.version]
RightsOf(x) == [role |-> x.role, active |-> x.active]
NoRights == RightsOf(NoRow)

AcctInit ==
  /\ exists = {} /\ deleted = {}
  /\ row = [u \in Users |-> NoRow]
  /\ redeemedBy = [k \in Keys |-> NoUser]
  /\ tokens = {}
  /\ stage = [r \in Reqs |-> "idle"]
  /\ who = [r \in Reqs |-> NoUser]
  /\ saw = [r \in Reqs |-> NoRow]
  /\ cookie = [r \in Reqs |-> {}]
  /\ born = [r \in Reqs |-> 0]
  /\ target = [r \in Reqs |-> NoUser]
  /\ found = [r \in Reqs |-> NoRights]
  /\ logouts = [u \in Users |-> 0]
  /\ overlapped = {}
  /\ dropped = FALSE

-----------------------------------------------------------------------------
IsAdmin(u) == u \in exists /\ row[u].role = "admin" /\ row[u].active

\* Request r goes on at stage s, acting as u, whose row it has read as x.
Enter(r, s, u, x) ==
  /\ stage' = [stage EXCEPT ![r] = s]
  /\ who' = [who EXCEPT ![r] = u]
  /\ saw' = [saw EXCEPT ![r] = x]

\* The request is over.
Leave(r) ==
  /\ Enter(r, "idle", NoUser, NoRow)
  /\ cookie' = [cookie EXCEPT ![r] = {}]
  /\ born' = [born EXCEPT ![r] = 0]
  /\ target' = [target EXCEPT ![r] = NoUser]
  /\ found' = [found EXCEPT ![r] = NoRights]

\* A mutant: the middleware reads the account again.
SlideReReading(r) ==
  tokens' = tokens \cup {[t EXCEPT !.tv = row[who[r]].version] : t \in cookie[r]}

\* session_refresh_middleware: a request that succeeds gets its cookie anew,
\* with the version that was read when it was authenticated.
Slide(r) ==
  tokens' = tokens \cup {[t EXCEPT !.tv = saw[r].version] : t \in cookie[r]}

\* The request is refused, raises, or loses its process.
EndRequest(r) ==
  /\ stage[r] # "idle"
  /\ Leave(r)
  /\ UNCHANGED <<tableVars, tokens, history>>

-----------------------------------------------------------------------------
\* A mutant: nothing keeps the row unique.
InsertRowAnyway(r, u) ==
  /\ exists' = exists \cup {u}
  /\ row' = [row EXCEPT ![u] = saw[r]]
  /\ UNCHANGED <<deleted, redeemedBy>>

\* The account's row is new: its name and address are unique.
InsertRow(r, u) ==
  /\ u \notin exists \cup deleted
  /\ exists' = exists \cup {u}
  /\ row' = [row EXCEPT ![u] = saw[r]]
  /\ UNCHANGED <<deleted, redeemedBy>>

\* A mutant: the count is read after the new row was flushed.
FirstRoleFlushed == "analyst"

\* The role of an account that registers: the first one administers.
FirstRole == IF exists = {} THEN "admin" ELSE "analyst"

\* register_submit, api_register: the name is free, and the table counted.
BeginRegister(r, u) ==
  /\ stage[r] = "idle"
  /\ u \notin exists \cup deleted
  /\ Enter(r, "register", u, NewRow(FirstRole))
  /\ UNCHANGED <<tableVars, tokens, cookie, born, target, found, history>>

\* The insert is committed, unless another request took the name.
CommitRegister(r) ==
  /\ stage[r] = "register"
  /\ InsertRow(r, who[r])
  /\ Enter(r, "issue", who[r], VersionOf(saw[r]))
  /\ UNCHANGED <<tokens, cookie, born, target, found, history>>

\* _ensure_first_admin: a starting process finds the table empty...
BeginSeed(r, u) ==
  /\ stage[r] = "idle"
  /\ exists = {}
  /\ u \notin deleted
  /\ Enter(r, "seed", u, NewRow("admin"))
  /\ UNCHANGED <<tableVars, tokens, cookie, born, target, found, history>>

\* ...and inserts the first administrator.  A conflict raises, and the start
\* is tried again.
CommitSeed(r) ==
  /\ stage[r] = "seed"
  /\ InsertRow(r, who[r])
  /\ Leave(r)
  /\ UNCHANGED <<tokens, history>>

-----------------------------------------------------------------------------
\* login_submit, api_login, demo_login read the account.
BeginLogin(r, u) ==
  /\ stage[r] = "idle"
  /\ u \in exists /\ row[u].active
  /\ Enter(r, "issue", u, VersionOf(row[u]))
  /\ born' = [born EXCEPT ![r] = logouts[u]]
  /\ UNCHANGED <<tableVars, tokens, cookie, target, found, history>>

\* They answer with a token of the version they have read.
IssueToken(r) ==
  /\ stage[r] = "issue"
  /\ Cardinality(tokens) < MaxTokens
  /\ tokens' = tokens \cup {[user |-> who[r], tv |-> saw[r].version, born |-> born[r]]}
  /\ Leave(r)
  /\ UNCHANGED <<tableVars, history>>

Expire(t) ==
  /\ tokens' = tokens \ {t}
  /\ UNCHANGED <<tableVars, reqVars, history>>

\* _load_user_from_bearer: the account is active and its version the token's.
Accepted(t) ==
  /\ t.user \in exists /\ row[t.user].active
  /\ row[t.user].version = t.tv

\* get_current_user, with a cookie, or with a bearer token, which does not
\* slide.
Authenticate(r, t) ==
  /\ stage[r] = "idle"
  /\ Accepted(t)
  /\ Enter(r, "session", t.user, row[t.user])
  /\ cookie' \in {[cookie EXCEPT ![r] = c] : c \in {{}, {t}}}
  /\ UNCHANGED <<tableVars, tokens, born, target, found, history>>

\* get_current_user, with an API key, which outlives every session.
AuthenticateByKey(r, u) ==
  /\ stage[r] = "idle"
  /\ u \in exists /\ row[u].active
  /\ Enter(r, "session", u, row[u])
  /\ UNCHANGED <<tableVars, tokens, cookie, born, target, found, history>>

\* A request that changes no account is answered.
Answer(r) ==
  /\ stage[r] = "session"
  /\ Slide(r)
  /\ Leave(r)
  /\ UNCHANGED <<tableVars, history>>

\* logout decodes a token of any version and reads the account.
BeginLogout(r, t) ==
  /\ stage[r] = "idle"
  /\ t.user \in exists
  /\ logouts[t.user] < MaxLogouts
  /\ Enter(r, "logout", t.user, VersionOf(row[t.user]))
  /\ overlapped' = overlapped \cup
       {t.user : q \in {q \in Reqs : stage[q] = "logout" /\ who[q] = t.user}}
  /\ UNCHANGED <<tableVars, tokens, cookie, born, target, found, logouts, dropped>>

\* It stores the version it has read plus one.  (The browser's cookie goes,
\* and may expire at any time in the model; a copy of it may not.)
CommitLogout(r) ==
  /\ stage[r] = "logout"
  /\ who[r] \in exists
  /\ row' = [row EXCEPT ![who[r]].version = saw[r].version + 1]
  /\ logouts' = [logouts EXCEPT ![who[r]] = @ + 1]
  /\ Leave(r)
  /\ UNCHANGED <<exists, deleted, redeemedBy, tokens, overlapped, dropped>>

-----------------------------------------------------------------------------
\* admin_update_user: the session has its own account in memory and does not
\* read it again.
BeginUpdate(r, u) ==
  /\ stage[r] = "session" /\ saw[r].role = "admin"
  /\ u \in exists
  /\ Enter(r, "update", who[r], VersionOf(saw[r]))
  /\ target' = [target EXCEPT ![r] = u]
  /\ found' = [found EXCEPT ![r] = RightsOf(IF u = who[r] THEN saw[r] ELSE row[u])]
  /\ UNCHANGED <<tableVars, tokens, cookie, born, history>>

\* The ORM writes a column only if its new value differs from the one read.
Written(new, read, now) == IF new = read THEN now ELSE new

\* The role and the flag that are asked for are stored; a field that is not
\* mentioned is asked for as it was read.
CommitUpdate(r, role, on) ==
  LET u == target[r]
      f == found[r]
      new == [row[u] EXCEPT !.role = Written(role, f.role, @),
                            !.active = Written(on, f.active, @)]
  IN  /\ stage[r] = "update"
      /\ u \in exists \/ (role = f.role /\ on = f.active)
      /\ row' = [row EXCEPT ![u] = new]
      /\ dropped' = (dropped \/ (IsAdmin(u) /\ (new.role # "admin" \/ ~new.active)))
      /\ Slide(r)
      /\ Leave(r)
      /\ UNCHANGED <<exists, deleted, redeemedBy, logouts, overlapped>>

\* admin_delete_user: the administrator's own account is refused.
BeginDelete(r, u) ==
  /\ stage[r] = "session" /\ saw[r].role = "admin"
  /\ u \in exists /\ u # who[r]
  /\ Enter(r, "delete", who[r], VersionOf(saw[r]))
  /\ target' = [target EXCEPT ![r] = u]
  /\ UNCHANGED <<tableVars, tokens, cookie, born, found, history>>

\* A mutant: the keys an account has redeemed do not hold its row.
CommitDeleteUnreferenced(r) ==
  /\ stage[r] = "delete"
  /\ exists' = exists \ {target[r]}
  /\ deleted' = deleted \cup {target[r]}
  /\ row' = [row EXCEPT ![target[r]] = NoRow]
  /\ dropped' = (dropped \/ IsAdmin(target[r]))
  /\ Slide(r)
  /\ Leave(r)
  /\ UNCHANGED <<redeemedBy, logouts, overlapped>>

\* The row goes with all that cascades from it, but a license key that the
\* account has redeemed refers to it without a cascade.
CommitDelete(r) ==
  /\ stage[r] = "delete"
  /\ \A k \in Keys : redeemedBy[k] # target[r]
  /\ exists' = exists \ {target[r]}
  /\ deleted' = deleted \cup {target[r]}
  /\ row' = [row EXCEPT ![target[r]] = NoRow]
  /\ dropped' = (dropped \/ IsAdmin(target[r]))
  /\ Slide(r)
  /\ Leave(r)
  /\ UNCHANGED <<redeemedBy, logouts, overlapped>>

\* A mutant: the count of updated rows is not looked at.
RedeemUnchecked(r, k) ==
  /\ stage[r] = "session"
  /\ who[r] \in exists
  /\ redeemedBy' = [redeemedBy EXCEPT ![k] = IF @ = NoUser THEN who[r] ELSE @]
  /\ row' = [row EXCEPT ![who[r]].tier = Written(KeyTier[k], saw[r].tier, @)]
  /\ Slide(r)
  /\ Leave(r)
  /\ UNCHANGED <<exists, deleted, history>>

\* redeem_license: one conditional UPDATE takes the key, and the account gets
\* its tier in the same transaction.  A key that is taken, or an account that
\* is gone, refuses.
Redeem(r, k) ==
  /\ stage[r] = "session"
  /\ who[r] \in exists
  /\ redeemedBy[k] = NoUser
  /\ redeemedBy' = [redeemedBy EXCEPT ![k] = who[r]]
  /\ row' = [row EXCEPT ![who[r]].tier = Written(KeyTier[k], saw[r].tier, @)]
  /\ Slide(r)
  /\ Leave(r)
  /\ UNCHANGED <<exists, deleted, history>>

-----------------------------------------------------------------------------
Handle(r) ==
  \/ CommitSeed(r) \/ CommitRegister(r)
  \/ IssueToken(r) \/ Answer(r) \/ CommitLogout(r) \/ CommitDelete(r) \/ EndRequest(r)
  \/ \E u \in Users : \/ BeginSeed(r, u) \/ BeginRegister(r, u) \/ BeginLogin(r, u) \/ AuthenticateByKey(r, u)
                      \/ BeginUpdate(r, u) \/ BeginDelete(r, u)
  \/ \E t \in tokens : Authenticate(r, t) \/ BeginLogout(r, t)
  \/ \E role \in Roles, on \in BOOLEAN : CommitUpdate(r, role, on)
  \/ \E k \in Keys : Redeem(r, k)

AcctNext == (\E r \in Reqs : Handle(r)) \/ (\E t \in tokens : Expire(t))

AcctSpec == AcctInit /\ [][AcctNext]_acctVars

-----------------------------------------------------------------------------
\* Every variable has its type, a request that acts has an account, and an
\* account is there, gone, or not yet.
AcctTypeOK ==
  /\ exists \in SUBSET Users /\ deleted \in SUBSET Users
  /\ exists \cap deleted = {}
  /\ row \in [Users -> Row]
  /\ redeemedBy \in [Keys -> Users \cup {NoUser}]
  /\ tokens \in SUBSET Token
  /\ stage \in [Reqs -> Stages]
  /\ who \in [Reqs -> Users \cup {NoUser}]
  /\ \A r \in Reqs : stage[r] = "idle" <=> who[r] = NoUser
  /\ saw \in [Reqs -> Row]
  /\ cookie \in [Reqs -> SUBSET Token]
  /\ born \in [Reqs -> Nat]
  /\ target \in [Reqs -> Users \cup {NoUser}]
  /\ \A r \in Reqs : stage[r] \in {"update", "delete"} <=> target[r] # NoUser
  /\ found \in [Reqs -> Rights]
  /\ logouts \in [Users -> Nat]
  /\ overlapped \in SUBSET Users
  /\ dropped \in BOOLEAN

\* web/auth.py:322: a token issued before the account's last logout is
\* revoked, whoever slides it forward, whatever was read before the logout
\* and is issued after it -- as long as no two logouts of the account overlap.
LiveSessionsAreFresh ==
  \A t \in tokens :
    t.user \notin overlapped /\ Accepted(t) => t.born = logouts[t.user]

\* web/routers/license_routes.py:82: a key is redeemed once, by an account
\* that keeps its row from then on.
RedemptionsStand ==
  [][\A k \in Keys : redeemedBy'[k] # NoUser =>
       /\ redeemedBy'[k] \in exists'
       /\ redeemedBy[k] \in {NoUser, redeemedBy'[k]}]_acctVars

\* The tier of an account is that of a key it has redeemed, and an account
\* that has redeemed one has a paid tier, however requests that redeem
\* several at once read and write it.
TierPaidFor ==
  \A u \in exists :
    LET own == {k \in Keys : redeemedBy[k] = u}
    IN  row[u].tier \in IF own = {} THEN {Free} ELSE {KeyTier[k] : k \in own}

\* The first account of a table is an administrator, however many processes
\* start and accounts register at once: unless one was demoted, deactivated
\* or deleted, somebody administers.
FirstIsAdmin == exists # {} /\ ~dropped => \E u \in Users : IsAdmin(u)

\* web/app.py:2761, :2793: the last administrator is neither demoted nor
\* deleted.
AdminRemains ==
  [][(\E u \in Users : IsAdmin(u)) => (\E u \in Users : IsAdmin(u)')]_acctVars
=============================================================================
