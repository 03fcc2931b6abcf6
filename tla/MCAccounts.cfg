\* Two users and two requests at a time; each user may log out, or two
\* logouts of one may overlap; two keys of different tiers.
SPECIFICATION AcctSpec
CONSTANTS
  k1 = k1
  k2 = k2
  Users = {u1, u2}
  NoUser = NoUser
  Keys = {k1, k2}
  KeyTier <- MCKeyTier
  Tiers = {"free", "pro", "enterprise"}
  Free = "free"
  Reqs = {r1, r2}
  MaxLogouts = 1
  MaxTokens = 1
CONSTRAINT OneConcern
SYMMETRY Symmetry
INVARIANTS AcctTypeOK LiveSessionsAreFresh TierPaidFor FirstIsAdmin
PROPERTY RedemptionsStand
\* An account that is deleted does not come back, so both may be gone.
CHECK_DEADLOCK FALSE
