----------------------------- MODULE MCAccounts -----------------------------
(***************************************************************************)
(* Accounts with two users, two requests, and one key of each paid tier.   *)
(***************************************************************************)
EXTENDS Accounts, TLC

CONSTANTS k1, k2

MCKeyTier == (k1 :> "pro") @@ (k2 :> "enterprise")
\* Logouts and redemptions touch different columns, which nothing relates: a
\* behaviour is followed until it has both.
OneConcern == (\A u \in Users : logouts[u] = 0) \/ (\A k \in Keys : redeemedBy[k] = NoUser)

Symmetry == Permutations(Reqs) \cup Permutations(Users)
=============================================================================
