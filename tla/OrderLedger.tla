----------------------------- MODULE OrderLedger -----------------------------
(***************************************************************************)
(* What the checkout promises about license keys, with no mention of       *)
(* webhooks, rows or files: a key is issued for an order only once the     *)
(* order has been paid, at most one key is ever issued for it, no key is   *)
(* issued twice, and what is mailed to the buyer is that key.              *)
(***************************************************************************)
CONSTANTS Orders, Keys, NoKey

VARIABLES
  paid,     \* the orders whose payment has finished
  issued,   \* the key issued for each order, or NoKey
  taken,    \* the keys in circulation, sold otherwise included
  mails     \* the <<order, key>> pairs mailed

ledgerVars == <<paid, issued, taken, mails>>

LedgerInit ==
  /\ paid = {}
  /\ issued = [o \in Orders |-> NoKey]
  /\ taken = {}
  /\ mails = {}

Pay(o) ==
  /\ paid' = paid \cup {o}
  /\ UNCHANGED <<issued, taken, mails>>

Issue(o, k) ==
  /\ o \in paid
  /\ issued[o] = NoKey
  /\ k \notin taken
  /\ issued' = [issued EXCEPT ![o] = k]
  /\ taken' = taken \cup {k}
  /\ UNCHANGED <<paid, mails>>

\* A key that is sold through another channel.
Reserve(k) ==
  /\ k \notin taken
  /\ taken' = taken \cup {k}
  /\ UNCHANGED <<paid, issued, mails>>

Mail(o) ==
  /\ issued[o] # NoKey
  /\ mails' = mails \cup {<<o, issued[o]>>}
  /\ UNCHANGED <<paid, issued, taken>>

LedgerNext ==
  \/ \E o \in Orders : Pay(o) \/ Mail(o) \/ \E k \in Keys : Issue(o, k)
  \/ \E k \in Keys : Reserve(k)

LedgerSpec == LedgerInit /\ [][LedgerNext]_ledgerVars
=============================================================================
