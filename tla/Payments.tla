------------------------------- MODULE Payments -------------------------------
(***************************************************************************)
(* The automated checkout (web/routers/payment_routes.py) and the delivery *)
(* of its license keys (web/services/email_delivery.py and                 *)
(* resend_pending_deliveries.py).                                          *)
(*                                                                         *)
(* A buyer asks for an invoice; the payment provider then notifies the     *)
(* webhook of what becomes of it.  It repeats a notification, and several  *)
(* notifications of one order may be under way at once, in any order.  The *)
(* one that finds the payment finished claims the order with a conditional *)
(* UPDATE, commits the key with the claim, and only then writes the key to *)
(* a file of the outbox and mails it.  A command-line script, run by the   *)
(* operator, mails the keys whose files do not say delivered=true.         *)
(*                                                                         *)
(* The handlers run as Hooks, one per notification under way: `seen' is    *)
(* the status the handler's session has read, and its later write goes     *)
(* through only if it differs from that.                                   *)
(***************************************************************************)
EXTENDS Naturals, FiniteSets

CONSTANTS
  Orders, Keys, Hooks,
  NoKey,          \* license_key_hash is NULL; no key
  NoOrder,
  MaxBulk,        \* bound: keys generated for sale elsewhere
  DiskMayBeLost   \* whether a redeploy wipes data/, as on the deployment's
                  \* ephemeral disk

ASSUME PaymentAssumption ==
  /\ NoKey \notin Keys
  /\ NoOrder \notin Orders
  /\ MaxBulk \in Nat
  /\ DiskMayBeLost \in BOOLEAN

VARIABLES
  \* the PendingPayment and LicenseKey rows
  invoice,      \* whether the order's row exists
  status, keyHash,
  old,          \* created_at is past the expiry
  licenseKeys,  \* the LicenseKey rows
  bulk,         \* those of them generated for sale elsewhere
  \* the provider
  notices,      \* the <<order, payment_status>> notifications sent so far
  \* the webhook's handlers
  stage, about, news, seen, hookKey,
  \* the outbox, the resend script, the buyers' mailboxes
  outbox, outKey, queue, marking, mailed

orderVars == <<invoice, status, keyHash, old, licenseKeys, bulk>>
hookVars  == <<stage, about, news, seen, hookKey>>
fileVars  == <<outbox, outKey>>
cliVars   == <<queue, marking>>
payVars   == <<orderVars, notices, hookVars, fileVars, cliVars, mailed>>

\* confirming stands for every status in flight, expired for the final ones
\* without a key (failed, expired, refunded).
News      == {"confirming", "partially_paid", "finished", "expired"}
Statuses  == {"none", "pending", "confirming", "partially_paid", "expired",
              "completed"}
Stages    == {"idle", "read", "claimed", "filed", "mailed"}
Files     == {"none", "torn", "pending", "delivered"}
NoNews    == "none"

PayInit ==
  /\ invoice = [o \in Orders |-> "none"]
  /\ status = [o \in Orders |-> "none"]
  /\ keyHash = [o \in Orders |-> NoKey]
  /\ old = [o \in Orders |-> FALSE]
  /\ licenseKeys = {}
  /\ bulk = {}
  /\ notices = {}
  /\ stage = [h \in Hooks |-> "idle"]
  /\ about = [h \in Hooks |-> NoOrder]
  /\ news = [h \in Hooks |-> NoNews]
  /\ seen = [h \in Hooks |-> "none"]
  /\ hookKey = [h \in Hooks |-> NoKey]
  /\ outbox = [o \in Orders |-> "none"]
  /\ outKey = [o \in Orders |-> NoKey]
  /\ queue = {}
  /\ marking = NoOrder
  /\ mailed = {}

-----------------------------------------------------------------------------
\* generate_license_key: 36^16 keys make a second equal draw negligible.
Fresh(k) == k \notin licenseKeys

Sent(o, n) == <<o, n>> \in notices

\* POST /api/payments/create-invoice first expires the stale rows, in a
\* transaction of its own ...
AskInvoice(o) ==
  /\ invoice[o] = "none"
  /\ invoice' = [invoice EXCEPT ![o] = "asked"]
  /\ status' = [q \in Orders |->
                  IF status[q] = "pending" /\ old[q] THEN "expired" ELSE status[q]]
  /\ UNCHANGED <<keyHash, old, licenseKeys, bulk, notices, hookVars, fileVars,
                 cliVars, mailed>>

\* ... then creates the invoice with the provider and inserts the row.
OpenInvoice(o) ==
  /\ invoice[o] = "asked"
  /\ invoice' = [invoice EXCEPT ![o] = "open"]
  /\ status' = [status EXCEPT ![o] = "pending"]
  /\ UNCHANGED <<keyHash, old, licenseKeys, bulk, notices, hookVars, fileVars,
                 cliVars, mailed>>

\* The address is rejected, or the provider cannot be reached.
RefuseInvoice(o) ==
  /\ invoice[o] = "asked"
  /\ invoice' = [invoice EXCEPT ![o] = "none"]
  /\ UNCHANGED <<status, keyHash, old, licenseKeys, bulk, notices, hookVars,
                 fileVars, cliVars, mailed>>

\* The expiry passes since the row's created_at.
GrowOld(o) ==
  /\ invoice[o] = "open"
  /\ old' = [old EXCEPT ![o] = TRUE]
  /\ UNCHANGED <<invoice, status, keyHash, licenseKeys, bulk, notices,
                 hookVars, fileVars, cliVars, mailed>>

\* generate_licenses_admin.py: keys for sale elsewhere.
GenerateBulk(k) ==
  /\ Cardinality(bulk) < MaxBulk
  /\ Fresh(k)
  /\ licenseKeys' = licenseKeys \cup {k}
  /\ bulk' = bulk \cup {k}
  /\ UNCHANGED <<invoice, status, keyHash, old, notices, hookVars, fileVars,
                 cliVars, mailed>>

\* The provider sends a notification, which it may deliver any number of times.
Notify(o, n) ==
  /\ invoice[o] = "open"
  /\ notices' = notices \cup {<<o, n>>}
  /\ UNCHANGED <<orderVars, hookVars, fileVars, cliVars, mailed>>

-----------------------------------------------------------------------------
\* The handler is done; what it held in memory is gone.
Return(h) ==
  /\ stage' = [stage EXCEPT ![h] = "idle"]
  /\ about' = [about EXCEPT ![h] = NoOrder]
  /\ news' = [news EXCEPT ![h] = NoNews]
  /\ seen' = [seen EXCEPT ![h] = "none"]
  /\ hookKey' = [hookKey EXCEPT ![h] = NoKey]

\* A mutant: an order that is over is not looked at again.
ReceiveOpen(h, o, n) ==
  /\ stage[h] = "idle"
  /\ Sent(o, n)
  /\ keyHash[o] = NoKey /\ status[o] # "expired"
  /\ stage' = [stage EXCEPT ![h] = "read"]
  /\ about' = [about EXCEPT ![h] = o]
  /\ news' = [news EXCEPT ![h] = n]
  /\ seen' = [seen EXCEPT ![h] = status[o]]
  /\ UNCHANGED <<orderVars, notices, hookKey, fileVars, cliVars, mailed>>

\* POST /webhooks/nowpayments reads the order's row and finds no key in it.
\* (If it finds one, it answers already_processed and changes nothing.)
Receive(h, o, n) ==
  /\ stage[h] = "idle"
  /\ Sent(o, n)
  /\ keyHash[o] = NoKey
  /\ stage' = [stage EXCEPT ![h] = "read"]
  /\ about' = [about EXCEPT ![h] = o]
  /\ news' = [news EXCEPT ![h] = n]
  /\ seen' = [seen EXCEPT ![h] = status[o]]
  /\ UNCHANGED <<orderVars, notices, hookKey, fileVars, cliVars, mailed>>

\* A mutant: the UPDATE claims the order unconditionally.
ClaimAgain(h, k) ==
  LET o == about[h]
  IN  /\ stage[h] = "read" /\ news[h] = "finished"
      /\ Fresh(k)
      /\ keyHash' = [keyHash EXCEPT ![o] = k]
      /\ status' = [status EXCEPT ![o] = "completed"]
      /\ licenseKeys' = licenseKeys \cup {k}
      /\ stage' = [stage EXCEPT ![h] = "claimed"]
      /\ hookKey' = [hookKey EXCEPT ![h] = k]
      /\ UNCHANGED <<invoice, old, bulk, notices, about, news, seen, fileVars,
                     cliVars, mailed>>

\* A mutant: part of the price buys a key.
ClaimPartly(h, k) ==
  LET o == about[h]
  IN  /\ stage[h] = "read" /\ news[h] \in {"finished", "partially_paid"}
      /\ keyHash[o] = NoKey
      /\ Fresh(k)
      /\ keyHash' = [keyHash EXCEPT ![o] = k]
      /\ status' = [status EXCEPT ![o] = "completed"]
      /\ licenseKeys' = licenseKeys \cup {k}
      /\ stage' = [stage EXCEPT ![h] = "claimed"]
      /\ hookKey' = [hookKey EXCEPT ![h] = k]
      /\ UNCHANGED <<invoice, old, bulk, notices, about, news, seen, fileVars,
                     cliVars, mailed>>

\* A payment that is finished: the conditional UPDATE claims the order, and
\* the LicenseKey is committed with it.
Claim(h, k) ==
  LET o == about[h]
  IN  /\ stage[h] = "read" /\ news[h] = "finished"
      /\ keyHash[o] = NoKey
      /\ Fresh(k)
      /\ keyHash' = [keyHash EXCEPT ![o] = k]
      /\ status' = [status EXCEPT ![o] = "completed"]
      /\ licenseKeys' = licenseKeys \cup {k}
      /\ stage' = [stage EXCEPT ![h] = "claimed"]
      /\ hookKey' = [hookKey EXCEPT ![h] = k]
      /\ UNCHANGED <<invoice, old, bulk, notices, about, news, seen, fileVars,
                     cliVars, mailed>>

\* A mutant: the delivery that lost goes on with the key it drew.
LoseRaceDelivers(h) ==
  /\ stage[h] = "read" /\ news[h] = "finished"
  /\ keyHash[about[h]] # NoKey
  /\ stage' = [stage EXCEPT ![h] = "claimed"]
  /\ \E k \in Keys : Fresh(k) /\ hookKey' = [hookKey EXCEPT ![h] = k]
  /\ UNCHANGED <<orderVars, notices, about, news, seen, fileVars, cliVars,
                 mailed>>

\* Another delivery has claimed it: roll back, and forget the new key.
LoseRace(h) ==
  /\ stage[h] = "read" /\ news[h] = "finished"
  /\ keyHash[about[h]] # NoKey
  /\ Return(h)
  /\ UNCHANGED <<orderVars, notices, fileVars, cliVars, mailed>>

\* A mutant: the provider's word is stored, whatever it is.
RecordAny(h) ==
  /\ stage[h] = "read"
  /\ status' = [status EXCEPT ![about[h]] = news[h]]
  /\ Return(h)
  /\ UNCHANGED <<invoice, keyHash, old, licenseKeys, bulk, notices, fileVars,
                 cliVars, mailed>>

\* Any other news is recorded in the status.
Record(h) ==
  /\ stage[h] = "read" /\ news[h] # "finished"
  /\ status' = [status EXCEPT ![about[h]] =
                  IF seen[h] = news[h] THEN status[about[h]] ELSE news[h]]
  /\ Return(h)
  /\ UNCHANGED <<invoice, keyHash, old, licenseKeys, bulk, notices, fileVars,
                 cliVars, mailed>>

-----------------------------------------------------------------------------
\* A write that fails, or dies, half-way: the file is truncated before it is written.
Tear(o) ==
  /\ outbox' = [outbox EXCEPT ![o] = "torn"]
  /\ outKey' = [outKey EXCEPT ![o] = NoKey]

\* _write_outbox_record: O_EXCL leaves an existing file as it is.
WriteOutbox(h) ==
  LET o == about[h]
  IN  /\ stage[h] = "claimed"
      /\ stage' = [stage EXCEPT ![h] = "filed"]
      /\ \/ /\ outbox[o] = "none"
            /\ outbox' = [outbox EXCEPT ![o] = "pending"]
            /\ outKey' = [outKey EXCEPT ![o] = hookKey[h]]
         \/ outbox[o] # "none" /\ UNCHANGED fileVars
      /\ UNCHANGED <<orderVars, notices, about, news, seen, hookKey, cliVars,
                     mailed>>

\* An OSError is logged, before or after the file was created, and the mail is
\* tried all the same.
OutboxFails(h) ==
  /\ stage[h] = "claimed"
  /\ stage' = [stage EXCEPT ![h] = "filed"]
  /\ \/ UNCHANGED fileVars
     \/ outbox[about[h]] = "none" /\ Tear(about[h])
  /\ UNCHANGED <<orderVars, notices, about, news, seen, hookKey, cliVars,
                 mailed>>

\* The mail server takes the mail.
SendMail(h) ==
  /\ stage[h] = "filed"
  /\ stage' = [stage EXCEPT ![h] = "mailed"]
  /\ mailed' = mailed \cup {<<about[h], hookKey[h]>>}
  /\ UNCHANGED <<orderVars, notices, about, news, seen, hookKey, fileVars,
                 cliVars>>

\* It refuses it, or takes it and fails to say so: the handler is content
\* with the file.
MailFails(h) ==
  /\ stage[h] = "filed"
  /\ mailed' \in {mailed, mailed \cup {<<about[h], hookKey[h]>>}}
  /\ Return(h)
  /\ UNCHANGED <<orderVars, notices, fileVars, cliVars>>

\* mark_delivered rewrites the file, if there is one ...
Mark(o) ==
  /\ outbox' = [outbox EXCEPT ![o] = IF @ = "none" THEN @ ELSE "delivered"]
  /\ UNCHANGED outKey

\* ... and only logs an OSError, before its write or in the middle of it.
MarkFails(o) == UNCHANGED fileVars \/ (outbox[o] # "none" /\ Tear(o))

\* A mutant: the file is marked before the mail is sent.
MarkEarly(h) ==
  /\ stage[h] \in {"filed", "mailed"}
  /\ Mark(about[h]) \/ MarkFails(about[h])
  /\ Return(h)
  /\ UNCHANGED <<orderVars, notices, cliVars, mailed>>

MarkDelivered(h) ==
  /\ stage[h] = "mailed"
  /\ Mark(about[h]) \/ MarkFails(about[h])
  /\ Return(h)
  /\ UNCHANGED <<orderVars, notices, cliVars, mailed>>

\* The process dies: between two steps, or within the write of a file, which
\* truncates it first.
CrashHook(h) ==
  /\ stage[h] # "idle"
  /\ \/ UNCHANGED fileVars
     \/ /\ \/ stage[h] = "claimed" /\ outbox[about[h]] = "none"
           \/ stage[h] = "mailed" /\ outbox[about[h]] # "none"
        /\ Tear(about[h])
  /\ Return(h)
  /\ UNCHANGED <<orderVars, notices, cliVars, mailed>>

-----------------------------------------------------------------------------
\* A mutant: the flag is read the wrong way round.
ResendStartDelivered ==
  /\ queue = {} /\ marking = NoOrder
  /\ queue' = {<<o, outKey[o]>> : o \in {q \in Orders : outbox[q] = "delivered"}}
  /\ queue' # {}
  /\ UNCHANGED <<orderVars, notices, hookVars, fileVars, marking, mailed>>

\* resend_pending_deliveries.py lists the records that are not delivered, and
\* then works through the list: it skips the torn ones.
ResendStart ==
  /\ queue = {} /\ marking = NoOrder
  /\ queue' = {<<o, outKey[o]>> : o \in {q \in Orders : outbox[q] = "pending"}}
  /\ queue' # {}
  /\ UNCHANGED <<orderVars, notices, hookVars, fileVars, marking, mailed>>

ResendMail(o, k) ==
  /\ marking = NoOrder
  /\ <<o, k>> \in queue
  /\ queue' = queue \ {<<o, k>>}
  /\ marking' = o
  /\ mailed' = mailed \cup {<<o, k>>}
  /\ UNCHANGED <<orderVars, notices, hookVars, fileVars>>

ResendFails(o, k) ==
  /\ marking = NoOrder
  /\ <<o, k>> \in queue
  /\ queue' = queue \ {<<o, k>>}
  /\ mailed' \in {mailed, mailed \cup {<<o, k>>}}
  /\ UNCHANGED <<orderVars, notices, hookVars, fileVars, marking>>

ResendMark ==
  /\ marking # NoOrder
  /\ Mark(marking) \/ MarkFails(marking)
  /\ marking' = NoOrder
  /\ UNCHANGED <<orderVars, notices, hookVars, queue, mailed>>

ResendDies ==
  /\ queue # {} \/ marking # NoOrder
  /\ \/ UNCHANGED fileVars
     \/ marking # NoOrder /\ outbox[marking] # "none" /\ Tear(marking)
  /\ queue' = {}
  /\ marking' = NoOrder
  /\ UNCHANGED <<orderVars, notices, hookVars, mailed>>

\* A redeploy: every process is replaced, and so is the disk.
Redeploy ==
  /\ DiskMayBeLost
  /\ \E o \in Orders : outbox[o] # "none"
  /\ stage' = [h \in Hooks |-> "idle"]
  /\ about' = [h \in Hooks |-> NoOrder]
  /\ news' = [h \in Hooks |-> NoNews]
  /\ seen' = [h \in Hooks |-> "none"]
  /\ hookKey' = [h \in Hooks |-> NoKey]
  /\ outbox' = [o \in Orders |-> "none"]
  /\ outKey' = [o \in Orders |-> NoKey]
  /\ queue' = {}
  /\ marking' = NoOrder
  /\ UNCHANGED <<orderVars, notices, mailed>>

-----------------------------------------------------------------------------
Checkout(o) ==
  \/ AskInvoice(o) \/ OpenInvoice(o) \/ RefuseInvoice(o) \/ GrowOld(o)
  \/ \E n \in News : Notify(o, n)

Webhook(h) ==
  \/ \E o \in Orders, n \in News : Receive(h, o, n)
  \/ \E k \in Keys : Claim(h, k)
  \/ LoseRace(h) \/ Record(h)
  \/ WriteOutbox(h) \/ OutboxFails(h)
  \/ SendMail(h) \/ MailFails(h) \/ MarkDelivered(h)
  \/ CrashHook(h)

Resend ==
  \/ ResendStart
  \/ \E o \in Orders, k \in Keys : ResendMail(o, k) \/ ResendFails(o, k)
  \/ ResendMark \/ ResendDies

PayNext ==
  \/ \E o \in Orders : Checkout(o)
  \/ \E k \in Keys : GenerateBulk(k)
  \/ \E h \in Hooks : Webhook(h)
  \/ Resend
  \/ Redeploy

PaySpec == PayInit /\ [][PayNext]_payVars

-----------------------------------------------------------------------------
\* Fairness: the provider repeats a notification until it is answered, a
\* handler under way goes on, and the process does not die at every claim.
\* The operator runs the resend script until the mail server takes the mail.
PayFairness ==
  /\ \A o \in Orders :
       SF_payVars(\E h \in Hooks : Receive(h, o, "finished"))
  /\ \A h \in Hooks :
       /\ SF_payVars(\E k \in Keys : Claim(h, k))
       /\ WF_payVars(\/ LoseRace(h) \/ Record(h) \/ WriteOutbox(h)
                     \/ OutboxFails(h) \/ SendMail(h) \/ MailFails(h)
                     \/ MarkDelivered(h))
  /\ SF_payVars(ResendStart)
  /\ \A o \in Orders, k \in Keys : SF_payVars(ResendMail(o, k))
  /\ WF_payVars(ResendMark)

FairPaySpec == PaySpec /\ PayFairness

-----------------------------------------------------------------------------
PayTypeOK ==
  /\ invoice \in [Orders -> {"none", "asked", "open"}]
  /\ status \in [Orders -> Statuses]
  /\ keyHash \in [Orders -> Keys \cup {NoKey}]
  /\ old \in [Orders -> BOOLEAN]
  /\ licenseKeys \subseteq Keys
  /\ bulk \subseteq licenseKeys
  /\ notices \subseteq Orders \X News
  /\ stage \in [Hooks -> Stages]
  /\ about \in [Hooks -> Orders \cup {NoOrder}]
  /\ news \in [Hooks -> News \cup {NoNews}]
  /\ seen \in [Hooks -> Statuses]
  /\ hookKey \in [Hooks -> Keys \cup {NoKey}]
  /\ outbox \in [Orders -> Files]
  /\ outKey \in [Orders -> Keys \cup {NoKey}]
  /\ queue \subseteq Orders \X Keys
  /\ marking \in Orders \cup {NoOrder}
  /\ mailed \subseteq Orders \X Keys

\* Every LicenseKey row that was not generated in bulk is the key of exactly
\* one order, and the key of an order has its row: a repeated notification
\* leaves no second key behind, and no order is claimed without one.
KeysMatchOrders ==
  /\ \A k \in licenseKeys \ bulk : \E o \in Orders : keyHash[o] = k
  /\ \A o \in Orders : keyHash[o] # NoKey => keyHash[o] \in licenseKeys \ bulk
  /\ \A o, q \in Orders : o # q /\ keyHash[o] # NoKey => keyHash[o] # keyHash[q]

\* What is on file, in the script's list, or mailed for an order is the key
\* the order was claimed with, never the key of a delivery that lost.
OnlyTheKeyIsDelivered ==
  /\ \A o \in Orders : outKey[o] # NoKey => outKey[o] = keyHash[o]
  /\ \A m \in mailed \cup queue : m[2] = keyHash[m[1]]

\* A record that says delivered=true has been delivered.
DeliveredWasMailed ==
  \A o \in Orders : outbox[o] = "delivered" => <<o, keyHash[o]>> \in mailed

\* The outbox gives up a key only after it was mailed, or with the disk.
OutboxKeepsKey ==
  [][\A o \in Orders :
       outKey[o] # NoKey /\ outKey'[o] = NoKey =>
         <<o, outKey[o]>> \in mailed \/ Redeploy]_payVars

\* A payment that finished gets its key.
PaidGetsKey ==
  \A o \in Orders : Sent(o, "finished") ~> keyHash[o] # NoKey

\* A key on file reaches its buyer, unless the file is lost with the disk.
FiledGetsMailed ==
  \A o \in Orders :
    outbox[o] = "pending" ~>
      outbox[o] = "none" \/ \E k \in Keys : <<o, k>> \in mailed

\* web/models.py, PendingPayment: an in-flight status is stored while no
\* LicenseKey is generated yet.
ClaimedIsCompleted ==
  \A o \in Orders : keyHash[o] # NoKey => status[o] = "completed"

\* email_delivery.py: a paid customer's key is never lost.
KeyNeverLost ==
  \A o \in Orders : keyHash[o] # NoKey =>
    \/ <<o, keyHash[o]>> \in mailed
    \/ outKey[o] = keyHash[o]
    \/ \E h \in Hooks : hookKey[h] = keyHash[o]

\* The checkout as its buyers see it.
Ledger == INSTANCE OrderLedger WITH
            paid   <- {o \in Orders : Sent(o, "finished")},
            issued <- keyHash,
            taken  <- licenseKeys,
            mails  <- mailed

ImplementsLedger == Ledger!LedgerSpec
=============================================================================
