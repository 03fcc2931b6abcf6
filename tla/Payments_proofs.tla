---------------------------- MODULE Payments_proofs ----------------------------
(***************************************************************************)
(* Theorems about Payments, for any number of orders, keys and handlers.   *)
(***************************************************************************)
EXTENDS Payments, TLAPS

\* A handler beyond the claim holds the key of its order, and one that is
\* about to mark the file has mailed it; an older handler has a notification.
HookOK(h) ==
  /\ stage[h] # "idle" =>
       /\ about[h] \in Orders
       /\ news[h] \in News
       /\ Sent(about[h], news[h])
  /\ stage[h] \in {"claimed", "filed", "mailed"} =>
       /\ hookKey[h] \in Keys
       /\ hookKey[h] = keyHash[about[h]]
  /\ stage[h] = "mailed" => <<about[h], hookKey[h]>> \in mailed

\* A pending record holds a key, and there is none in a record that is not there.
FileOK(o) ==
  /\ outbox[o] = "pending" => outKey[o] \in Keys
  /\ outbox[o] = "none" => outKey[o] = NoKey

MarkingOK == marking # NoOrder => <<marking, keyHash[marking]>> \in mailed

PayInv ==
  /\ PayTypeOK
  /\ KeysMatchOrders
  /\ \A h \in Hooks : HookOK(h)
  /\ \A o \in Orders : FileOK(o)
  /\ MarkingOK
  /\ OnlyTheKeyIsDelivered
  /\ DeliveredWasMailed

LEMMA PayInvInit == PayInit => PayInv
  BY PaymentAssumption
  DEF PayInit, PayInv, PayTypeOK, KeysMatchOrders, HookOK, FileOK, MarkingOK,
      OnlyTheKeyIsDelivered, DeliveredWasMailed, Statuses, Stages, Files, NoNews

-----------------------------------------------------------------------------
\* The checkout, the bulk keys and the provider leave keys and files alone.
LEMMA CheckoutStep ==
  ASSUME PayInv, NEW o \in Orders, Checkout(o)
  PROVE  PayInv'
<1>1. PayTypeOK'
  <2> USE DEF PayTypeOK, PayInv, Statuses, orderVars, hookVars, fileVars, cliVars
  <2>1. CASE AskInvoice(o)
    BY <2>1 DEF AskInvoice
  <2>2. CASE OpenInvoice(o)
    BY <2>2 DEF OpenInvoice
  <2>3. CASE RefuseInvoice(o)
    BY <2>3 DEF RefuseInvoice
  <2>4. CASE GrowOld(o)
    BY <2>4 DEF GrowOld
  <2>5. ASSUME NEW n \in News, Notify(o, n) PROVE PayTypeOK'
    BY <2>5 DEF Notify
  <2>6. QED
    BY <2>1, <2>2, <2>3, <2>4, <2>5 DEF Checkout
<1>2. /\ UNCHANGED <<keyHash, licenseKeys, bulk, hookVars, fileVars, cliVars, mailed>>
      /\ notices \subseteq notices'
  BY DEF Checkout, AskInvoice, OpenInvoice, RefuseInvoice, GrowOld, Notify,
         orderVars
<1>3. KeysMatchOrders' /\ OnlyTheKeyIsDelivered' /\ DeliveredWasMailed' /\ MarkingOK'
  BY <1>2 DEF PayInv, KeysMatchOrders, OnlyTheKeyIsDelivered, DeliveredWasMailed,
              MarkingOK, fileVars, cliVars
<1>4. \A h \in Hooks : HookOK(h)'
  BY <1>2 DEF PayInv, HookOK, hookVars, Sent
<1>5. \A q \in Orders : FileOK(q)'
  BY <1>2 DEF PayInv, FileOK, fileVars
<1>6. QED
  BY <1>1, <1>3, <1>4, <1>5 DEF PayInv

LEMMA BulkStep ==
  ASSUME PayInv, NEW k \in Keys, GenerateBulk(k)
  PROVE  PayInv'
<1>1. /\ UNCHANGED <<keyHash, notices, hookVars, fileVars, cliVars, mailed>>
      /\ UNCHANGED <<invoice, status, old>>
      /\ k \notin licenseKeys
      /\ licenseKeys' = licenseKeys \cup {k} /\ bulk' = bulk \cup {k}
  BY DEF GenerateBulk, Fresh
<1>2. PayTypeOK'
  BY <1>1 DEF PayInv, PayTypeOK, hookVars, fileVars, cliVars
<1>3. KeysMatchOrders'
  BY <1>1 DEF PayInv, KeysMatchOrders
<1>4. OnlyTheKeyIsDelivered' /\ DeliveredWasMailed' /\ MarkingOK'
  BY <1>1 DEF PayInv, OnlyTheKeyIsDelivered, DeliveredWasMailed, MarkingOK,
              fileVars, cliVars
<1>5. \A h \in Hooks : HookOK(h)'
  BY <1>1 DEF PayInv, HookOK, hookVars, Sent
<1>6. \A q \in Orders : FileOK(q)'
  BY <1>1 DEF PayInv, FileOK, fileVars
<1>7. QED
  BY <1>2, <1>3, <1>4, <1>5, <1>6 DEF PayInv

-----------------------------------------------------------------------------
\* What a step that claims nothing has to show.
LEMMA Unclaimed ==
  ASSUME PayInv, PayTypeOK',
         UNCHANGED <<keyHash, licenseKeys, bulk, notices>>,
         \A h \in Hooks : HookOK(h)',
         \A o \in Orders : FileOK(o)',
         MarkingOK', OnlyTheKeyIsDelivered', DeliveredWasMailed'
  PROVE  PayInv'
  BY DEF PayInv, KeysMatchOrders

\* A handler that returns.
LEMMA ReturnHooks ==
  ASSUME PayInv, NEW h \in Hooks, Return(h),
         UNCHANGED <<keyHash, notices>>, mailed \subseteq mailed'
  PROVE  /\ \A g \in Hooks : HookOK(g)'
         /\ stage' \in [Hooks -> Stages]
         /\ about' \in [Hooks -> Orders \cup {NoOrder}]
         /\ news' \in [Hooks -> News \cup {NoNews}]
         /\ seen' \in [Hooks -> Statuses]
         /\ hookKey' \in [Hooks -> Keys \cup {NoKey}]
<1> USE DEF PayInv, PayTypeOK
<1>1. stage'[h] = "idle"
  BY DEF Return
<1>2. \A g \in Hooks \ {h} :
        /\ stage'[g] = stage[g] /\ about'[g] = about[g] /\ news'[g] = news[g]
        /\ hookKey'[g] = hookKey[g]
  BY DEF Return
<1>3. HookOK(h)'
  BY <1>1 DEF HookOK
<1>4. \A g \in Hooks \ {h} : HookOK(g)'
  BY <1>2 DEF HookOK, Sent
<1>5. QED
  BY <1>3, <1>4 DEF Return, Stages, Statuses, NoNews

LEMMA ReceiveStep ==
  ASSUME PayInv, NEW h \in Hooks, NEW o \in Orders, NEW n \in News,
         Receive(h, o, n)
  PROVE  PayInv'
<1> USE DEF PayInv, PayTypeOK, orderVars, fileVars, cliVars
<1>1. PayTypeOK'
  BY DEF Receive, Stages
<1>2. \A g \in Hooks : HookOK(g)'
  <2>1. HookOK(h)'
    BY DEF Receive, HookOK, Sent
  <2>2. \A g \in Hooks \ {h} : HookOK(g)'
    BY DEF Receive, HookOK, Sent
  <2>3. QED
    BY <2>1, <2>2
<1>3. UNCHANGED <<keyHash, licenseKeys, bulk, notices, outbox, outKey, queue, marking, mailed>>
  BY DEF Receive
<1>4. \A q \in Orders : FileOK(q)'
  BY <1>3 DEF FileOK
<1>5. MarkingOK' /\ OnlyTheKeyIsDelivered' /\ DeliveredWasMailed'
  BY <1>3 DEF MarkingOK, OnlyTheKeyIsDelivered, DeliveredWasMailed
<1>6. QED
  BY <1>1, <1>2, <1>3, <1>4, <1>5, Unclaimed

LEMMA ClaimStep ==
  ASSUME PayInv, NEW h \in Hooks, NEW k \in Keys, Claim(h, k)
  PROVE  PayInv'
<1> DEFINE o == about[h]
<1> USE DEF PayInv, PayTypeOK, fileVars, cliVars
<1>1. /\ o \in Orders /\ keyHash[o] = NoKey /\ k \notin licenseKeys
      /\ stage[h] = "read"
      /\ keyHash' = [keyHash EXCEPT ![o] = k]
      /\ licenseKeys' = licenseKeys \cup {k} /\ bulk' = bulk
      /\ stage' = [stage EXCEPT ![h] = "claimed"]
      /\ hookKey' = [hookKey EXCEPT ![h] = k]
      /\ UNCHANGED <<notices, about, news, outbox, outKey, queue, marking, mailed>>
  BY DEF Claim, Fresh, HookOK
<1>2. k # NoKey
  BY PaymentAssumption
<1>3. \A q \in Orders : keyHash[q] # NoKey => keyHash'[q] = keyHash[q]
  BY <1>1
<1>4. PayTypeOK'
  BY <1>1 DEF Claim, Stages, Statuses
<1>5. KeysMatchOrders'
  <2>1. keyHash'[o] = k
    BY <1>1
  <2>2. \A j \in licenseKeys' \ bulk' : \E q \in Orders : keyHash'[q] = j
    <3> SUFFICES ASSUME NEW j \in licenseKeys' \ bulk'
                 PROVE  \E q \in Orders : keyHash'[q] = j
      OBVIOUS
    <3>1. CASE j = k
      BY <1>1, <2>1, <3>1
    <3>2. CASE j # k
      <4>1. PICK q \in Orders : keyHash[q] = j
        BY <1>1, <3>2 DEF KeysMatchOrders
      <4>2. j # NoKey
        BY <1>1, PaymentAssumption
      <4>3. QED
        BY <1>3, <4>1, <4>2
    <3>3. QED
      BY <3>1, <3>2
  <2>3. \A q \in Orders : keyHash'[q] # NoKey => keyHash'[q] \in licenseKeys' \ bulk'
    BY <1>1 DEF KeysMatchOrders
  <2>4. \A p, q \in Orders :
          p # q /\ keyHash'[p] # NoKey => keyHash'[p] # keyHash'[q]
    BY <1>1, <1>2 DEF KeysMatchOrders
  <2>5. QED
    BY <2>2, <2>3, <2>4 DEF KeysMatchOrders
<1>6. \A g \in Hooks : HookOK(g)'
  <2>1. HookOK(h)'
    BY <1>1 DEF HookOK, Sent
  <2>2. ASSUME NEW g \in Hooks \ {h} PROVE HookOK(g)'
    <3>1. /\ stage'[g] = stage[g] /\ hookKey'[g] = hookKey[g]
          /\ about'[g] = about[g] /\ news'[g] = news[g]
      BY <1>1
    <3>2. CASE stage[g] \in {"claimed", "filed", "mailed"}
      <4>1. keyHash[about[g]] # NoKey /\ about[g] \in Orders
        <5>1. HookOK(g) /\ stage[g] # "idle"
          BY <3>2
        <5>2. about[g] \in Orders /\ hookKey[g] \in Keys /\ hookKey[g] = keyHash[about[g]]
          BY <3>2, <5>1 DEF HookOK
        <5>3. QED
          BY <5>2, PaymentAssumption
      <4>2. keyHash'[about[g]] = keyHash[about[g]]
        BY <1>3, <4>1
      <4>3. QED
        BY <1>1, <3>1, <4>2 DEF HookOK, Sent
    <3>3. CASE stage[g] \notin {"claimed", "filed", "mailed"}
      BY <1>1, <3>1, <3>3 DEF HookOK, Sent
    <3>4. QED
      BY <3>2, <3>3
  <2>3. QED
    BY <2>1, <2>2
<1>7. \A q \in Orders : FileOK(q)'
  BY <1>1 DEF FileOK
<1>8. \A m \in mailed \cup queue :
        keyHash[m[1]] # NoKey /\ keyHash'[m[1]] = keyHash[m[1]]
  <2> SUFFICES ASSUME NEW m \in mailed \cup queue
               PROVE  keyHash[m[1]] # NoKey /\ keyHash'[m[1]] = keyHash[m[1]]
    OBVIOUS
  <2>1. m[1] \in Orders /\ m[2] \in Keys /\ m[2] = keyHash[m[1]]
    BY DEF OnlyTheKeyIsDelivered
  <2>2. QED
    BY <1>3, <2>1, PaymentAssumption
<1>9. OnlyTheKeyIsDelivered'
  <2>1. \A q \in Orders : outKey'[q] # NoKey => outKey'[q] = keyHash'[q]
    BY <1>1, <1>3 DEF OnlyTheKeyIsDelivered
  <2>2. \A m \in mailed' \cup queue' : m[2] = keyHash'[m[1]]
    BY <1>1, <1>8 DEF OnlyTheKeyIsDelivered
  <2>3. QED
    BY <2>1, <2>2 DEF OnlyTheKeyIsDelivered
<1>10. \A q \in Orders : <<q, keyHash[q]>> \in mailed => keyHash'[q] = keyHash[q]
  <2> SUFFICES ASSUME NEW q \in Orders, <<q, keyHash[q]>> \in mailed
               PROVE  keyHash'[q] = keyHash[q]
    OBVIOUS
  <2>1. <<q, keyHash[q]>>[1] = q
    OBVIOUS
  <2>2. QED
    BY <1>8, <2>1
<1>11. DeliveredWasMailed'
  BY <1>1, <1>10 DEF DeliveredWasMailed
<1>12. MarkingOK'
  BY <1>1, <1>10 DEF MarkingOK
<1>13. QED
  BY <1>4, <1>5, <1>6, <1>7, <1>9, <1>11, <1>12

\* Handlers that return without having mailed anything.
LEMMA QuietReturnStep ==
  ASSUME PayInv, NEW h \in Hooks, LoseRace(h) \/ Record(h)
  PROVE  PayInv'
<1> USE DEF PayInv, PayTypeOK, orderVars, fileVars, cliVars
<1>1. /\ Return(h)
      /\ UNCHANGED <<invoice, keyHash, old, licenseKeys, bulk, notices,
                     outbox, outKey, queue, marking, mailed>>
  BY DEF LoseRace, Record
<1>2. status' \in [Orders -> Statuses]
  <2>1. CASE LoseRace(h)
    BY <2>1 DEF LoseRace
  <2>2. CASE Record(h)
    <3>1. news[h] \in News /\ news[h] # "finished" /\ about[h] \in Orders
      BY <2>2 DEF Record, HookOK
    <3>2. news[h] \in Statuses
      BY <3>1 DEF News, Statuses
    <3>3. QED
      BY <2>2, <3>1, <3>2 DEF Record
  <2>3. QED
    BY <2>1, <2>2
<1>3. PayTypeOK' /\ \A g \in Hooks : HookOK(g)'
  BY <1>1, <1>2, ReturnHooks
<1>4. \A q \in Orders : FileOK(q)'
  BY <1>1 DEF FileOK
<1>5. MarkingOK' /\ OnlyTheKeyIsDelivered' /\ DeliveredWasMailed'
  BY <1>1 DEF MarkingOK, OnlyTheKeyIsDelivered, DeliveredWasMailed
<1>6. QED
  BY <1>1, <1>3, <1>4, <1>5, Unclaimed

LEMMA FileStep ==
  ASSUME PayInv, NEW h \in Hooks, WriteOutbox(h) \/ OutboxFails(h)
  PROVE  PayInv'
<1> DEFINE o == about[h]
<1> USE DEF PayInv, PayTypeOK, orderVars, fileVars, cliVars
<1>1. /\ stage[h] = "claimed" /\ stage' = [stage EXCEPT ![h] = "filed"]
      /\ UNCHANGED <<invoice, status, keyHash, old, licenseKeys, bulk, notices,
                     about, news, seen, hookKey, queue, marking, mailed>>
      /\ \/ /\ outbox[o] = "none"
            /\ outbox' = [outbox EXCEPT ![o] = "pending"]
            /\ outKey' = [outKey EXCEPT ![o] = hookKey[h]]
         \/ outbox[o] = "none" /\ Tear(o)
         \/ UNCHANGED <<outbox, outKey>>
  BY DEF WriteOutbox, OutboxFails
<1>2. o \in Orders /\ hookKey[h] \in Keys /\ hookKey[h] = keyHash[o]
  BY <1>1 DEF HookOK
<1>3. PayTypeOK'
  BY <1>1, <1>2 DEF Stages, Files, Tear
<1>4. \A g \in Hooks : HookOK(g)'
  BY <1>1 DEF HookOK, Sent
<1>5. \A q \in Orders : FileOK(q)'
  BY <1>1, <1>2 DEF FileOK, Tear
<1>6. OnlyTheKeyIsDelivered'
  BY <1>1, <1>2 DEF OnlyTheKeyIsDelivered, Tear
<1>7. MarkingOK' /\ DeliveredWasMailed'
  BY <1>1, <1>2 DEF MarkingOK, DeliveredWasMailed, Tear
<1>8. QED
  BY <1>1, <1>3, <1>4, <1>5, <1>6, <1>7, Unclaimed

\* Mail only ever adds the key of an order to what is mailed.
LEMMA Mailing ==
  ASSUME PayInv, NEW o \in Orders, NEW k \in Keys, k = keyHash[o],
         mailed' \in {mailed, mailed \cup {<<o, k>>}},
         UNCHANGED <<keyHash, outKey, outbox>>, queue' \subseteq queue
  PROVE  /\ OnlyTheKeyIsDelivered' /\ DeliveredWasMailed'
         /\ mailed' \subseteq Orders \X Keys /\ mailed \subseteq mailed'
         /\ \A q \in Orders : FileOK(q)'
<1>1. mailed' \subseteq Orders \X Keys /\ mailed \subseteq mailed'
  BY DEF PayInv, PayTypeOK
<1>2. OnlyTheKeyIsDelivered'
  BY DEF PayInv, OnlyTheKeyIsDelivered
<1>3. DeliveredWasMailed'
  BY <1>1 DEF PayInv, DeliveredWasMailed
<1>4. \A q \in Orders : FileOK(q)'
  BY DEF PayInv, FileOK
<1>5. QED
  BY <1>1, <1>2, <1>3, <1>4

LEMMA SendMailStep ==
  ASSUME PayInv, NEW h \in Hooks, SendMail(h)
  PROVE  PayInv'
<1> USE DEF PayInv, PayTypeOK, orderVars, fileVars, cliVars
<1>1. about[h] \in Orders /\ hookKey[h] \in Keys /\ hookKey[h] = keyHash[about[h]]
  BY DEF SendMail, HookOK
<1>2. /\ OnlyTheKeyIsDelivered' /\ DeliveredWasMailed'
      /\ mailed' \subseteq Orders \X Keys /\ mailed \subseteq mailed'
      /\ \A q \in Orders : FileOK(q)'
  BY <1>1, Mailing DEF SendMail
<1>3. PayTypeOK'
  BY <1>2 DEF SendMail, Stages
<1>4. \A g \in Hooks : HookOK(g)'
  BY <1>1, <1>2 DEF SendMail, HookOK, Sent
<1>5. MarkingOK'
  BY <1>2 DEF SendMail, MarkingOK
<1>6. QED
  BY <1>2, <1>3, <1>4, <1>5, Unclaimed DEF SendMail

LEMMA MailFailsStep ==
  ASSUME PayInv, NEW h \in Hooks, MailFails(h)
  PROVE  PayInv'
<1> USE DEF PayInv, PayTypeOK, orderVars, fileVars, cliVars
<1>1. about[h] \in Orders /\ hookKey[h] \in Keys /\ hookKey[h] = keyHash[about[h]]
  BY DEF MailFails, HookOK
<1>2. /\ OnlyTheKeyIsDelivered' /\ DeliveredWasMailed'
      /\ mailed' \subseteq Orders \X Keys /\ mailed \subseteq mailed'
      /\ \A q \in Orders : FileOK(q)'
  BY <1>1, Mailing DEF MailFails
<1>3. PayTypeOK' /\ \A g \in Hooks : HookOK(g)'
  BY <1>2, ReturnHooks DEF MailFails
<1>4. MarkingOK'
  BY <1>2 DEF MailFails, MarkingOK
<1>5. QED
  BY <1>2, <1>3, <1>4, Unclaimed DEF MailFails

-----------------------------------------------------------------------------
\* Marking, or tearing, the record of an order that has been mailed.
LEMMA Marking ==
  ASSUME PayInv, NEW o \in Orders, UNCHANGED <<keyHash, queue, mailed>>,
         \/ UNCHANGED fileVars
         \/ Mark(o) /\ <<o, keyHash[o]>> \in mailed
         \/ Tear(o)
  PROVE  /\ OnlyTheKeyIsDelivered' /\ DeliveredWasMailed'
         /\ outbox' \in [Orders -> Files] /\ outKey' \in [Orders -> Keys \cup {NoKey}]
         /\ \A q \in Orders : FileOK(q)'
  BY DEF PayInv, PayTypeOK, fileVars, Mark, Tear, OnlyTheKeyIsDelivered,
         DeliveredWasMailed, FileOK, Files

LEMMA MarkDeliveredStep ==
  ASSUME PayInv, NEW h \in Hooks, MarkDelivered(h)
  PROVE  PayInv'
<1> USE DEF PayInv, PayTypeOK, orderVars, cliVars
<1>1. about[h] \in Orders /\ <<about[h], keyHash[about[h]]>> \in mailed
  BY DEF MarkDelivered, HookOK
<1>2. /\ OnlyTheKeyIsDelivered' /\ DeliveredWasMailed'
      /\ outbox' \in [Orders -> Files] /\ outKey' \in [Orders -> Keys \cup {NoKey}]
      /\ \A q \in Orders : FileOK(q)'
  BY <1>1, Marking DEF MarkDelivered, MarkFails
<1>3. PayTypeOK' /\ \A g \in Hooks : HookOK(g)'
  BY <1>2, ReturnHooks DEF MarkDelivered
<1>4. MarkingOK'
  BY DEF MarkDelivered, MarkingOK
<1>5. QED
  BY <1>2, <1>3, <1>4, Unclaimed DEF MarkDelivered

LEMMA CrashHookStep ==
  ASSUME PayInv, NEW h \in Hooks, CrashHook(h)
  PROVE  PayInv'
<1> USE DEF PayInv, PayTypeOK, orderVars, cliVars
<1>1. about[h] \in Orders
  BY DEF CrashHook, HookOK
<1>2. /\ OnlyTheKeyIsDelivered' /\ DeliveredWasMailed'
      /\ outbox' \in [Orders -> Files] /\ outKey' \in [Orders -> Keys \cup {NoKey}]
      /\ \A q \in Orders : FileOK(q)'
  BY <1>1, Marking DEF CrashHook
<1>3. PayTypeOK' /\ \A g \in Hooks : HookOK(g)'
  BY <1>2, ReturnHooks DEF CrashHook
<1>4. MarkingOK'
  BY DEF CrashHook, MarkingOK
<1>5. QED
  BY <1>2, <1>3, <1>4, Unclaimed DEF CrashHook

-----------------------------------------------------------------------------
\* The hooks do not depend on the script, nor on the files.
LEMMA HooksKept ==
  ASSUME PayInv, UNCHANGED <<orderVars, notices, hookVars>>, mailed \subseteq mailed'
  PROVE  \A h \in Hooks : HookOK(h)'
  BY DEF PayInv, HookOK, Sent, orderVars, hookVars

LEMMA ResendStep ==
  ASSUME PayInv, Resend
  PROVE  PayInv'
<1> USE DEF PayInv, PayTypeOK, orderVars, hookVars
<1>1. CASE ResendStart
  <2>1. queue' \subseteq Orders \X Keys
    BY <1>1 DEF ResendStart, FileOK
  <2>2. \A m \in queue' : m[2] = keyHash[m[1]]
    <3> SUFFICES ASSUME NEW o \in Orders, outbox[o] = "pending"
                 PROVE  outKey[o] = keyHash[o]
      BY <1>1 DEF ResendStart
    <3>1. outKey[o] \in Keys
      BY DEF FileOK
    <3>2. QED
      BY <3>1, PaymentAssumption DEF OnlyTheKeyIsDelivered
  <2>3. OnlyTheKeyIsDelivered'
    BY <1>1, <2>2 DEF ResendStart, OnlyTheKeyIsDelivered, fileVars
  <2>4. PayTypeOK'
    BY <1>1, <2>1 DEF ResendStart, fileVars
  <2>5. MarkingOK' /\ DeliveredWasMailed' /\ \A q \in Orders : FileOK(q)'
    BY <1>1 DEF ResendStart, MarkingOK, DeliveredWasMailed, FileOK, fileVars
  <2>6. QED
    BY <1>1, <2>3, <2>4, <2>5, HooksKept, Unclaimed DEF ResendStart
<1>2. ASSUME NEW o \in Orders, NEW k \in Keys, ResendMail(o, k) \/ ResendFails(o, k)
      PROVE  PayInv'
  <2>1. /\ <<o, k>> \in queue /\ queue' = queue \ {<<o, k>>}
        /\ UNCHANGED <<orderVars, notices, hookVars, fileVars>>
        /\ mailed' \in {mailed, mailed \cup {<<o, k>>}}
        /\ marking' = marking \/ (marking' = o /\ <<o, k>> \in mailed')
    BY <1>2 DEF ResendMail, ResendFails
  <2>2. k = keyHash[o]
    <3>1. <<o, k>>[1] = o /\ <<o, k>>[2] = k
      OBVIOUS
    <3>2. QED
      BY <2>1, <3>1 DEF OnlyTheKeyIsDelivered
  <2>3. /\ OnlyTheKeyIsDelivered' /\ DeliveredWasMailed'
        /\ mailed' \subseteq Orders \X Keys /\ mailed \subseteq mailed'
        /\ \A q \in Orders : FileOK(q)'
    BY <2>1, <2>2, Mailing DEF fileVars
  <2>4. PayTypeOK'
    BY <2>1, <2>3 DEF fileVars
  <2>5. MarkingOK'
    BY <2>1, <2>2, <2>3 DEF MarkingOK
  <2>6. QED
    BY <2>1, <2>3, <2>4, <2>5, HooksKept, Unclaimed
<1>3. CASE ResendMark \/ ResendDies
  <2>1. CASE marking = NoOrder
    BY <1>3, <2>1, HooksKept, Unclaimed
    DEF ResendMark, ResendDies, fileVars, OnlyTheKeyIsDelivered,
        DeliveredWasMailed, FileOK, MarkingOK
  <2>2. CASE marking # NoOrder
    <3>1. marking \in Orders /\ <<marking, keyHash[marking]>> \in mailed
      BY <2>2 DEF MarkingOK
    <3>2. /\ UNCHANGED <<orderVars, notices, hookVars, mailed>>
          /\ marking' = NoOrder
          /\ queue' \in {queue, {}}
          /\ \/ UNCHANGED fileVars
             \/ Mark(marking)
             \/ Tear(marking)
      BY <1>3 DEF ResendMark, ResendDies, MarkFails
    <3>3. /\ outbox' \in [Orders -> Files] /\ outKey' \in [Orders -> Keys \cup {NoKey}]
          /\ OnlyTheKeyIsDelivered' /\ DeliveredWasMailed'
          /\ \A q \in Orders : FileOK(q)'
      BY <3>1, <3>2
      DEF fileVars, Mark, Tear, OnlyTheKeyIsDelivered, DeliveredWasMailed, FileOK, Files
    <3>4. PayTypeOK' /\ MarkingOK'
      BY <3>2, <3>3 DEF MarkingOK
    <3>5. QED
      BY <3>2, <3>3, <3>4, HooksKept, Unclaimed
  <2>3. QED
    BY <2>1, <2>2
<1>4. QED
  BY <1>1, <1>2, <1>3 DEF Resend

LEMMA RedeployStep ==
  ASSUME PayInv, Redeploy
  PROVE  PayInv'
<1> USE DEF PayInv, PayTypeOK, orderVars
<1>1. PayTypeOK'
  BY DEF Redeploy, Stages, Statuses, Files, NoNews
<1>2. \A h \in Hooks : HookOK(h)'
  BY DEF Redeploy, HookOK
<1>3. /\ MarkingOK' /\ OnlyTheKeyIsDelivered' /\ DeliveredWasMailed'
      /\ \A q \in Orders : FileOK(q)'
  BY DEF Redeploy, MarkingOK, OnlyTheKeyIsDelivered, DeliveredWasMailed, FileOK
<1>4. QED
  BY <1>1, <1>2, <1>3, Unclaimed DEF Redeploy

-----------------------------------------------------------------------------
LEMMA PayInvStep == PayInv /\ [PayNext]_payVars => PayInv'
<1> SUFFICES ASSUME PayInv, [PayNext]_payVars
             PROVE  PayInv'
  OBVIOUS
<1>1. ASSUME NEW h \in Hooks, Webhook(h) PROVE PayInv'
  BY <1>1, ReceiveStep, ClaimStep, QuietReturnStep, FileStep, SendMailStep,
     MailFailsStep, MarkDeliveredStep, CrashHookStep
  DEF Webhook
<1>2. CASE UNCHANGED payVars
  BY <1>2 DEF payVars, orderVars, hookVars, fileVars, cliVars, PayInv, PayTypeOK,
              KeysMatchOrders, HookOK, FileOK, MarkingOK, OnlyTheKeyIsDelivered,
              DeliveredWasMailed, Sent
<1>3. QED
  BY <1>1, <1>2, CheckoutStep, BulkStep, ResendStep, RedeployStep DEF PayNext

\* The strengthened invariant, of which the invariants of the runs are parts.
THEOREM PayInvariant == PaySpec => []PayInv
  BY PayInvInit, PayInvStep, PTL DEF PaySpec

\* Rows, handlers, files and lists are always well formed.
THEOREM PayTypeCorrect == PaySpec => []PayTypeOK
<1>1. PayInv => PayTypeOK
  BY DEF PayInv
<1>2. QED
  BY <1>1, PayInvariant, PTL

\* However many notifications race, an order has at most one key, no two orders
\* share one, and no key is without an order.
THEOREM OneKeyPerOrder == PaySpec => []KeysMatchOrders
<1>1. PayInv => KeysMatchOrders
  BY DEF PayInv
<1>2. QED
  BY <1>1, PayInvariant, PTL

\* Nothing but the key an order was claimed with is filed, listed or mailed.
THEOREM OnlyTheKey == PaySpec => []OnlyTheKeyIsDelivered
<1>1. PayInv => OnlyTheKeyIsDelivered
  BY DEF PayInv
<1>2. QED
  BY <1>1, PayInvariant, PTL

\* A record that says delivered has been.
THEOREM DeliveredHonest == PaySpec => []DeliveredWasMailed
<1>1. PayInv => DeliveredWasMailed
  BY DEF PayInv
<1>2. QED
  BY <1>1, PayInvariant, PTL

-----------------------------------------------------------------------------
\* Only a step that tears the record of a mailed order empties it.
LEMMA KeptStep ==
  ASSUME ~Redeploy, PayInv, [PayNext]_payVars, NEW o \in Orders,
         outKey[o] # NoKey, outKey'[o] = NoKey
  PROVE  <<o, keyHash[o]>> \in mailed
<1> USE DEF PayInv, PayTypeOK
<1>1. ~ UNCHANGED outKey /\ outKey[o] \in Keys
  OBVIOUS
<1>2. ASSUME NEW h \in Hooks, Webhook(h) PROVE <<o, keyHash[o]>> \in mailed
  <2>1. WriteOutbox(h) \/ OutboxFails(h) \/ MarkDelivered(h) \/ CrashHook(h)
    <3>1. ~ LoseRace(h) /\ ~ Record(h) /\ ~ SendMail(h) /\ ~ MailFails(h)
      BY <1>1 DEF LoseRace, Record, SendMail, MailFails, fileVars
    <3>2. \A q \in Orders, n \in News : ~ Receive(h, q, n)
      BY <1>1 DEF Receive, fileVars
    <3>3. \A k \in Keys : ~ Claim(h, k)
      BY <1>1 DEF Claim, fileVars
    <3>4. QED
      BY <1>2, <3>1, <3>2, <3>3 DEF Webhook
  <2>2. HookOK(h)
    OBVIOUS
  <2>3. CASE WriteOutbox(h)
    <3>1. hookKey[h] \in Keys
      BY <2>2, <2>3 DEF WriteOutbox, HookOK
    <3>2. outKey' = [outKey EXCEPT ![about[h]] = hookKey[h]]
      BY <1>1, <2>3 DEF WriteOutbox, fileVars
    <3>3. QED
      BY <3>1, <3>2, PaymentAssumption
  <2>4. CASE OutboxFails(h) \/ MarkDelivered(h) \/ CrashHook(h)
    <3>1. /\ about[h] = o
          /\ \/ outbox[o] = "none"
             \/ stage[h] = "mailed"
      BY <1>1, <2>4
      DEF OutboxFails, MarkDelivered, MarkFails, Mark, CrashHook, Tear, fileVars
    <3>2. outbox[o] # "none"
      BY DEF FileOK
    <3>3. QED
      BY <2>2, <3>1, <3>2 DEF HookOK
  <2>5. QED
    BY <2>1, <2>3, <2>4
<1>3. ASSUME Resend PROVE <<o, keyHash[o]>> \in mailed
  <2>1. ResendMark \/ ResendDies
    BY <1>1, <1>3 DEF Resend, ResendStart, ResendMail, ResendFails, fileVars
  <2>2. marking = o
    BY <1>1, <2>1 DEF ResendMark, ResendDies, Mark, MarkFails, Tear, fileVars
  <2>3. QED
    BY <2>2, PaymentAssumption DEF MarkingOK
<1>4. \A q \in Orders : ~ Checkout(q)
  BY <1>1 DEF Checkout, AskInvoice, OpenInvoice, RefuseInvoice, GrowOld, Notify,
              fileVars
<1>5. \A k \in Keys : ~ GenerateBulk(k)
  BY <1>1 DEF GenerateBulk, fileVars
<1>6. ~ Redeploy /\ ~ UNCHANGED payVars
  BY <1>1 DEF Redeploy, payVars, fileVars
<1>7. QED
  BY <1>2, <1>3, <1>4, <1>5, <1>6 DEF PayNext

\* The outbox gives up a key only once it is mailed, or with the whole disk.
THEOREM KeyKeptOnFile == PaySpec => OutboxKeepsKey
<1> DEFINE Kept(o) == outKey[o] # NoKey /\ outKey'[o] = NoKey
                        => <<o, outKey[o]>> \in mailed \/ Redeploy
<1>1. PayInv /\ [PayNext]_payVars => \A o \in Orders : Kept(o)
  <2> SUFFICES ASSUME PayInv, [PayNext]_payVars, NEW o \in Orders,
                      outKey[o] # NoKey, outKey'[o] = NoKey, ~Redeploy
               PROVE  <<o, outKey[o]>> \in mailed
    OBVIOUS
  <2>1. outKey[o] = keyHash[o]
    BY DEF PayInv, OnlyTheKeyIsDelivered
  <2>2. QED
    BY <2>1, KeptStep
<1>2. QED
  BY <1>1, PayInvariant, PTL DEF PaySpec, OutboxKeepsKey

-----------------------------------------------------------------------------
\* The checkout implements the ledger.
LEMMA LedgerStep ==
  ASSUME PayInv, [PayNext]_payVars
  PROVE  [Ledger!LedgerNext]_(Ledger!ledgerVars)
<1> USE DEF PayInv, PayTypeOK, orderVars
<1> DEFINE Paid == {o \in Orders : Sent(o, "finished")}
           Same == UNCHANGED <<Paid, keyHash, licenseKeys, mailed>>
<1>0. Same => [Ledger!LedgerNext]_(Ledger!ledgerVars)
  BY DEF Ledger!ledgerVars
<1>1. ASSUME NEW o \in Orders, Checkout(o)
      PROVE  Same \/ Ledger!Pay(o)
  <2>1. CASE AskInvoice(o) \/ OpenInvoice(o) \/ RefuseInvoice(o) \/ GrowOld(o)
    BY <2>1 DEF AskInvoice, OpenInvoice, RefuseInvoice, GrowOld, Sent
  <2>2. ASSUME NEW n \in News, Notify(o, n) PROVE Same \/ Ledger!Pay(o)
    <3>1. CASE n = "finished"
      BY <2>2, <3>1 DEF Notify, Sent, Ledger!Pay
    <3>2. CASE n # "finished"
      BY <2>2, <3>2 DEF Notify, Sent
    <3>3. QED
      BY <3>1, <3>2
  <2>3. QED
    BY <1>1, <2>1, <2>2, Zenon DEF Checkout
<1>2. ASSUME NEW k \in Keys, GenerateBulk(k) PROVE Ledger!Reserve(k)
  BY <1>2 DEF GenerateBulk, Fresh, Ledger!Reserve, Sent
<1>3. ASSUME NEW o \in Orders, NEW k \in Keys, k = keyHash[o],
             mailed' \in {mailed, mailed \cup {<<o, k>>}},
             UNCHANGED <<orderVars, notices>>
      PROVE  Same \/ Ledger!Mail(o)
  BY <1>3, PaymentAssumption DEF Ledger!Mail, Sent
<1>4. ASSUME NEW h \in Hooks, Webhook(h)
      PROVE  \/ Same
             \/ \E o \in Orders : Ledger!Mail(o) \/ \E k \in Keys : Ledger!Issue(o, k)
  <2>0. HookOK(h)
    OBVIOUS
  <2>1. ASSUME NEW k \in Keys, Claim(h, k)
        PROVE  about[h] \in Orders /\ Ledger!Issue(about[h], k)
    BY <2>0, <2>1 DEF Claim, Fresh, HookOK, Sent, Ledger!Issue
  <2>2. CASE SendMail(h) \/ MailFails(h)
    <3>1. about[h] \in Orders /\ hookKey[h] \in Keys /\ hookKey[h] = keyHash[about[h]]
      BY <2>0, <2>2 DEF SendMail, MailFails, HookOK
    <3>2. /\ mailed' \in {mailed, mailed \cup {<<about[h], hookKey[h]>>}}
          /\ UNCHANGED <<orderVars, notices>>
      BY <2>2 DEF SendMail, MailFails
    <3>3. QED
      BY <1>3, <3>1, <3>2
  <2>3. ASSUME NEW o \in Orders, NEW n \in News, Receive(h, o, n) PROVE Same
    BY <2>3 DEF Receive, Sent
  <2>4. CASE LoseRace(h) \/ Record(h) \/ WriteOutbox(h) \/ OutboxFails(h)
             \/ MarkDelivered(h) \/ CrashHook(h)
    BY <2>4 DEF LoseRace, Record, WriteOutbox, OutboxFails, MarkDelivered,
                CrashHook, Sent
  <2>5. QED
    BY <1>4, <2>1, <2>2, <2>3, <2>4, Zenon DEF Webhook
<1>5. ASSUME Resend
      PROVE  Same \/ \E o \in Orders : Ledger!Mail(o)
  <2>1. ASSUME NEW o \in Orders, NEW k \in Keys, ResendMail(o, k) \/ ResendFails(o, k)
        PROVE  Same \/ Ledger!Mail(o)
    <3>1. <<o, k>> \in queue /\ <<o, k>>[1] = o /\ <<o, k>>[2] = k
      BY <2>1 DEF ResendMail, ResendFails
    <3>2. k = keyHash[o]
      BY <3>1 DEF OnlyTheKeyIsDelivered
    <3>3. mailed' \in {mailed, mailed \cup {<<o, k>>}} /\ UNCHANGED <<orderVars, notices>>
      BY <2>1 DEF ResendMail, ResendFails
    <3>4. QED
      BY <1>3, <3>2, <3>3
  <2>2. CASE ResendStart \/ ResendMark \/ ResendDies
    BY <2>2 DEF ResendStart, ResendMark, ResendDies, Sent
  <2>3. QED
    BY <1>5, <2>1, <2>2, Zenon DEF Resend
<1>6. CASE Redeploy \/ UNCHANGED payVars
  BY <1>0, <1>6 DEF Redeploy, payVars, Sent
<1>7. CASE PayNext
  <2>1. Same \/ Ledger!LedgerNext
    BY <1>1, <1>2, <1>4, <1>5, <1>6, <1>7, Zenon DEF PayNext, Ledger!LedgerNext,
       Redeploy, Sent
  <2>2. QED
    BY <1>0, <2>1
<1>8. QED
  BY <1>6, <1>7

\* However notifications repeat, race and overtake each other, and whatever
\* crashes: a key is issued only for a paid order, once, and only it is mailed.
THEOREM LedgerRefinement == PaySpec => ImplementsLedger
<1>1. PayInit => Ledger!LedgerInit
  BY DEF PayInit, Ledger!LedgerInit, Sent
<1>2. PayInv /\ [PayNext]_payVars => [Ledger!LedgerNext]_(Ledger!ledgerVars)
  BY LedgerStep
<1>3. QED
  BY <1>1, <1>2, PayInvariant, PTL DEF PaySpec, ImplementsLedger, Ledger!LedgerSpec
=============================================================================
