\* Two notifications of one order at a time, a key sold elsewhere, and a disk
\* that does not survive a redeploy.
SPECIFICATION FairPaySpec
CONSTANTS
  Orders = {o1}
  Keys = {k1, k2}
  Hooks = {h1, h2}
  NoKey = NoKey
  NoOrder = NoOrder
  MaxBulk = 1
  DiskMayBeLost = TRUE
INVARIANTS PayTypeOK KeysMatchOrders OnlyTheKeyIsDelivered DeliveredWasMailed
PROPERTIES ImplementsLedger PaidGetsKey FiledGetsMailed
