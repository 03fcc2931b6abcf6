\* The disk survives; the process dies, or file and mail both fail.
SPECIFICATION PaySpec
CONSTANTS
  Orders = {o1}
  Keys = {k1}
  Hooks = {h1, h2}
  NoKey = NoKey
  NoOrder = NoOrder
  MaxBulk = 0
  DiskMayBeLost = FALSE
INVARIANT KeyNeverLost
