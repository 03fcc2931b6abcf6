SPECIFICATION FairLeaseSpec
CONSTANTS
  Workers = {w1, w2}
  NoOne = NoOne
  LockStale = 2
  MaxLag = 1
  DbMayFail = TRUE
INVARIANTS LeaseTypeOK OnlyLapsedLosesLock NoOverlapWithinLease
PROPERTIES ImplementsLeasedJob NeverWedged
