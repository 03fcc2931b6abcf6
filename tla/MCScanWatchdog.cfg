SPECIFICATION FairSysSpec
CONSTANTS
  Scans = {s1}
  Procs = {p1, p2}
  NSteps = 1
  VulnSteps = {}
  ScanStale = 1
  ActiveBound = 0
  NoOne = NoOne
  LockStale = 1
  MaxLag = 1
  DbMayFail = FALSE
PROPERTIES OnlyLeasedSweepsClose EveryScanCloses
