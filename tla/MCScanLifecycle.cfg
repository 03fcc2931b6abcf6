SPECIFICATION ScanSpec
CONSTANTS
  Scans = {s1, s2}
  Procs = {p1, p2}
  NSteps = 2
  VulnSteps <- MCVulnSteps
  ScanStale = 2
  ActiveBound = 1
SYMMETRY Symmetry
INVARIANTS ScanTypeOK OpenWhileActive DoneIsComplete FindingsIffDone
PROPERTY StatusMovesForward
