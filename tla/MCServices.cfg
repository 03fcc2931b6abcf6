SPECIFICATION ServicesSpec
CONSTANTS
  \* IocStore
  Iocs = {i1, i2}
  OtherTypes = {x}
  Otx = {s1}
  Urlhaus = {s2}
  Scheduled = {s1}
  Minings = {m1}
  NotMined = {i2}
  NoRow = NoRow
  \* DarkWatch
  Monitors = {m1, m2}
  Leaks = {f1, f2}
  LeakCheck = {f2}
  Repeated = {f2}
  Adders = {a1}
  Manual = {c1}
  Sweepers = {w1}
  \* Federation
  Peers = {n1, n2}
  MaxTasks = 2
  MaxStoredTasks = 1
  FedInFlight = 2
  FedItems = 2
  Torn = Torn
  \* JsonStores
  JsonWorkers = {w1, w2}
  Entries = {e1, e2}
  JsonCap = 1
  TornFile = TornFile
  \* TrafficLog
  Inspections = {r1, r2}
  Bursts = {b1, b2}
  BurstSize = 2
  LogCap = 3
  \* VpnPeers
  VpnWorkers = {v1, v2}
  PeerNames = {a, b}
  MaxHost = 2
  NoFile = NoFile
  \* Quotas
  TargetMeters = {t1}
  ReportMeters = {b1}
  LoginMeters = {l1}
  TokenMeters = {k1}
  Requesters = {r1, r2}
  Waiting = Waiting
  QuotaCap <- CapOfEach
  \* SlidingWindow
  Threads = {t1, t2}
  MaxRequests = 3
  MaxAdmissions = 10
  \* ProgressSockets
  Sockets = {s1, s2, s3}
  MaxConnectionsPerUser = 1
  MaxHandshakes = 2
  LastStep = 2
  \* InstanceLicense
  WebWorkers = {w1, w2}
  LicenseKeys = {"p1", "e1", "forged"}
  Signed = {"p1", "e1"}
  TierOf <- TierOfEach
  ExpiryOf <- ExpiryOfEach
  LastDay = 3
  \* EternalArchive
  Artifacts = {"a1", "a2"}
  Readers = {r1}
INVARIANTS ServicesTypeOK StoresAreExact LimitsHold LicenseIsHonest
PROPERTY OnlyStaleSavesForget
VIEW ServicesView
SYMMETRY Symmetry
CHECK_DEADLOCK FALSE
