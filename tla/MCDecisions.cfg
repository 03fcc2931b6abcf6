SPECIFICATION DecisionsSpec
CONSTANTS
  \* TriageBatch
  f1 = f1
  f2 = f2
  f3 = f3
  f4 = f4
  Findings = {f1, f2, f3, f4}
  Tokens <- TokensOfEach
  Concurrency = 2
  TpmLimit = 2
  TpdLimit = 5
  RealUsed = {4, 5}
  \* OsintSearch
  Sources = {"amass", "theharvester", "whois", "wayback", "virustotal", "leakcheck"}
  TargetTypes = {"domain", "email", "ip"}
  \* Honeypot
  PotWorkers = {w1, w2}
  PotServices = {"ssh", "ftp", "http_admin"}
  Hits = {c1}
  FtpMax = 2
  PotLevels = {"LOW", "MEDIUM", "HIGH", "CRITICAL"}
  Unbound = Unbound
  \* AccessPolicy
  Policies <- ThePolicies
  Attributes <- TheAttributes
  Requests <- TheRequests
  Values = {"admin", "analyst", "viewer", "read", "action", "export", "other", "critical",
            "low", "internal", "external", "sqli", "mixed", "yes", "no", "inside", "outside"}
  Resources = {"cve_pipeline", "api_scan", "ngfw_rules"}
  Missing = "none"
  Bad = "bad"
  AnyRole = "*"
INVARIANTS DecisionsTypeOK AnswersAreTrue
PROPERTY EverythingEnds
CHECK_DEADLOCK FALSE
