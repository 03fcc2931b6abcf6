\* Two requests at a time, a limit of one record, and a token to spare for a
\* row that is deleted and made again.
SPECIFICATION DomSpec
CONSTANTS
  u1 = u1
  u2 = u2
  root = root
  sub = sub
  train = train
  addr = addr
  xss = xss
  nmap = nmap
  whois = whois
  bogus = bogus
  Names = {root, sub, train}
  Addresses = {addr}
  NoHost = NoHost
  Under <- MCUnder
  Resolve <- MCResolve
  Checks = {xss, nmap, whois, bogus}
  Active = {xss, nmap}
  Passive = {whois}
  Training = {train}
  Permits <- MCPermits
  Users = {u1, u2}
  Slots <- MCSlots
  Tokens = {t1, t2, t3}
  NoToken = NoToken
  Reqs = {r1, r2}
  NoSlot = NoSlot
  Asks <- MCAsks
  MaxRecords = 1
SYMMETRY Symmetry
INVARIANTS DomTypeOK ActiveOnlyWhereProved AcceptedChecksPermitted
PROPERTY VerdictsComeFromLookups
