\* Two bursts and two real requests, against what the comment over
\* simulate_traffic_burst promises.
SPECIFICATION TrafficSpec
CONSTANTS
  Inspections = {r1, r2}
  Bursts = {b1, b2}
  BurstSize = 2
  LogCap = 3
INVARIANT RealTrafficStaysUntagged
CHECK_DEADLOCK FALSE
