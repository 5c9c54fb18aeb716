CONSTANTS
  k1 = k1  k2 = k2  r1 = r1  r2 = r2
  Keys = {k1}
  Prints = {p1}
  Outcomes = {"observed", "rejected"}
  Callers = {r1, d, m}
  Rpcs = {r1}
  Deliverer = d
  Maint = m
  NoEntry = NoEntry  NoCaller = NoCaller  NoPrint = NoPrint  NoKey = NoKey
  MaxAwaiting = 1
  MaxEntries = 2
  Ttl = 2
  Horizon = 2
  MaxOrphans = 0
  MaxCrashes = 0
  MaxFailures = 1
SPECIFICATION FairControlSpec
PROPERTIES EvidenceSettled
CHECK_DEADLOCK FALSE
