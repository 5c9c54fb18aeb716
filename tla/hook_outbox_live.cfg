\* Every operation ends, also while controllers are replaced in a living process.
CONSTANTS
  k1 = k1  k2 = k2  k3 = k3  r1 = r1  r2 = r2
  Keys = {k1}
  Prints = {p1}
  Outcomes = {"observed"}
  Callers = {r1, d}
  Deliverer = d
  NoEntry = NoEntry  NoCaller = NoCaller  NoPrint = NoPrint  NoKey = NoKey
  MaxAwaiting = 1
  MaxEntries = 1
  Ttl = 1
  Horizon = 1
  MaxOrphans = 1
SPECIFICATION FairSpec
PROPERTIES EveryCallReturns
CHECK_DEADLOCK FALSE
