\* Three keys, two RPC callers and the delivery loop; the process may die at any step.
CONSTANTS
  k1 = k1  k2 = k2  k3 = k3  r1 = r1  r2 = r2
  Keys = {k1, k2, k3}
  Prints = {p1}
  Outcomes = {"observed"}
  Callers = {r1, r2, d}
  Deliverer = d
  NoEntry = NoEntry  NoCaller = NoCaller  NoPrint = NoPrint  NoKey = NoKey
  MaxAwaiting = 1
  MaxEntries = 2
  Ttl = 1
  Horizon = 2
  MaxOrphans = 0
SPECIFICATION Spec
SYMMETRY Symmetric
INVARIANTS PublishedIsDurable Capacity
PROPERTIES EvidenceKept ImplementsLedger
CHECK_DEADLOCK FALSE
