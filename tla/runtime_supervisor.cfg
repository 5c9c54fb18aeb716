SPECIFICATION LiveSpec
CONSTANTS
  h1 = h1
  h2 = h2
  b1 = b1
  Hosts = {h1, h2}
  Bridges = {b1}
  MaxChanges = 2
  MaxFaults = 1
INVARIANTS OneRuntime NothingLeft
PROPERTIES ShutdownEnds SelectionFollowed
