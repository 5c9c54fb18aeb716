SPECIFICATION FairSpec
CONSTANTS
  c1 = c1
  none = none
  Callers = {c1}
  NoInstruction = none
  Life = 2
  Horizon = 2
  MaxRevision = 2
  MaxEpoch = 2
PROPERTIES LocalIsAuthorized NoRollback Revives
