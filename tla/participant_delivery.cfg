SPECIFICATION Spec
CONSTANTS
  m1 = m1
  m2 = m2
  x1 = x1
  none = none
  Messages = {m1, m2}
  Rotations = {m2}
  Directs = {}
  NoDelivery = none
  MaxConcurrency = 2
  MaxLeases = 3
  MaxStarts = 1
  MaxStops = 1
  MaxReloads = 1
INVARIANTS HandlerOncePerLease ConfirmedIsSettled AcceptedFindsSlot RotationAlone StoppedIsQuiet
CHECK_DEADLOCK FALSE
