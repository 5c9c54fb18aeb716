SPECIFICATION FairSpec
CONSTANTS
  m1 = m1
  m2 = m2
  x1 = x1
  none = none
  Messages = {m1, m2}
  Rotations = {m2}
  Directs = {x1}
  NoDelivery = none
  MaxConcurrency = 1
  MaxLeases = 1
  MaxStarts = 1
  MaxStops = 1
  MaxReloads = 1
PROPERTIES DeliveryEnds StopEnds RotationReopens
CHECK_DEADLOCK FALSE
