SPECIFICATION WorkersSpec
CONSTANTS
  Jobs = {j1, j2}
  Workers = {w1, w2}
  Publishers = {}
  None = None
  Foreign = {w2}
  MaxPendingOutbox = 20
  LeaseSeconds = 1
  BusyWait = 0
  MaxTime = 2
  Resources = {}
  Effects = {j1, j2}
  Slots = {}
  Bound = {}
  Requests <- Retried
  Malformed = {j2}
  Second = j2
INVARIANTS EffectAtMostOnce NoInventedSuccess NothingForgotten
PROPERTY ExpiredLeaseSettlesOrResolvedEarly
CHECK_DEADLOCK FALSE
