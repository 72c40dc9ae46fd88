SPECIFICATION FairSpec
CONSTANTS
  Jobs = {j1}
  Workers = {}
  Publishers = {p1, p2}
  None = None
  Foreign = {p2}
  MaxPendingOutbox = 2
  LeaseSeconds = 1
  BusyWait = 0
  MaxTime = 2
  Resources = {}
  Effects = {}
  Slots = {}
  Bound = {}
  Requests <- Timed
INVARIANTS SentAtMostOnce NoInventedDelivery
PROPERTY ExpiredClaimSettles
CHECK_DEADLOCK FALSE
