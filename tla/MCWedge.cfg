SPECIFICATION FairSpec
CONSTANTS
  Jobs = {j1}
  Workers = {w1}
  Publishers = {}
  None = None
  Foreign = {}
  MaxPendingOutbox = 20
  LeaseSeconds = 1
  BusyWait = 0
  MaxTime = 2
  Resources = {}
  Effects = {j1}
  Slots = {}
  Bound = {}
  Requests <- Retried
  Malformed = {}
  Second = None
PROPERTY ExpiredLeaseSettles
CHECK_DEADLOCK FALSE
