SPECIFICATION Spec
CONSTANTS
  None = None
  Foreign = {w2}
  LeaseSeconds = 1
  Jobs = {j1, j2}
  Workers = {w1, w2}
  Publishers = {}
  MaxPendingOutbox = 3
  BusyWait = 1
  MaxTime = 2
  Resources = {r1}
  Effects = {k1}
  Slots = {s1}
  Bound = {j1}
  Requests <- TimedRetry
INVARIANTS RunningIffLeased LocksBackedByLease ClaimPinsAttempt ReadyHasAttemptsLeft
PROPERTIES SweepSparesRecognised KeepsPromise
CHECK_DEADLOCK FALSE
