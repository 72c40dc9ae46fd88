SPECIFICATION Spec
CONSTANTS
  None = None
  Foreign = {p1}
  LeaseSeconds = 1
  Jobs = {j1}
  Workers = {w1}
  Publishers = {p1}
  MaxPendingOutbox = 2
  BusyWait = 0
  MaxTime = 2
  Resources = {}
  Effects = {k1, k2}
  Slots = {}
  Bound = {}
  Requests <- OneShot
SYMMETRY Symmetry
INVARIANTS AmbiguityRecorded OutboxSound
PROPERTIES CompletionJustified EndsAreFinal
CHECK_DEADLOCK FALSE
