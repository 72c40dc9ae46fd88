SPECIFICATION StoresSpec
CONSTANTS
  onStep = onStep
  onWork = onWork
  w1 = w1
  w2 = w2
  r1 = r1
  s2 = s2
  c1 = c1
  Jobs = {onStep, onWork}
  Workers = {p1}
  Publishers = {}
  None = None
  Foreign = {}
  MaxPendingOutbox = 20
  LeaseSeconds = 1
  BusyWait = 0
  MaxTime = 0
  Resources = {}
  Effects = {k1}
  Slots = {}
  Bound = {onStep, onWork}
  Requests <- Retried
  Works = {w1, w2}
  Runs = {r1}
  Steps = {s1, s2}
  Configs = {c1, c2}
  MaxRevision = 3
  MaxSequence = 0
  Binding <- Bindings
INVARIANT EffectAfterPrerequisites
PROPERTY RetiredNeverStarts
CHECK_DEADLOCK FALSE
