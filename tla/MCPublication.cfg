SPECIFICATION ScopedSpec
CONSTANTS
  Jobs = {j1}
  Workers = {w1, w2}
  Publishers = {}
  None = None
  Foreign = {w1, w2}
  MaxPendingOutbox = 20
  LeaseSeconds = 1
  BusyWait = 0
  MaxTime = 2
  Resources = {project}
  Effects = {j1}
  Slots = {}
  Bound = {j1}
  Head <- FirstCommit
  Expiry = 2
  MaxCommit = 2
  Requests <- OneShot
SYMMETRY Symmetry
INVARIANTS PushIsAuthorized PublicationIsTold EffectIsProven
CHECK_DEADLOCK FALSE
