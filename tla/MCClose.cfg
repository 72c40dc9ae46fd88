SPECIFICATION ScopedSpec
CONSTANTS
  None = None
  Procs = {p1, p2}
  Notes = {n1}
  MaxEvents = 2
  MaxManifests = 2
  MaxFaults = 1
INVARIANTS ClosedIsProven FrozenIsQuiet
PROPERTIES ClosesUnlessLost
CHECK_DEADLOCK FALSE
