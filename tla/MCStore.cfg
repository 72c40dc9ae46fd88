SPECIFICATION StoreSpec
CONSTANTS
  None = None
  Works = {w1, w2, w3}
  Runs = {r1}
  Steps = {s1, s2, s3}
  Configs = {c1}
  MaxRevision = 3
  MaxRunRevision = 1
  MaxSequence = 1
SYMMETRY Symmetry
INVARIANTS DependenciesAcyclic DependenciesFirst
PROPERTIES HistoryIsKept
CHECK_DEADLOCK FALSE
