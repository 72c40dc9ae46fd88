SPECIFICATION ScopedSpec
CONSTANTS
  d1 = d1
  d2 = d2
  s1 = s1
  Second = p2
  Nil = Nil
  Deliveries = {d1, d2}
  Sessions = {s1}
  SessionOf <- OneSession
  Drainers = {p1, p2}
  Failures = {"rejected", "failed"}
  MaxFailures = 2
  BatchLimit = 2
  PageLimit = 2
INVARIANTS SpoolIsConsistent AckIsProof CursorIsResolved
PROPERTIES StagedIsResolvedUnlessOvertaken
CHECK_DEADLOCK FALSE
