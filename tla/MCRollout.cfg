SPECIFICATION RolloutSpec
CONSTANTS
  None = None
  Runtimes = {r1}
  Plans = {"shadow1", "canary1", "activation1", "rollback1"}
  Edits = {"edit"}
  Later = {"rollback1"}
  MaxRevision = 2
  Budget = 4
  Concurrency = 2
  MaxFaults = 1
  Initial = "lkg"
  Plan <- PlanOf
INVARIANTS SettledIsProven SelectedIsAccounted BudgetHolds
PROPERTIES EvidenceCloses
CHECK_DEADLOCK FALSE
