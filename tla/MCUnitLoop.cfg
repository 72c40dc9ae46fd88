SPECIFICATION LoopSpec
CONSTANTS
  None = None
  Scenarios = {s1}
  Files = {f1}
  Reported = {}
  MaxAttempts = 3
  Remote = TRUE
  MaxCalls = 4
  FlakyRepeats = 1
  MaxDiagnostic = 2
  Window = 2
  MaxEdits = 1
  MaxControls = 1
  MaxFaults = 1
  MaxEvents = 2
  MaxStarts = 2
INVARIANTS AttemptsAreAccounted UserContentIsRecoverable
PROPERTIES SuccessIsMeasured EverySessionEnds
CHECK_DEADLOCK FALSE
