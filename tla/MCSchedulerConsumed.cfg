SPECIFICATION Spec
CONSTANTS
  Tasks = {t1}
  Requests = {}
  Limit = 1
  MaxRuns = 3
  MaxDay = 1
  Faults = {"manual", "crash"}
INVARIANTS ManualTestsConsumeNothing
CHECK_DEADLOCK FALSE
