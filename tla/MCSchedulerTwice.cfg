SPECIFICATION Spec
CONSTANTS
  Tasks = {t1}
  Requests = {}
  Limit = 1
  MaxRuns = 3
  MaxDay = 2
  Faults = {}
INVARIANTS OncePerDay
CHECK_DEADLOCK FALSE
