SPECIFICATION OldSpec
CONSTANTS
  Tasks = {t1}
  Requests = {u1}
  Limit = 1
  MaxRuns = 2
  MaxDay = 1
  Faults = {"fail", "crash", "apicrash", "manual", "edit", "discard", "read"}
INVARIANTS SuccessHasReport ThreeStrikes
CHECK_DEADLOCK FALSE
