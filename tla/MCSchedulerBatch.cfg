SPECIFICATION BatchSpec
CONSTANTS
  Tasks = {t1, t2}
  Requests = {}
  Limit = 1
  MaxRuns = 2
  MaxDay = 2
  Faults = {"crash", "delete"}
INVARIANTS SlotsInv
PROPERTIES MarkedRowsGetAVerdict
CHECK_DEADLOCK FALSE
