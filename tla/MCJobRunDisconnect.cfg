SPECIFICATION RunSpec
CONSTANTS
  Jobs = {j1}
  Streams = {s1}
  Grace = 2
  Disconnects = TRUE
  MaxEvents = 0
  Faults = {}
  MaxProgress = 2
PROPERTIES OnlyFinishedJobsAreDeleted
CHECK_DEADLOCK FALSE
