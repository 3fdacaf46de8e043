SPECIFICATION RunSpec
CONSTANTS
  Jobs = {j1}
  Streams = {s1}
  Grace = 2
  Disconnects = FALSE
  MaxEvents = 0
  Faults = {}
  MaxProgress = 2
PROPERTIES LiveReportsAreNoOrphans
CHECK_DEADLOCK FALSE
