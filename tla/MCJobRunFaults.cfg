SPECIFICATION ReadSpec
CONSTANTS
  Jobs = {j1}
  Streams = {s1}
  Grace = 2
  Disconnects = TRUE
  MaxEvents = 0
  Faults = {"timeout", "raise", "config", "db", "crash", "recover"}
  MaxProgress = 2
INVARIANTS EndedJobsAreDecided
PROPERTIES CompletedIsFinal OnlyDeadRunsAreOrphans OrphansAreFinalized
CHECK_DEADLOCK FALSE
