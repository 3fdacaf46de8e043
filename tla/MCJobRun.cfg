SPECIFICATION FairSpec
CONSTANTS
  Jobs = {j1}
  Streams = {s1, s2}
  Grace = 2
  Disconnects = TRUE
  MaxEvents = 0
  Faults = {"timeout", "raise"}
  MaxProgress = 2
INVARIANTS CompletionIsSeen
PROPERTIES DeletionsHaveAReason EveryRunGetsAVerdict EarlyStreamsEnd
CHECK_DEADLOCK FALSE
