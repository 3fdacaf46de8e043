SPECIFICATION Spec
CONSTANTS
  Jobs = {j1}
  Streams = {s1, s2}
  Grace = 1
  Disconnects = TRUE
  MaxEvents = 3
INVARIANTS StoreInv NothingVanishes
PROPERTY EventLogImplemented
