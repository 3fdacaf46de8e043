SPECIFICATION CollectorSpec
CONSTANTS
  Jobs = {j1, j2}
  Keys = {k1, k2}
  Faults = {"alias"}
INVARIANTS EveryPoolStays
