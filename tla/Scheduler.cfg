SPECIFICATION SchedFairSpec
CONSTANTS
  Pcbs = {1, 2, 3, 4}
  Entries = {7}
INVARIANTS
  RingIntact
  OneRunning
  BoundedWait
PROPERTIES
  EveryoneRuns
