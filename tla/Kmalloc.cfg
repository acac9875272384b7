SPECIFICATION HeapFairSpec
CONSTANTS
  HeapStart = 3
  HeapSize = 13
  Hdr = 2
  Word = 16
  Sizes = {0, 1, 2, 4, 15}
INVARIANTS
  HeapTiled
  LiveBlocks
  FullyCoalesced
  AllFreedIsWhole
PROPERTIES
  NullMeansNoRoom
  EveryCallReturns
  ImplementsAllocator
