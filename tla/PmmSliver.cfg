SPECIFICATION Spec
CONSTANTS
  PAGE_SIZE = 4
  PMM_MAX_PAGES = 6
  U64 = 64
  MMAP_MAX_ENTRIES = 3
  Regions <- MCSliver
  Counts = {0, 2, 3}
INVARIANT ClampedToMemory
