SPECIFICATION Spec
CONSTANTS
  PAGE_SIZE = 4
  PMM_MAX_PAGES = 6
  U64 = 64
  MMAP_MAX_ENTRIES = 3
  Regions <- MCRegions
  Counts = {0, 2, 3}
INVARIANTS
  PageAccounting
PROPERTIES
  FreshPages
  RefusalIsHonest
  FirstFit
