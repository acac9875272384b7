SPECIFICATION Spec
CONSTANTS
  Entries = 2
  PAGE_SIZE = 2
  NPages = 6
  Virts = {5, 31}
  Physs = {9}
  Flags = {"RO", "RW"}
  Counts = {1, 2}
  MaxHeld = 1
INVARIANTS
  TablesAreTree
  MappedCounted
PROPERTIES
  MapMeansMapped
  ImplementsAddressSpace
