SPECIFICATION SchedSpec
CONSTANTS
  Pcbs = {1, 2}
  Entries = {7}
PROPERTY StartsAtEntry
