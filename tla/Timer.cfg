SPECIFICATION Spec
CONSTANTS
  Irqs = {0, 1, 8, 9}
  BootMasks <- MCBootMasks
  Half = 2
  Frequencies = {18, 100, 2000000}
  Millis = {9, 25}
  MaxTicks = 3
INVARIANTS
  MasksAsAsked
  EoiMatches
  EnabledLinesInterrupt
  FrequencyTrue
PROPERTIES
  SleepsLongEnough
  SleepsNoLonger
