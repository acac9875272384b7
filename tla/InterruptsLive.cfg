SPECIFICATION FairSpec
CONSTANTS
  LogChars = 1
  SleepTicks = 1
  Sleeps = 2
  BootMask <- MCTimerShut
  OtherIrqs = {6, 8}
  EaxValues = {0, 38, 40}
  Exceptions = {}
  QuietBoot = TRUE
  MaxTicks = 4
  MaxKeys = 2
  MaxOthers = 2
  MaxExceptions = 0
PROPERTIES
  BootCompletes
  TicksArrive
  KeysAreRead
