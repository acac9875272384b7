SPECIFICATION Spec
CONSTANTS
  LogChars = 1
  SleepTicks = 1
  Sleeps = 1
  BootMask <- MCFirmwareMask
  OtherIrqs = {6}
  EaxValues = {0}
  Exceptions = {}
  QuietBoot = TRUE
  MaxTicks = 2
  MaxKeys = 0
  MaxOthers = 1
  MaxExceptions = 0
INVARIANTS
  AllAcknowledged
