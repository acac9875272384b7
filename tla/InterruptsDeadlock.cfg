SPECIFICATION FairSpec
CONSTANTS
  LogChars = 1
  SleepTicks = 1
  Sleeps = 1
  BootMask <- MCFirmwareMask
  OtherIrqs = {}
  EaxValues = {0}
  Exceptions = {}
  QuietBoot = FALSE
  MaxTicks = 2
  MaxKeys = 1
  MaxOthers = 0
  MaxExceptions = 0
PROPERTIES
  HandlersReturn
