SPECIFICATION Spec
CONSTANTS
  LogChars = 1
  SleepTicks = 1
  Sleeps = 1
  BootMask <- MCFirmwareMask
  OtherIrqs = {8}
  EaxValues = {0, 40}
  Exceptions = {2, 13}
  QuietBoot = FALSE
  MaxTicks = 1
  MaxKeys = 1
  MaxOthers = 1
  MaxExceptions = 2
INVARIANTS
  LockHasOneOwner
  TicksCounted
  DriversAcknowledge
  PreparedForIrqs
PROPERTY PanicIsFinal
