SPECIFICATION Spec
CONSTANTS
  f1 = f1
  f2 = f2
  Firmware = {f1, f2}
  NoFirmware = NoFirmware
  Junk = Junk
  MaxAttempts = 2
  Corrupt = Corrupt
  MaxFaults = 1
  FlashMayFail = FALSE
  Uart = FALSE
  Chunks = 1
  Size <- Sizes
  Updater = FALSE
  Calls <- UpdateCalls
  Provisioned <- FactoryFlash
INVARIANTS
  UpdateNeverStrands
