SPECIFICATION EspSpec
CONSTANTS
  f1 = f1
  Firmware = {f1}
  NoFirmware = NoFirmware
  Junk = Junk
  MaxAttempts = 1
  Corrupt = Corrupt
  MaxFaults = 1
  FlashMayFail = FALSE
  Uart = TRUE
  Chunks = 2
  Size <- Sizes
  Updater = TRUE
  OtaData <- ConfirmedOta
  Calls <- NoCalls
  Provisioned <- FactoryFlash
INVARIANTS
  CommitStands
