SPECIFICATION EspSpec
CONSTANTS
  f1 = f1
  Firmware = {f1}
  NoFirmware = NoFirmware
  Junk = Junk
  MaxAttempts = 1
  Corrupt = Corrupt
  MaxFaults = 1
  FlashMayFail = FALSE
  Uart = TRUE
  Chunks = 1
  Size <- Sizes
  Updater = TRUE
  OtaData <- AnyOta
  Calls <- NoCalls
  Provisioned <- EspFlash
INVARIANTS
  ActiveIsRunning
  AcknowledgedCommit
  RefusalsHold
