SPECIFICATION Spec
CONSTANTS
  f1 = f1
  f2 = f1
  Firmware = {f1}
  NoFirmware = NoFirmware
  Junk = Junk
  MaxAttempts = 1
  Corrupt = Corrupt
  MaxFaults = 1
  FlashMayFail = TRUE
  Uart = TRUE
  Chunks = 1
  Size <- Sizes
  Updater = FALSE
  Calls <- NoCalls
  Provisioned <- ActiveBFlash
INVARIANTS
  AcknowledgedCommit
  RefusalsHold
