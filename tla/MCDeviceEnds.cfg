SPECIFICATION FairSpec
CONSTANTS
  f1 = f1
  f2 = f1
  Firmware = {f1}
  NoFirmware = NoFirmware
  Junk = Junk
  MaxAttempts = 1
  Corrupt = Corrupt
  MaxFaults = 1
  FlashMayFail = FALSE
  Uart = TRUE
  Chunks = 2
  Size <- Sizes
  Updater = FALSE
  Calls <- NoCalls
  Provisioned <- ActiveBFlash
INVARIANTS
  SessionSparesActive
  AcknowledgedCommit
PROPERTIES
  BootEnds
  ImplementsPolicy
