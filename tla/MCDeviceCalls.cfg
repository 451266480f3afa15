SPECIFICATION Spec
CONSTANTS
  f1 = f1
  f2 = f1
  Firmware = {f1}
  NoFirmware = NoFirmware
  Junk = Junk
  MaxAttempts = 1
  Corrupt = Corrupt
  MaxFaults = 1
  FlashMayFail = FALSE
  Uart = FALSE
  Chunks = 1
  Size <- Sizes
  Updater = TRUE
  Calls <- AllCalls
  Provisioned <- RepairFlash
INVARIANTS
  OneActiveSlot
  RefusedNeverRuns
PROPERTIES
  CallsAreDurable
  ImplementsPolicy
