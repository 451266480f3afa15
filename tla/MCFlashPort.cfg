SPECIFICATION PortSpec
CONSTANTS
  MaxWord = 51
  StateSize = 3
  Page = 4
  Unit = 2
  FlashBase = 24
  BankPages = 6
  Layouts <- SomeLayouts
  Exercised <- Usable
  MaxLen = 2
  MaxCalls = 4
INVARIANTS
  VerdictRight
  AreasKept
CHECK_DEADLOCK FALSE
