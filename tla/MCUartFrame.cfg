SPECIFICATION FairSpec
CONSTANTS
  Base = 8
  SOF = 7
  MaxPayload = 6
  RspOK = 4
  RspError = 5
  RspStatus = 6
  HostFrames <- FewFrames
  NoiseBytes <- Noise
  MaxSent = 3
INVARIANTS
  TypeOK
  InSync
  NoEcho
PROPERTIES
  FrameEnds
CHECK_DEADLOCK FALSE
