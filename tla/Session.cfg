CONSTANTS
  g1 = g1
  g2 = g2
  Reported <- TwoGucs
  BufCap <- TightBuf
  SockCap = 2
  InCap = 2
  ErrSizes <- AnyErrSize
  MaxFrames = 4
SPECIFICATION HearingSpec
INVARIANTS
  TypeOK
  StreamIntact
  NothingHeldBack
  FramesInStep
  NoSilentHangup
PROPERTIES
  Contract
