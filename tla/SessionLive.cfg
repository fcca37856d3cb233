CONSTANTS
  g1 = g1
  g2 = g2
  Reported <- OneGuc
  BufCap <- TightBuf
  SockCap = 2
  InCap = 2
  ErrSizes <- LongErr
  MaxFrames = 3
SPECIFICATION FairSpec
PROPERTIES
  QueryAnswered
  GoneClientEndsSession
