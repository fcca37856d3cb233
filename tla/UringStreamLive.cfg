CONSTANTS
  s1 = s1
  s2 = s2
  Streams <- TwoStreams
  Depth = 2
  MaxLen = 1
  MaxBytes = 1
  MaxOps = 2
SPECIFICATION FairSpec
PROPERTIES
  OpReturns
