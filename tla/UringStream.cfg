CONSTANTS
  s1 = s1
  s2 = s2
  Streams <- TwoStreams
  Depth = 1
  MaxLen = 2
  MaxBytes = 3
  MaxOps = 2
SPECIFICATION Spec
SYMMETRY Symmetry
INVARIANTS
  TypeOK
  NoOrphans
  SameBuffer
  BytesExactlyOnce
  NoLostWakeup
