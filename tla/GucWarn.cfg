SPECIFICATION Spec
CONSTANTS
  Gucs <- LogGucs
  Sessions = {s1}
  Half = 2
  FileInts <- SomeInts
  FileWords <- SomeWords
  MaxSets = 1
INVARIANT RefusalsWarned
CHECK_DEADLOCK FALSE
