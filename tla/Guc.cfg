SPECIFICATION Spec
CONSTANTS
  Gucs <- SomeGucs
  Sessions = {s1, s2}
  Half = 2
  FileInts <- SomeInts
  FileWords <- SomeWords
  MaxSets = 2
SYMMETRY Copies
INVARIANTS LoadedAsWritten FilterCoherent ReportedNeverStale
PROPERTY RefusalChangesNothing
CHECK_DEADLOCK FALSE
