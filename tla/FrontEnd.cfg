SPECIFICATION FSpec
CONSTANTS
  UsizeMod = 64
  LenWords <- SomeLenWords
  MinCap = 2
  MaxMsgs = 4
  KeyBytes = 4
  Rests <- SomeRests
  Base = 16
  W16 = 1
  W32 = 2
  Msgs <- SomeMsgs
  MaxSent = 2
  I32Max = 3
  I64Max = 7
  U16Mod = 4
  Operators <- SomeOperators
  Procs <- SomeProcs
  Stmts <- SomeStmts
INVARIANTS
  FTypeOK LenInCapacity WholeBodyOnly MemoryBounded
  CursorInBounds AcceptsExactly SpecialIsNoStartup
  FramesAsWritten ReadsAsWritten
  TypedAsCatalogSays ResnoIsPosition HashIsStructure
PROPERTY Decided
