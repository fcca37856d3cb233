SPECIFICATION StartSpec
CONSTANTS
  Ints <- SomeInts
  U16Mod = 4
  UsizeMod = 16
  CapMax = 7
  MaxUses = 4
  Tasks = {t1, t2}
  Limits = {0, 1, 2}
  MaxLines = 3
INVARIANTS IndexInRange RingsAsConfigured NoGaps
