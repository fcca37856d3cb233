SPECIFICATION LFairSpec
CONSTANTS
  Tasks = {t1, t2}
  Limits = {1, 2}
  MaxLines = 2
PROPERTY LinesWritten
