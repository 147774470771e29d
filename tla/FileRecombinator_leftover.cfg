\* Two chunks over a file that may be one chunk longer.
SPECIFICATION Spec
CONSTANTS
  Write = {w1, w2}
  NoWrite = NoWrite
  Nothing = Nothing
  Old = Old
  Torn = Torn
  NumberOfChunks = 2
  BatchSize = 2
  OldLength = 3
  MayFail = FALSE
  MaxRestarts = 0
SYMMETRY Symmetry
INVARIANTS
  FileIsTheServers
CHECK_DEADLOCK FALSE
