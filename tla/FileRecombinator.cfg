\* Two chunks over a file of up to two, everything may fail, one crash or second
\* session.  No symmetry: two of the properties are liveness.
SPECIFICATION FairSpec
CONSTANTS
  Write = {w1, w2}
  NoWrite = NoWrite
  Nothing = Nothing
  Old = Old
  Torn = Torn
  NumberOfChunks = 2
  BatchSize = 2
  OldLength = 2
  MayFail = TRUE
  MaxRestarts = 1
INVARIANTS
  TypeOK
  DoneIsWritten
  CompletedIsDurable
  NoLostWrite
PROPERTIES
  ImplementsChunkStore
  WaitReturns
  StopReturns
\* The last session stops for good.
CHECK_DEADLOCK FALSE
