\* Three calls for different chunks of a file of five, windows of 1 + 2 chunks,
\* fair threads.  No symmetry: there are temporal properties.
SPECIFICATION FairSpec
CONSTANTS
  Request = {r1, r2, r3}
  NoRequest = NoRequest
  NoChunk = NoChunk
  NumberOfChunks = 5
  ReadInAdvance = 2
  RepeatReads = FALSE
INVARIANTS
  TypeOK
  ReadsAreRight
  NoLostRequest
  WindowAnswersItsItems
PROPERTIES
  StopReturns
  ImplementsChunkService
\* The cache stops for good once it is closed.
CHECK_DEADLOCK FALSE
