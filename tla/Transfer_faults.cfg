\* Three loaders, five chunks: two loaders have one chunk more than the third.
SPECIFICATION FairSpec
CONSTANTS
  NumberOfChunks = 5
  NumberOfLoaders = 3
  MayFail = TRUE
  NoData = NoData
  NoMessage = NoMessage
INVARIANTS
  AskedOnce
  FileIsRight
  MissingMeansGaveUp
PROPERTIES
  SyncReturns
  ImplementsChunkStore
\* The loaders end, and the client with them.
CHECK_DEADLOCK FALSE
