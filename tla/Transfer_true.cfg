\* Two loaders, two chunks.
SPECIFICATION Spec
CONSTANTS
  NumberOfChunks = 2
  NumberOfLoaders = 2
  MayFail = TRUE
  NoData = NoData
  NoMessage = NoMessage
INVARIANTS
  TrueMeansComplete
\* The loaders end, and the client with them.
CHECK_DEADLOCK FALSE
