\* Three chunks of three blocks, the last of 17 bytes; the list and the new
\* buffers have sizes around one, two and three blocks.  Headers of all sizes of
\* up to 319 bytes, the last 15 of which do not fit into 19 blocks, and all files
\* and chunks of up to 23 bytes, the largest number there is.
SPECIFICATION FairSpec
CONSTANTS
  Word = 20
  UInt64 = 24
  Kind = {"open", "sync", "loader"}
  NumberOfChunks = 3
  ChunkSize = 48
  LastSize = 17
  ListSize = 33
  InitialSize = 40
  MayBreak = TRUE
  List = List
  Details = Details
  OtherBytes = OtherBytes
  NoMessage = NoMessage
INVARIANTS
  TypeOK
  ReplyIsWhole
  FailureHasCause
  SizeSurvives
  RoomForTag
  ChunksAreTheFile
PROPERTY ReceiveReturns
\* A connection ends.
CHECK_DEADLOCK FALSE
