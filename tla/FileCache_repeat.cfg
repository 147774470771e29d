\* Chunks may be asked for again, as in tests/file_cache_test.cpp: four calls,
\* a file of three chunks, windows of 1 + 2.
SPECIFICATION Spec
CONSTANTS
  Request = {r1, r2, r3, r4}
  NoRequest = NoRequest
  NoChunk = NoChunk
  NumberOfChunks = 3
  ReadInAdvance = 2
  RepeatReads = TRUE
SYMMETRY Symmetry
INVARIANTS
  ReadsAreRight
CHECK_DEADLOCK FALSE
