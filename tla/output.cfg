SPECIFICATION OutputSpec
CONSTANTS
  c1 = c1 c2 = c2
  Commands = {c1, c2}
  MaxWritten = 2
  ChunkLimit <- Limits
  BufferMessages = 2
  BufferChunks = 1
  ServerLimit = 2
  PageChunks = 1
  MaxConnections = 2
  MaxCrashes = 1
  MaxFailures = 1
INVARIANTS WholeMeansAll ReaderMissesNothing TruncationHasACause
CHECK_DEADLOCK FALSE
