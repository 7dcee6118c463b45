CONSTANTS
  Threads = {t1, t2}
  ChunkSize = 2
  TotalSize = 9
  CacheSize = 1
  SectionCacheSize = 1
  OffsetBit = 16
  SizeModulus = 16
  Lazy = FALSE
  IoErrors = TRUE
  Segments <- MCSegments
  Chunks <- MCChunks
  Index <- HealthySections
  Requests <- EagerRequests
  Byte <- MCByte
  Inflate <- MCInflate
SPECIFICATION Spec
INVARIANTS ReadIsExact
PROPERTIES Refinement
