CONSTANTS
  Threads = {t1, t2}
  ChunkSize = 2
  TotalSize = 15
  CacheSize = 2
  SectionCacheSize = 1
  OffsetBit = 16
  SizeModulus = 16
  Lazy = TRUE
  IoErrors = FALSE
  Segments <- MCSegments
  Chunks <- MCChunks
  Index <- DamagedSections
  Requests <- DamagedRequests
  Byte <- MCByte
  Inflate <- MCInflate
SPECIFICATION Spec
INVARIANTS PageCacheCoherent SectionCacheCoherent FailureIsOwn
PROPERTIES ReadReturns
