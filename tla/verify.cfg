CONSTANTS
  NumChunks = 5
  ChunkSize = 2
  Byte = {0, 1, 2, 3, 4, 5, 6, 7, 8, 9}
  Page <- MCPage
  Images <- MCImages
  Threads = 2
  Batch = 3
SPECIFICATION Spec
CHECK_DEADLOCK FALSE
INVARIANTS HashedInOrder ErrorsReported VerdictSound
PROPERTIES VerifyReturns GoodImageVerifies
