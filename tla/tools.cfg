CONSTANTS
  Sessions <- AllSessions
  HalfWord = 8
  ChunkSize = 2
  BufSize = 2
  MaxLength = 5
  DefaultLength = 3
  MaxResults = 6
  DefaultResults = 2
  LibraryCalls <- Moves
  MaxCalls = 4
  FileHeaderSize = 1
  DescriptorSize = 2
SPECIFICATION Spec
CHECK_DEADLOCK FALSE
INVARIANTS SearchFindsAll RangesExact ExitTellsVerdict
PROPERTIES EveryLineAnswered CursorRefines
