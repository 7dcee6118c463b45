CONSTANTS
  OffsetBit = 32
  SizeModulus = 64
  Byte = {0, 1, 2, 3, 4, 5, 6, 7, 8, 9}
  FileHeaderSize = 1
  DescriptorSize = 1
  CrcSize = 1
  MaxChunkSize = 8
  Inflate <- MCInflate
  Adler <- MCAdler
  WriteErrors = FALSE
  Images <- SplitTable
SPECIFICATION Spec
CHECK_DEADLOCK FALSE
INVARIANTS EveryReadableRecovered
