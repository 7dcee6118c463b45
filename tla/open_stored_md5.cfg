CONSTANTS
  OffsetBit = 32
  SizeModulus = 64
  FileHeaderSize = 4
  DescriptorSize = 1
  MaxChunkSize = 8
  MaxTableEntries = 4
  MaxSectionData = 64
  Images <- HashThenDigest
SPECIFICATION Spec
CHECK_DEADLOCK FALSE
INVARIANTS StoredMd5Kept
