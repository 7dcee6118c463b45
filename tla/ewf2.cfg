CONSTANTS
  OffsetBit = 32
  SizeModulus = 64
  Byte = {0, 1, 2, 3, 4, 5, 6, 7, 8, 9}
  HeaderSize = 2
  DescriptorSize = 1
  TableHeaderSize = 1
  EntrySize = 1
  CrcSize = 1
  Md5Size = 1
  Sha1Size = 2
  Sha256Size = 2
  CountBit = 8
  MaxTableEntries = 5
  MaxSectionData = 15
  DefaultChunkSize = 4
  Inflate <- MCInflate
  Adler <- MCAdler
  Images <- AllImages
  Expectations <- MCExpectations
SPECIFICATION Spec
CHECK_DEADLOCK FALSE
INVARIANTS ToolsAgree SlicesInBounds DamageReported ProgressCompletes
PROPERTIES BothReturn
