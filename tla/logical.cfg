CONSTANTS
  Evidence <- AllEvidence
  FileHeaderSize = 1
  DescriptorSize = 1
  LtreeHeaderSize = 1
  Word = 64
  MaxAlloc = 31
SPECIFICATION Spec
CHECK_DEADLOCK FALSE
INVARIANTS TreeSound WrittenTreeListed EntryReadExact
PROPERTIES ListingEnds
