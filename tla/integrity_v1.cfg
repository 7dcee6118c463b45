CONSTANTS
  OffsetBit = 32
  SizeModulus = 64
  Byte = {0, 1, 2, 3, 4, 5, 6, 7, 8, 9}
  FileHeaderSize = 1
  DescriptorSize = 1
  VolumeMin = 1
  TableHeaderSize = 2
  CountSize = 1
  Md5Size = 1
  Sha1Size = 1
  CrcSize = 1
  KnownTypes <- MCKnownTypes
  SectorSizes = {1}
  Inflate <- MCInflate
  Adler <- MCAdler
  Images <- AllImages
  Expectations <- MCExpectations
SPECIFICATION HashSpec
CHECK_DEADLOCK FALSE
INVARIANTS ProgressAccounts CleanIsSound PassesAgree DamageReported
PROPERTIES AnalysisReturns
