SPECIFICATION CarefulSpec
CONSTANTS
  NBlocks = 3
  BlockDataSize = 2
  FileCountLimit = 2
  MaxFileSize = 5
  OpenFileLimit = 2
  Names = {"a", "b"}
  LongNames = {}
  Bytes = {0, 1}
  ZeroByte = 0
  MaxLen = 3
  NoName = "none"
  NoDesc = NoDesc
  Absent = Absent
VIEW View
PROPERTY ImplementsStore
