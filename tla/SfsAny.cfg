SPECIFICATION Spec
CONSTANTS
  n1 = n1
  n2 = n2
  NBlocks = 4
  BlockDataSize = 1
  FileCountLimit = 2
  MaxFileSize = 3
  OpenFileLimit = 2
  Names = {n1, n2, "long"}
  LongNames = {"long"}
  Bytes = {0}
  ZeroByte = 0
  MaxLen = 2
  NoName = "none"
  NoDesc = NoDesc
VIEW View
SYMMETRY NameSymmetry
INVARIANTS
  BlocksNeverShared
  FsckIsExact
  RefCountsExact
