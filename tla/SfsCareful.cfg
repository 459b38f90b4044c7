SPECIFICATION CarefulSpec
CONSTANTS
  NBlocks = 4
  BlockDataSize = 2
  FileCountLimit = 2
  MaxFileSize = 5
  OpenFileLimit = 2
  Names = {"a", "b"}
  LongNames = {}
  Bytes = {0}
  ZeroByte = 0
  MaxLen = 3
  NoName = "none"
  NoDesc = NoDesc
VIEW View
INVARIANTS
  SpaceAccounted
  CurrBlockTracksPos
  NeverAborts
  NamesUnique
