SPECIFICATION RaceSpec
CONSTANTS
  t1 = t1
  t2 = t2
  Thread = {t1, t2}
  NoThread = NoThread
  Roles <- MCRoles
  Shared <- MCShared
  Writes <- MCWrites
  NBlocks = 5
  BlockDataSize = 1
  FileCountLimit = 4
  MaxFileSize = 2
  OpenFileLimit = 2
  Names = {"a", "b", "c", "d"}
  LongNames = {}
  Bytes = {0}
  ZeroByte = 0
  MaxLen = 0
  NoName = "none"
  NoDesc = NoDesc
INVARIANT CreatedFilesListed
