SPECIFICATION ThreadSpec
CONSTANTS
  t1 = t1
  t2 = t2
  Thread = {t1, t2}
  NoThread = NoThread
  Shared <- MCShared
  Roles <- MCRoles
  Writes <- MCWrites
  NBlocks = 4
  BlockDataSize = 1
  FileCountLimit = 2
  MaxFileSize = 4
  OpenFileLimit = 2
  Names = {"a", "b"}
  LongNames = {}
  Bytes = {0, 1}
  ZeroByte = 0
  MaxLen = 2
  NoName = "none"
  NoDesc = NoDesc
VIEW View
PROPERTIES
  CallsAreAtomic
  ListingComplete
  ListingEnds
  MutexReleased
