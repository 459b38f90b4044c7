SPECIFICATION Spec
CONSTANTS
  HeapUnits = 14
  Chunk = 3
  ListCount = 4
  SearchLimit = 2
  Modulus = 256
  Requests = {0, 1, 33, 48}
INVARIANTS
  TypeOK
  HeapTiled
  ListsSound
  PayloadsFit
  CheckHeapPasses
PROPERTIES
  LiveBlocksStay
