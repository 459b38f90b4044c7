SPECIFICATION Spec
CONSTANTS
  SetBits = 1
  LineCount = 3
  BlockBits = 1
  Addresses = {0, 1, 4, 6, 8, 12}
  Garbage = {0}
  TraceLength = 7
INVARIANTS
  LruIsAnOrder
  OneLinePerBlock
PROPERTIES
  SimulatesLru
CHECK_DEADLOCK FALSE
