SPECIFICATION Spec
CONSTANTS
  NConn = 2
  NThreads = 2
  NFds = 4
  Requests <- MCRequests
  Replies <- MCReplies
  RequestSize = 4
  Addresses <- MCAddresses
  BufSize = 2
  MaxLine = 3
  NoOwner = NoOwner
  NoCell = NoCell
INVARIANTS
  TypeOK
  DescriptorsHeld
  OneServerSocket
  RelayedInOrder
  RequestsForwarded
PROPERTIES
  RelayComplete
  AcceptedEnds
CHECK_DEADLOCK FALSE
