\* A migration that ends, or whose peer goes away, leaves nothing to do.
SPECIFICATION FairSpec
CONSTANTS
  NPages = 3
  MaxVersion = 2
  FBuf = 2
  SockRoom = 2
  Limit = 1
  MaxMig = 2
CHECK_DEADLOCK FALSE
INVARIANTS HandoverSafe
PROPERTIES MonitorResumes
