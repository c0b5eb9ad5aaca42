\* The modem may send nothing more and the AP be done.
SPECIFICATION OneDramFairSpec
CONSTANTS
  FmtSize = 4
  SocketMax = 4
  Burst = 3
  MaxOut = 5
  MaxIn = 5
  Retry = 1
CHECK_DEADLOCK FALSE
INVARIANTS StreamsKept
PROPERTIES BootCompletes
