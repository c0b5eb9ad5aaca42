\* The guest may have made all its requests.
SPECIFICATION FairSpec
CONSTANTS
  N = 3
  Sectors = {0, 1, 2, 3}
  Setups <- MCSetups
CHECK_DEADLOCK FALSE
INVARIANTS RequestsKept DataRight
PROPERTIES Served
