\* A device that has made its calls and stopped the timer leaves nothing to do.
SPECIFICATION PtimerFairSpec
CONSTANTS
  W = 5
  F = 3
  G = 5
  Limits = {0, 1, 3, 7}
  Periods = {0, 1, 2}
  Freqs = {2, 3, 6}
  MaxLate = 2
  MaxOps = 6
CHECK_DEADLOCK FALSE
INVARIANTS CountRight
PROPERTIES NoDrift PeriodicFires
