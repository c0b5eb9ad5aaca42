SPECIFICATION FairSpec
CONSTANTS
  VmTimers = {v1, v2}
  RtTimers = {r1}
  MaxDelay = 1
INVARIANTS NothingForgotten
PROPERTIES TimersFire
