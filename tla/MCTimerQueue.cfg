CONSTANTS
  Addrs = {a1, a2}
  Free = Free
  PerSecond = 2
  MinWait = 1
  Delays = {0, 1}
  Intervals = {0, 1}
  MaxSeq = 2
  AddBy = 3
  MaxTime = 9
  MaxQueue = 1
SPECIFICATION FairSpec
INVARIANTS TimerInv Paired Owned Armed CancelSticks
PROPERTIES TimersRun
CHECK_DEADLOCK FALSE
